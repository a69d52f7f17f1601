---------------------------- MODULE OptimumLemmas ----------------------------
(***************************************************************************)
(* Why no search loses the optimum, for the proofs: the bounds of nodes,   *)
(* the values that propagate keeps in step with those of the children, and *)
(* the part of the search space from which the optimum can still be put    *)
(* together.                                                               *)
(***************************************************************************)
EXTENDS SearchLemmas

(* The bounds that a node holds: its own, and those of its values if it is *)
(* an OR node, are at least what the optimum makes of them.                *)
BoundOK(P, p, nd) ==
  /\ nd.heur \in Known
  /\ IF IsOR(p)
     THEN /\ ~Greater(Exact(P, p), nd.heur)
          /\ \A v \in Values(Var(p)) :
               /\ nd.heurCache[v].heur \in Known
               /\ ~Greater(Times(Exact(P, Append(p, v)), LabelOn(P, Append(p, v))),
                           nd.heurCache[v].heur)
     ELSE ~Greater(Times(Exact(P, p), nd.label), nd.heur)

(* The heuristic's bound for the value of an AND node: the product of the  *)
(* bounds of its children, which read the contexts of its path.            *)
LEMMA HeurAtAND ==
  ASSUME NEW P \in Problems, NEW r, IsSearchPath(r), IsAND(r), NEW x, x = Var(r), NEW av,
         \A y \in Ctx[x] \cup {x} : av[y] = PathValue(r, y)
  PROVE  HeurOf(P, x, av) \in Known /\ ~Greater(Exact(P, r), HeurOf(P, x, av))
<1> DEFINE C == ChildSet(x)
           f == [y \in C |-> P.opt[y][PathRestriction(r, Ctx[y])]]
           g == [y \in C |-> P.bound[y][PathRestriction(r, Ctx[y])]]
           h == [y \in C |-> y]
<1>1. x \in Vars
  BY NodeVariable DEF IsSearchPath
<1>2. /\ IsFiniteSet(C) /\ C \subseteq Vars
      /\ \A y \in C : /\ IsSearchPath(Append(r, y)) /\ Len(Append(r, y)) = Len(r) + 1
                      /\ Parent(Append(r, y)) = r /\ Var(Append(r, y)) = y
                      /\ P.opt[y][PathRestriction(r, Ctx[y])] \in Known
  BY ContextsOfKids
<1>3. ASSUME NEW y \in C
      PROVE  /\ Restriction(av, Ctx[y]) = PathRestriction(r, Ctx[y])
             /\ PathRestriction(r, Ctx[y]) \in Assignments(Ctx[y])
  <2>1. Ctx[y] \subseteq Ctx[x] \cup {x}
    BY <1>1, ParentOfChild, PseudotreeAssumption
  <2>2. Restriction(av, Ctx[y]) = PathRestriction(r, Ctx[y])
    BY <2>1 DEF Restriction, PathRestriction
  <2> DEFINE q == Append(r, y)
  <2>3. IsSearchPath(q) /\ Len(q) = Len(r) + 1 /\ Parent(q) = r /\ Var(q) = y /\ IsNodePath(r)
    BY <1>2 DEF IsSearchPath
  <2> HIDE DEF q
  <2>4. IsOR(q)
    BY <2>3, KidOfAND
  <2>5. /\ PathRestriction(q, Ctx[y]) \in Assignments(Ctx[y])
        /\ \A S \in SUBSET Ctx[y] : PathRestriction(q, S) = PathRestriction(r, S)
    BY <2>3, <2>4, ContextOfOR
  <2> QED  BY <2>2, <2>5
<1>4. HeurOf(P, x, av) = Product(g)
  <2>1. \A y \in C : Bound(P, y, av) = P.bound[y][PathRestriction(r, Ctx[y])]
    BY <1>3 DEF Bound
  <2> QED  BY <2>1 DEF HeurOf
<1>5. \A y \in C : /\ P.bound[y][PathRestriction(r, Ctx[y])] \in Known
                   /\ ~Greater(P.opt[y][PathRestriction(r, Ctx[y])],
                               P.bound[y][PathRestriction(r, Ctx[y])])
  BY <1>2, <1>3, BoundAssumption
<1>6. f \in [C -> Cost] /\ g \in [C -> Known] /\ \A y \in C : ~Greater(f[y], g[h[y]])
  BY <1>2, <1>5, TimesLaws
<1>7. h \in [C -> C] /\ (\A y, z \in C : h[y] = h[z] => y = z) /\ \A y \in C : \E z \in C : h[z] = y
  OBVIOUS
<1>8. Exact(P, r) = Product(f)
  BY OptimumOfOR DEF Below
<1> HIDE DEF f, g, h, C
<1>9. Product(g) \in Known
  BY <1>2, <1>6, ProductKnown
<1>10. ~Greater(Product(f), Product(g))
  BY <1>2, <1>6, <1>7, ProductBelow
<1> QED  BY <1>4, <1>8, <1>9, <1>10

(* The bounds of a new OR node; a bound above zero needs a value that the  *)
(* functions allow.                                                        *)
LEMMA NewORBound ==
  ASSUME prob \in Problems, NEW q, IsSearchPath(q), IsOR(q),
         NEW x, x = Var(q),
         NEW asg \in [Vars -> Int], \A y \in Ctx[x] : asg[y] = PathValue(q, y)
  PROVE  /\ BoundOK(prob, q, NewOR(x, asg))
         /\ \A k : BoundOK(prob, q, [NewOR(x, asg) EXCEPT !.value = k])
         /\ NewOR(x, asg).heur # ELEM_ZERO =>
              \E v \in Values(x) : LabelOn(prob, Append(q, v)) # ELEM_ZERO
<1> DEFINE nd == NewOR(x, asg)
           hc == HeurCache(x, asg)
           f == [v \in Values(x) |-> hc[v].heur]
           e(v) == Times(Exact(prob, Append(q, v)), LabelOn(prob, Append(q, v)))
<1>1. x \in Vars
  BY NodeVariable DEF IsSearchPath
<1>2. nd.heur = Maximum(f) /\ nd.heurCache = hc /\ DOMAIN nd = OrFields
  BY DEF NewOR, OrFields
<1>3. ASSUME NEW v \in Values(x)
      PROVE  /\ hc[v].heur \in Known /\ e(v) \in Known /\ ~Greater(e(v), hc[v].heur)
             /\ hc[v].heur # ELEM_ZERO => LabelOn(prob, Append(q, v)) # ELEM_ZERO
  <2> DEFINE r == Append(q, v)
             av == [asg EXCEPT ![x] = v]
             l == LabelOn(prob, r)
             u == HeurOf(prob, x, av)
  <2>1. IsSearchPath(r) /\ IsAND(r) /\ Var(r) = x /\ Val(r) = v /\ Parent(r) = q
    BY ChildOfOR
  <2>2. /\ PathRestriction(r, Ctx[x] \cup {x}) = With(x, PathRestriction(q, Ctx[x]), v)
        /\ l \in Known
    BY <2>1, ContextOfAND
  <2>3. \A y \in Ctx[x] \cup {x} : av[y] = PathValue(r, y)
    <3> SUFFICES ASSUME NEW y \in Ctx[x] \cup {x} PROVE av[y] = PathValue(r, y)
      OBVIOUS
    <3>1. y \in Vars
      BY <1>1, ModelAssumption
    <3>2. PathRestriction(r, Ctx[x] \cup {x})[y] = PathValue(r, y)
      BY DEF PathRestriction
    <3>3. With(x, PathRestriction(q, Ctx[x]), v)[y] = av[y]
      BY <1>1, <3>1 DEF With, PathRestriction
    <3> QED  BY <2>2, <3>2, <3>3
  <2>4. Restriction(av, Ctx[x] \cup {x}) = PathRestriction(r, Ctx[x] \cup {x})
    BY <2>3 DEF Restriction, PathRestriction
  <2>5. hc[v].heur = Times(l, u)
    <3>1. Label(prob, x, av) = l
      BY <2>1, <2>4 DEF Label, LabelOn
    <3>2. hc[v].heur = Times(Label(prob, x, av), u)
      BY DEF HeurCache
    <3> QED  BY <3>1, <3>2
  <2> HIDE DEF r, av
  <2>6. u \in Known /\ ~Greater(Exact(prob, r), u)
    BY <2>1, <2>3, HeurAtAND
  <2>7. Exact(prob, r) \in Known
    BY <2>1, OptimumOfOR
  <2> HIDE DEF l, u, hc
  <2>8. /\ Times(l, u) \in Known /\ Times(Exact(prob, r), l) \in Known
        /\ Times(l, u) = Times(u, l)
    BY <2>2, <2>6, <2>7, TimesLaws
  <2>9. ~Greater(Times(Exact(prob, r), l), Times(u, l))
    <3>1. l \in Cost /\ Exact(prob, r) \in Cost /\ ~Greater(l, l)
      BY <2>2, <2>7, TimesLaws, NeverGreater
    <3> QED  BY <2>2, <2>6, <2>7, <3>1, TimesBelow
  <2>10. Times(l, u) # ELEM_ZERO => l # ELEM_ZERO
    BY <2>6, CostOrder
  <2> QED  BY <2>5, <2>8, <2>9, <2>10 DEF l, r
<1>4. f \in [Values(x) -> Known] /\ IsFiniteSet(Values(x)) /\ \A v \in Values(x) : f[v] = hc[v].heur
  <2>1. IsFiniteSet(Values(x))
    BY OptimumOfValues
  <2> HIDE DEF hc
  <2> QED  BY <1>3, <2>1
<1> HIDE DEF f, hc, nd
<1>5. /\ Maximum(f) \in Known /\ \A v \in Values(x) : ~Greater(f[v], Maximum(f))
      /\ Maximum(f) = ELEM_ZERO \/ \E v \in Values(x) : Maximum(f) = f[v]
  BY <1>4, MaximumOf
<1>6. ~Greater(Exact(prob, q), Maximum(f))
  <2>1. CASE Exact(prob, q) = ELEM_ZERO
    BY <1>5, <2>1, NeverGreater, TimesLaws
  <2>2. CASE Exact(prob, q) # ELEM_ZERO
    <3>1. PICK v \in Values(x) : e(v) = Exact(prob, q)
      BY <2>2, OptimumAttained
    <3>2. ~Greater(e(v), hc[v].heur) /\ ~Greater(hc[v].heur, Maximum(f))
      BY <1>3, <1>4, <1>5
    <3>3. e(v) \in Known /\ hc[v].heur \in Known
      BY <1>3
    <3> HIDE DEF e
    <3> QED  BY <1>5, <3>1, <3>2, <3>3, AtMostTransitive, TimesLaws
  <2> QED  BY <2>1, <2>2
<1>7. BoundOK(prob, q, nd)
  BY <1>2, <1>3, <1>5, <1>6 DEF BoundOK
<1>8. ASSUME NEW k PROVE BoundOK(prob, q, [nd EXCEPT !.value = k])
  <2>1. /\ [nd EXCEPT !.value = k].heur = nd.heur
        /\ [nd EXCEPT !.value = k].heurCache = nd.heurCache
    BY <1>2 DEF OrFields
  <2> QED  BY <1>7, <2>1 DEF BoundOK
<1>9. nd.heur # ELEM_ZERO => \E v \in Values(x) : LabelOn(prob, Append(q, v)) # ELEM_ZERO
  BY <1>2, <1>3, <1>4, <1>5
<1> QED  BY <1>7, <1>8, <1>9 DEF nd

-----------------------------------------------------------------------------
(* What only the creation of a node and the end of propagate write.        *)
Frozen(p, old, new) ==
  /\ new.heur = old.heur
  /\ IF IsOR(p) THEN new.heurCache = old.heurCache
     ELSE new.label = old.label /\ new.subSolved = old.subSolved /\ (new.notOpt => old.notOpt)

BoundsFit == \A p \in Live : BoundOK(prob, p, node[p])

(* Only OR nodes are marked as not solved optimally.                       *)
LEMMA MarkedAreOR ==
  ASSUME NEW n, IsNodePath(n), NEW q \in MarkedNotOpt(n)
  PROVE  IsOR(q) /\ ~IsAND(q)
<1>1. PICK l \in 1 .. OrLevel(n) : l % 2 = 1 /\ q = Prefix(n, l)
  BY DEF MarkedNotOpt
<1>2. n \in Path /\ Len(n) \in Nat /\ OrLevel(n) <= Len(n) /\ OrLevel(n) \in Int
  <2>1. n \in Path /\ Len(n) \in Nat
    BY NodeVariable
  <2> QED  BY <2>1 DEF OrLevel
<1>3. l \in 0 .. Len(n)
  BY <1>2
<1>4. Len(q) = l
  BY <1>1, <1>2, <1>3, PrefixPath
<1> QED  BY <1>1, <1>4 DEF IsOR, IsAND

(* What pruning n changes: the value of n, and marks on OR nodes above.     *)
LEMMA PruneEffect ==
  ASSUME NEW O, SearchInv(O), CostInv(O), phase = "next", NEW n \in O, ProcessPrune(n)
  PROVE  /\ n \in Live /\ Live' = Live
         /\ \A q \in Live : /\ Frozen(q, node[q], node'[q])
                            /\ node[q].notOpt => node'[q].notOpt
                            /\ q \in MarkedNotOpt(n) => node'[q].notOpt
                            /\ node'[q].notOpt => node[q].notOpt \/ q \in MarkedNotOpt(n)
                            /\ q # n => node'[q].value = node[q].value
         /\ node'[n].pruned = TRUE
         /\ node'[n].value = IF IsAND(n) \/ ISNAN(node[n].value) THEN ELEM_ZERO ELSE node[n].value
<1> DEFINE nd == AfterCaching(n)[n]
           v == IF IsAND(n) \/ ISNAN(nd.value) THEN ELEM_ZERO ELSE nd.value
           M == MarkedNotOpt(n)
<1>1. /\ n \in Live /\ IsNodePath(n) /\ \A q \in Live : IsNodePath(q) /\ NodeOK(prob, q, node[q])
  BY OpenNode DEF CostInv, NodesFit, IsSearchPath
<1>2. \A q \in Live : DOMAIN node[q] = IF IsOR(q) THEN OrFields ELSE AndFields
  BY <1>1 DEF NodeOK
<1>3. node' = [q \in Live |->
         IF q = n
         THEN [nd EXCEPT !.pruned = TRUE, !.notOpt = @ \/ n \in M, !.value = v]
         ELSE [node[q] EXCEPT !.notOpt = @ \/ q \in M]]
  BY DEF ProcessPrune
<1>4. \A q \in M : IsOR(q)
  BY <1>1, MarkedAreOR
<1>5. /\ DOMAIN nd = DOMAIN node[n] /\ nd.heur = node[n].heur /\ nd.notOpt = node[n].notOpt
      /\ nd.value = node[n].value
      /\ IF IsOR(n) THEN nd.heurCache = node[n].heurCache
         ELSE nd.label = node[n].label /\ nd.subSolved = node[n].subSolved
  <2>1. CASE LooksUp(n)
    <3>1. IsOR(n)
      BY <2>1 DEF LooksUp
    <3>2. nd = [node[n] EXCEPT !.context = CacheContext(n), !.cachable = TRUE]
      BY <1>1, <2>1 DEF AfterCaching, Live
    <3> HIDE DEF nd
    <3> QED  BY <1>1, <1>2, <3>1, <3>2 DEF OrFields
  <2>2. CASE ~LooksUp(n)
    BY <2>2 DEF AfterCaching
  <2> QED  BY <2>1, <2>2
<1>6. v = IF IsAND(n) \/ ISNAN(node[n].value) THEN ELEM_ZERO ELSE node[n].value
  BY <1>5
<1> HIDE DEF nd, v, M
<1>7. Live' = Live
  BY <1>3 DEF Live
<1>8. ASSUME NEW q \in Live
      PROVE  /\ Frozen(q, node[q], node'[q])
             /\ node[q].notOpt => node'[q].notOpt
             /\ q \in M => node'[q].notOpt
             /\ node'[q].notOpt => node[q].notOpt \/ q \in M
             /\ q # n => node'[q].value = node[q].value
             /\ q = n => node'[n].value = v /\ node'[n].pruned = TRUE
  <2>1. CASE q = n
    <3>1. node'[n] = [nd EXCEPT !.pruned = TRUE, !.notOpt = @ \/ n \in M, !.value = v]
      BY <1>1, <1>3
    <3>2. /\ node'[n].heur = nd.heur /\ (node'[n].notOpt <=> nd.notOpt \/ n \in M)
          /\ node'[n].value = v /\ node'[n].pruned = TRUE
          /\ IF IsOR(n) THEN node'[n].heurCache = nd.heurCache
             ELSE node'[n].label = nd.label /\ node'[n].subSolved = nd.subSolved
      BY <1>1, <1>2, <1>5, <3>1 DEF OrFields, AndFields
    <3> QED  BY <1>4, <1>5, <2>1, <3>2 DEF Frozen
  <2>2. CASE q # n
    <3>1. node'[q] = [node[q] EXCEPT !.notOpt = @ \/ q \in M]
      BY <1>3, <2>2
    <3>2. /\ node'[q].heur = node[q].heur /\ (node'[q].notOpt <=> node[q].notOpt \/ q \in M)
          /\ node'[q].value = node[q].value
          /\ IF IsOR(q) THEN node'[q].heurCache = node[q].heurCache
             ELSE node'[q].label = node[q].label /\ node'[q].subSolved = node[q].subSolved
      BY <1>2, <3>1 DEF OrFields, AndFields
    <3> QED  BY <1>4, <2>2, <3>2 DEF Frozen
  <2> QED  BY <2>1, <2>2
<1> QED  BY <1>1, <1>6, <1>7, <1>8 DEF M

(* What a leaf changes: its own value, and marks on the OR nodes above.    *)
LEMMA LeafEffect ==
  ASSUME NEW O, SearchInv(O), CostInv(O), phase = "next", NEW n \in O,
         ProcessCacheHit(n) \/ ProcessPrune(n) \/ ProcessLeafAND(n)
  PROVE  /\ n \in Live /\ Live' = Live /\ prob' = prob /\ curCost' = curCost
         /\ phase' = "climb" /\ reg'.leaf = n /\ reg'.prev = n /\ reg'.high = NULL
         /\ reg'.prop /\ reg'.del
         /\ \A q \in Live : /\ Frozen(q, node[q], node'[q])
                            /\ q # n => node'[q].value = node[q].value
                            /\ node[q].notOpt => node'[q].notOpt
                            /\ ProcessPrune(n) \/ (node'[q].notOpt => node[q].notOpt)
         /\ ProcessCacheHit(n) => IsOR(n) /\ node'[n].value = cache[Var(n)][CacheContext(n)]
         /\ ProcessLeafAND(n) =>
              IsAND(n) /\ node'[n].value = IF DeadChild(n) THEN ELEM_ZERO ELSE ELEM_ONE
<1>1. /\ n \in Live /\ IsNodePath(n) /\ \A q \in Live : IsNodePath(q) /\ NodeOK(prob, q, node[q])
  BY OpenNode DEF CostInv, NodesFit, IsSearchPath
<1>2. \A q \in Live : DOMAIN node[q] = IF IsOR(q) THEN OrFields ELSE AndFields
  BY <1>1 DEF NodeOK
<1>3. PropagateFrom(n) /\ prob' = prob /\ curCost' = curCost
  BY DEF ProcessCacheHit, ProcessPrune, ProcessLeafAND
<1>4. /\ phase' = "climb" /\ reg'.leaf = n /\ reg'.prev = n /\ reg'.high = NULL
      /\ reg'.prop /\ reg'.del
  BY <1>3 DEF PropagateFrom, Idle
<1>5. ProcessLeafAND(n) => IsAND(n) /\ ~IsOR(n) /\ ~CacheHit(n)
  BY <1>1, NodeVariable DEF ProcessLeafAND, CacheHit, LooksUp
<1>6. ProcessCacheHit(n) => IsOR(n) /\ CacheHit(n)
  BY DEF ProcessCacheHit, CacheHit, LooksUp
<1>7. ProcessPrune(n) => ~CacheHit(n) /\ ~ProcessLeafAND(n)
  BY DEF ProcessPrune, ProcessLeafAND, Expandable
<1>8. CASE ProcessCacheHit(n)
  <2> DEFINE v == cache[Var(n)][CacheContext(n)]
             c == CacheContext(n)
  <2>1. node' = [node EXCEPT ![n].context = c, ![n].value = v]
    BY <1>8 DEF ProcessCacheHit
  <2>2. v = cache[Var(n)][CacheContext(n)]
    OBVIOUS
  <2> HIDE DEF v, c
  <2>3. Live' = Live /\ \A q \in Live : q # n => node'[q] = node[q]
    BY <2>1 DEF Live
  <2>4. node'[n] = [node[n] EXCEPT !.context = c, !.value = v]
    BY <1>1, <2>1 DEF Live
  <2>5. /\ node'[n].heur = node[n].heur /\ node'[n].heurCache = node[n].heurCache
        /\ node'[n].notOpt = node[n].notOpt /\ node'[n].value = v
    BY <1>1, <1>2, <1>6, <1>8, <2>4 DEF OrFields
  <2>6. ~ProcessLeafAND(n) /\ IsOR(n)
    BY <1>5, <1>6, <1>8
  <2> QED  BY <1>1, <1>3, <1>4, <2>2, <2>3, <2>5, <2>6 DEF Frozen
<1>9. CASE ProcessPrune(n)
  <2>1. ~ProcessLeafAND(n) /\ ~ProcessCacheHit(n)
    BY <1>6, <1>7, <1>9
  <2>2. /\ Live' = Live
        /\ \A q \in Live : /\ Frozen(q, node[q], node'[q])
                           /\ q # n => node'[q].value = node[q].value
                           /\ node[q].notOpt => node'[q].notOpt
    <3>1. Live' = Live
      BY <1>9, PruneEffect
    <3>2. \A q \in Live :
                         /\ Frozen(q, node[q], node'[q])
                         /\ node[q].notOpt => node'[q].notOpt
                         /\ q \in MarkedNotOpt(n) => node'[q].notOpt
                         /\ node'[q].notOpt => node[q].notOpt \/ q \in MarkedNotOpt(n)
                         /\ q # n => node'[q].value = node[q].value
      BY <1>9, PruneEffect
    <3> QED  BY <3>1, <3>2
  <2> QED  BY <1>1, <1>3, <1>4, <1>9, <2>1, <2>2
<1>10. CASE ProcessLeafAND(n)
  <2> DEFINE v == IF DeadChild(n) THEN ELEM_ZERO ELSE ELEM_ONE
  <2>1. node' = [node EXCEPT ![n].value = v]
    BY <1>10 DEF ProcessLeafAND
  <2>2. v = IF DeadChild(n) THEN ELEM_ZERO ELSE ELEM_ONE
    OBVIOUS
  <2> HIDE DEF v
  <2>3. Live' = Live /\ \A q \in Live : q # n => node'[q] = node[q]
    BY <2>1 DEF Live
  <2>4. node'[n] = [node[n] EXCEPT !.value = v]
    BY <1>1, <2>1 DEF Live
  <2>5. IsAND(n) /\ ~IsOR(n) /\ ~ProcessCacheHit(n)
    BY <1>5, <1>6, <1>10
  <2>6. /\ node'[n].heur = node[n].heur /\ node'[n].label = node[n].label
        /\ node'[n].subSolved = node[n].subSolved /\ node'[n].notOpt = node[n].notOpt
        /\ node'[n].value = v
    BY <1>1, <1>2, <2>4, <2>5 DEF AndFields
  <2> QED  BY <1>1, <1>3, <1>4, <2>2, <2>3, <2>5, <2>6 DEF Frozen
<1> QED  BY <1>8, <1>9, <1>10

(* An OR node that can have a child. *)
Feasible(P, p) == \E v \in Values(Var(p)) : LabelOn(P, Append(p, v)) # ELEM_ZERO

(* A child of an AND node, and its context under the assignment that the   *)
(* node writes.                                                            *)
LEMMA ChildContext ==
  ASSUME prob \in Problems, NEW n, IsSearchPath(n), IsAND(n), Agrees(AssignmentAt(n), n),
         NEW y \in ChildSet(Var(n))
  PROVE  LET q == Append(n, y)
         IN  /\ IsSearchPath(q) /\ Len(q) = Len(n) + 1 /\ Parent(q) = n /\ Var(q) = y
             /\ IsOR(q) /\ ~IsAND(q)
             /\ \A z \in Ctx[y] : AssignmentAt(n)[z] = PathValue(q, z)
<1> DEFINE q == Append(n, y)
           a == AssignmentAt(n)
<1>1. IsSearchPath(q) /\ Len(q) = Len(n) + 1 /\ Parent(q) = n /\ Var(q) = y
  BY ContextsOfKids
<1> HIDE DEF q, a
<1>2. IsOR(q) /\ ~IsAND(q)
  BY <1>1, KidOfAND, NodeVariable DEF IsSearchPath
<1>3. ASSUME NEW z \in Ctx[y] PROVE a[z] = PathValue(q, z)
  <2>1. PICK j \in 1 .. Len(q) - 2 : j % 2 = 1 /\ q[j] = z /\ PathValue(q, z) = q[j + 1]
    BY <1>1, <1>2, ContextPlaces DEF IsSearchPath
  <2>2. q \in Path /\ Len(q) \in Nat /\ Len(q) >= 1 /\ \A i \in 1 .. Len(q) - 1 : n[i] = q[i]
    BY <1>1, ParentPath, ParentElements DEF IsSearchPath, IsNodePath
  <2>3. Len(n) = Len(q) - 1
    BY <1>1, <2>2, NodeVariable DEF IsSearchPath
  <2>4. j \in 1 .. Len(n) - 1 /\ j \in 1 .. Len(q) - 1 /\ j + 1 \in 1 .. Len(q) - 1
    BY <2>1, <2>2, <2>3
  <2>5. a[n[j]] = n[j + 1]
    BY <2>1, <2>4 DEF Agrees, a
  <2> QED  BY <2>1, <2>2, <2>4, <2>5
<1> QED  BY <1>1, <1>2, <1>3 DEF q, a

(* The new children of an AND node: their bounds and labels are computed   *)
(* from the assignment of its path.                                        *)
LEMMA ExpandANDEffect ==
  ASSUME NEW O, SearchInv(O), CostInv(O), phase = "next", NEW n \in O,
         Agrees(assignment, Parent(n)),
         NEW s \in Seqs!SetToSeqs(OrChildren(n)), ProcessExpandAND(n, s)
  PROVE  LET K == Elements(s)
         IN  /\ n \in Live /\ IsAND(n) /\ Live' = Live \cup K /\ K \cap Live = {} /\ K # {}
             /\ prob' = prob /\ curCost' = curCost /\ phase' = Deliver
             /\ \A q \in Live : node'[q] = node[q]
             /\ \A q \in K : /\ IsSearchPath(q) /\ Len(q) = Len(n) + 1 /\ Parent(q) = n
                             /\ IsOR(q) /\ node'[q].value = ELEM_NAN /\ ~node'[q].notOpt
                             /\ BoundOK(prob, q, node'[q]) /\ Feasible(prob, q)
             /\ KidVars(K) = ChildSet(Var(n))
<1> DEFINE K == OrChildren(n)
           a == AssignmentAt(n)
<1>1. /\ n \in Live /\ IsNodePath(n) /\ IsSearchPath(n) /\ IsAND(n) /\ prob \in Problems
      /\ n \in Path /\ assignment \in [Vars -> Int]
  BY OpenNode DEF CostInv, NodesFit, ProcessExpandAND, SearchInv, SearchTypeOK
<1>2. /\ Agrees(a, n) /\ a \in [Vars -> Int]
  BY <1>1, AgreesNow, AssignmentAndCache DEF SearchInv
<1>3. /\ \A y \in ChildSet(Var(n)) : /\ IsSearchPath(Append(n, y))
                                     /\ Len(Append(n, y)) = Len(n) + 1
                                     /\ Parent(Append(n, y)) = n
                                     /\ Var(Append(n, y)) = y
  BY <1>1, ContextsOfKids
<1>4. Elements(s) = K /\ K \cap Live = {} /\ K # {}
  <2>1. Var(n) \in Vars /\ IsFiniteSet(K)
    BY <1>1, NodeVariable, FiniteOrChildren
  <2>2. K \subseteq Path
    BY <1>3 DEF OrChildren, IsSearchPath, IsNodePath
  <2>3. Elements(s) = K
    BY <2>1, <2>2, ChildOrder
  <2> QED  BY <2>3, ExpandKeeps DEF ProcessExpandAND
<1>5. /\ node' = Added(K, [q \in K |-> NewOR(Var(q), a)]) /\ ~DeadChild(n)
      /\ prob' = prob /\ curCost' = curCost /\ phase' = Deliver
  BY DEF ProcessExpandAND
<1>6. /\ Live' = Live \cup K
      /\ \A q \in K : node'[q] = NewOR(Var(q), a)
      /\ \A q \in Live : node'[q] = node[q]
  <2> HIDE DEF K, a
  <2> QED  BY <1>4, <1>5 DEF Added, Live
<1>7. ASSUME NEW q \in K
      PROVE  /\ IsSearchPath(q) /\ Len(q) = Len(n) + 1 /\ Parent(q) = n
             /\ IsOR(q) /\ Var(q) \in ChildSet(Var(n))
             /\ node'[q].value = ELEM_NAN /\ ~node'[q].notOpt
             /\ BoundOK(prob, q, node'[q]) /\ Feasible(prob, q)
  <2>1. PICK y \in ChildSet(Var(n)) : q = Append(n, y)
    BY DEF OrChildren
  <2>2. IsSearchPath(q) /\ Len(q) = Len(n) + 1 /\ Parent(q) = n /\ Var(q) = y
    BY <1>3, <2>1
  <2>3. IsOR(q)
    BY <1>1, <1>2, <2>1, ChildContext
  <2>4. \A z \in Ctx[Var(q)] : a[z] = PathValue(q, z)
    BY <1>1, <1>2, <2>1, <2>2, ChildContext
  <2> DEFINE nd == NewOR(Var(q), a)
  <2>5. node'[q] = nd /\ nd.value = ELEM_NAN /\ nd.notOpt = FALSE
    BY <1>6 DEF NewOR
  <2>6. nd.heur # ELEM_ZERO
    BY <1>5, <2>2 DEF DeadChild
  <2> HIDE DEF nd, K, a
  <2>7. /\ BoundOK(prob, q, nd)
        /\ nd.heur # ELEM_ZERO => \E v \in Values(Var(q)) : LabelOn(prob, Append(q, v)) # ELEM_ZERO
    BY <1>1, <1>2, <2>2, <2>3, <2>4, NewORBound DEF nd
  <2> QED  BY <2>2, <2>3, <2>5, <2>6, <2>7 DEF Feasible
<1>8. KidVars(K) = ChildSet(Var(n))
  <2>1. \A y \in ChildSet(Var(n)) : Append(n, y) \in K /\ Var(Append(n, y)) = y
    BY <1>3 DEF OrChildren
  <2> QED  BY <1>7, <2>1 DEF KidVars
<1> HIDE DEF K
<1> QED  BY <1>1, <1>4, <1>5, <1>6, <1>7, <1>8

(* The new children of an OR node: one for every value that its functions  *)
(* allow, with the label and the bound computed when it was made.          *)
LEMMA ExpandOREffect ==
  ASSUME NEW O, SearchInv(O), CostInv(O), phase = "next", NEW n \in O,
         NEW s \in Seqs!SetToSeqs(AndChildren(n)), ProcessExpandOR(n, s)
  PROVE  LET K == Elements(s)
         IN  /\ n \in Live /\ IsOR(n) /\ Live' = Live \cup K /\ K \cap Live = {} /\ K # {}
             /\ prob' = prob /\ curCost' = curCost /\ phase' = Deliver
             /\ \A q \in Live : q # n => node'[q] = node[q]
             /\ node'[n].heur = node[n].heur /\ node'[n].heurCache = node[n].heurCache
             /\ node'[n].value = node[n].value /\ node'[n].notOpt = node[n].notOpt
             /\ \A q \in K : /\ IsSearchPath(q) /\ Len(q) = Len(n) + 1 /\ Parent(q) = n
                             /\ IsAND(q) /\ node'[q].value = ELEM_NAN /\ ~node'[q].notOpt
                             /\ node'[q].subSolved = ELEM_ONE
                             /\ node'[q].label = LabelOn(prob, q) /\ LabelOn(prob, q) # ELEM_ZERO
                             /\ BoundsFit => BoundOK(prob, q, node'[q])
             /\ \A v \in Values(Var(n)) :
                  LabelOn(prob, Append(n, v)) # ELEM_ZERO => Append(n, v) \in K
<1> DEFINE K == Elements(s)
           new == [q \in K |-> NewAND(node[n].heurCache[Val(q)])]
           nd == AfterCaching(n)[n]
<1>1. /\ n \in Live /\ IsNodePath(n) /\ IsSearchPath(n) /\ IsOR(n) /\ ~IsAND(n)
      /\ prob \in Problems /\ NodeOK(prob, n, node[n])
  BY OpenNode, NodeVariable DEF CostInv, NodesFit, ProcessExpandOR
<1>2. /\ prob' = prob /\ curCost' = curCost /\ phase' = Deliver
      /\ node' = [Added(K, new) EXCEPT ![n] = nd]
  BY DEF ProcessExpandOR, Elements
<1>3. K = AndChildren(n) /\ K \cap Live = {} /\ K # {}
  <2>1. Var(n) \in Vars /\ IsFiniteSet(AndChildren(n))
    BY <1>1, NodeVariable, FiniteAndChildren
  <2>2. AndChildren(n) \in SUBSET Path
    <3>1. ASSUME NEW v \in Values(Var(n)) PROVE Append(n, v) \in Path
      BY <1>1, ChildOfOR DEF IsSearchPath, IsNodePath
    <3> QED  BY <3>1 DEF AndChildren
  <2>3. Elements(s) = AndChildren(n)
    BY <2>1, <2>2, ChildOrder
  <2> QED  BY <2>3, ExpandKeeps DEF ProcessExpandOR
<1>4. /\ Live' = Live \cup K
      /\ \A q \in K : node'[q] = new[q]
      /\ node'[n] = nd
      /\ \A q \in Live : q # n => node'[q] = node[q]
  <2> HIDE DEF K, new, nd
  <2> QED  BY <1>1, <1>2, <1>3 DEF Added, Live
<1>5. \A v \in Values(Var(n)) : node[n].heurCache[v].label = LabelOn(prob, Append(n, v))
  BY <1>1 DEF NodeOK
<1>6. ASSUME NEW q \in K
      PROVE  /\ IsSearchPath(q) /\ Len(q) = Len(n) + 1 /\ Parent(q) = n
             /\ IsAND(q) /\ node'[q].value = ELEM_NAN /\ ~node'[q].notOpt
             /\ node'[q].subSolved = ELEM_ONE
             /\ node'[q].label = LabelOn(prob, q) /\ LabelOn(prob, q) # ELEM_ZERO
             /\ BoundsFit => BoundOK(prob, q, node'[q])
  <2>1. PICK v \in Values(Var(n)) : q = Append(n, v) /\ node[n].heurCache[v].label # ELEM_ZERO
    BY <1>3 DEF AndChildren
  <2>2. IsSearchPath(q) /\ IsAND(q) /\ Len(q) = Len(n) + 1 /\ Parent(q) = n /\ Val(q) = v
    BY <1>1, <2>1, ChildOfOR
  <2> DEFINE nw == NewAND(node[n].heurCache[v])
  <2>3. node'[q] = nw
    <3>1. new[q] = NewAND(node[n].heurCache[v])
      BY <1>6, <2>2
    <3> QED  BY <1>4, <3>1
  <2>4. /\ nw.value = ELEM_NAN /\ nw.notOpt = FALSE /\ nw.subSolved = ELEM_ONE
        /\ nw.label = node[n].heurCache[v].label /\ nw.heur = node[n].heurCache[v].heur
    BY DEF NewAND
  <2> HIDE DEF nw
  <2>5. ~IsOR(q)
    BY <2>2, NodeVariable DEF IsSearchPath
  <2>6. nw.label = LabelOn(prob, q)
    BY <1>5, <2>1, <2>4
  <2>7. BoundsFit => BoundOK(prob, q, nw)
    BY <1>1, <2>1, <2>4, <2>5, <2>6 DEF BoundsFit, BoundOK
  <2> QED  BY <2>1, <2>2, <2>3, <2>4, <2>6, <2>7
<1>7. ASSUME NEW v \in Values(Var(n)), LabelOn(prob, Append(n, v)) # ELEM_ZERO
      PROVE  Append(n, v) \in K
  BY <1>3, <1>5, <1>7 DEF AndChildren
<1>8. /\ nd.heur = node[n].heur /\ nd.heurCache = node[n].heurCache
      /\ nd.value = node[n].value /\ nd.notOpt = node[n].notOpt
  <2>1. CASE LooksUp(n)
    <3>1. nd = [node[n] EXCEPT !.context = CacheContext(n), !.cachable = TRUE]
      BY <1>1, <2>1 DEF AfterCaching, Live
    <3>2. DOMAIN node[n] = OrFields
      BY <1>1 DEF NodeOK
    <3> HIDE DEF nd
    <3> QED  BY <3>1, <3>2 DEF OrFields
  <2>2. CASE ~LooksUp(n)
    BY <2>2 DEF AfterCaching
  <2> QED  BY <2>1, <2>2
<1> HIDE DEF K, new, nd
<1>9. /\ node'[n].heur = node[n].heur /\ node'[n].heurCache = node[n].heurCache
      /\ node'[n].value = node[n].value /\ node'[n].notOpt = node[n].notOpt
  BY <1>4, <1>8
<1> QED  BY <1>1, <1>2, <1>3, <1>4, <1>6, <1>7, <1>9 DEF K

-----------------------------------------------------------------------------
(* Every OR node can have a child. *)
AllFeasible == \A p \in Live : IsOR(p) => Feasible(prob, p)

(* The path of the root. *)
LEMMA RootPath ==
  /\ RootNode \in Path /\ Len(RootNode) = 1
  /\ IsSearchPath(RootNode) /\ IsOR(RootNode) /\ ~IsAND(RootNode) /\ Var(RootNode) = Root
<1>1. RootNode \in Path /\ Len(RootNode) = 1 /\ RootNode[1] = Root /\ Root \in Vars
  BY ModelAssumption DEF RootNode, Path
<1>2. IsNodePath(RootNode)
  BY <1>1 DEF IsNodePath
<1>3. InDomain(RootNode)
  BY <1>1 DEF InDomain
<1>4. IsOR(RootNode) /\ Var(RootNode) = Root
  BY <1>1 DEF IsOR, Var
<1>5. ~IsAND(RootNode)
  BY <1>2, <1>4, NodeVariable
<1> QED  BY <1>1, <1>2, <1>3, <1>4, <1>5 DEF IsSearchPath

(* The label of the root is feasible.                                      *)
LEMMA RootFeasible == ASSUME prob \in Problems PROVE Feasible(prob, RootNode)
<1>1. IsSearchPath(RootNode) /\ IsOR(RootNode) /\ Var(RootNode) = Root
  BY RootPath
<1>2. Root \in Vars /\ 0 \in Values(Root)
  BY ModelAssumption DEF Values
<1> DEFINE q == Append(RootNode, 0)
<1>3. IsSearchPath(q) /\ IsAND(q) /\ Var(q) = Root
  BY <1>1, <1>2, ChildOfOR
<1> HIDE DEF q
<1>4. PathRestriction(q, Ctx[Root] \cup {Root}) \in Assignments(Ctx[Root] \cup {Root})
  BY <1>3, ContextOfAND
<1>5. LabelOn(prob, q) # ELEM_ZERO
  BY <1>3, <1>4, ConstantAssumption DEF LabelOn
<1> QED  BY <1>1, <1>2, <1>5 DEF Feasible, q

(* An OR node is only made with a bound above zero, so with a value that   *)
(* its functions allow.                                                    *)
LEMMA FeasibleStep ==
  ASSUME NEW O, SearchInv(O), CostInv(O), AllFeasible,
         \/ /\ phase = "next"
            /\ \E n \in O :
                 \/ ProcessCacheHit(n) \/ ProcessPrune(n) \/ ProcessLeafAND(n)
                 \/ /\ Agrees(assignment, Parent(n))
                    /\ \E s \in Seqs!SetToSeqs(OrChildren(n)) : ProcessExpandAND(n, s)
                 \/ \E s \in Seqs!SetToSeqs(AndChildren(n)) : ProcessExpandOR(n, s)
         \/ Climb
  PROVE  AllFeasible'
<1>1. CASE Climb
  <2>1. prob' = prob
    BY <1>1 DEF Climb, PropHeurAND, PropHeurOR, PropHeurEnd, HeurUp,
                PropagateAND, PropagateOR, PropagateFinish
  <2>2. Live' \subseteq Live
    BY <1>1 DEF Climb, PropHeurAND, PropHeurOR, PropHeurEnd, HeurUp, Live,
                PropagateAND, PropagateOR, PropagateFinish, Erased
  <2> QED  BY <2>1, <2>2 DEF AllFeasible
<1>2. CASE phase = "next" /\ ~Climb
  <2>1. PICK n \in O :
          \/ ProcessCacheHit(n) \/ ProcessPrune(n) \/ ProcessLeafAND(n)
          \/ /\ Agrees(assignment, Parent(n))
             /\ \E s \in Seqs!SetToSeqs(OrChildren(n)) : ProcessExpandAND(n, s)
          \/ \E s \in Seqs!SetToSeqs(AndChildren(n)) : ProcessExpandOR(n, s)
    BY <1>2
  <2>2. CASE ProcessCacheHit(n) \/ ProcessPrune(n) \/ ProcessLeafAND(n)
    <3>1. Live' = Live /\ prob' = prob
      BY <1>2, <2>2, LeafEffect
    <3> QED  BY <3>1 DEF AllFeasible
  <2>3. CASE /\ Agrees(assignment, Parent(n))
             /\ \E s \in Seqs!SetToSeqs(OrChildren(n)) : ProcessExpandAND(n, s)
    <3>1. PICK s \in Seqs!SetToSeqs(OrChildren(n)) : ProcessExpandAND(n, s)
      BY <2>3
    <3>2. /\ Live' = Live \cup Elements(s) /\ prob' = prob
          /\ \A q \in Elements(s) : Feasible(prob, q)
      BY <1>2, <2>3, <3>1, ExpandANDEffect
    <3> QED  BY <3>2 DEF AllFeasible
  <2>4. CASE \E s \in Seqs!SetToSeqs(AndChildren(n)) : ProcessExpandOR(n, s)
    <3>1. PICK s \in Seqs!SetToSeqs(AndChildren(n)) : ProcessExpandOR(n, s)
      BY <2>4
    <3>2. /\ Live' = Live \cup Elements(s) /\ prob' = prob
          /\ \A q \in Elements(s) : IsSearchPath(q) /\ IsAND(q)
      BY <1>2, <3>1, ExpandOREffect
    <3>3. \A q \in Elements(s) : ~IsOR(q)
      BY <3>2, NodeVariable DEF IsSearchPath
    <3> QED  BY <3>2, <3>3 DEF AllFeasible
  <2> QED  BY <2>1, <2>2, <2>3, <2>4
<1> QED  BY <1>1, <1>2

(* So every OR node has a child to be made.                                *)
LEMMA FeasibleHasChild ==
  ASSUME NEW O, CostInv(O), AllFeasible, NEW n \in Live, IsOR(n)
  PROVE  AndChildren(n) # {}
<1>1. PICK v \in Values(Var(n)) : LabelOn(prob, Append(n, v)) # ELEM_ZERO
  BY DEF AllFeasible, Feasible
<1>2. node[n].heurCache[v].label = LabelOn(prob, Append(n, v))
  BY DEF CostInv, NodesFit, NodeOK
<1> QED  BY <1>1, <1>2 DEF AndChildren

-----------------------------------------------------------------------------
(* The node whose value the next iteration of propagate computes. *)
Waiting(p) == phase = "climb" /\ reg.prop /\ p = cur

(* The value of an AND node is that of its children, solved and not. *)
SyncAND ==
  \A p \in Live : IsAND(p) /\ KidsIn(Live, p) # {} /\ ~Waiting(p) =>
    node[p].value = Times(node[p].subSolved, Product([q \in KidsIn(Live, p) |-> node[q].value]))

(* The value of an OR node is at least what each known child gives it. *)
SyncOR ==
  \A p \in Live : IsOR(p) => \A k \in KidsIn(Live, p) :
    node[k].value # ELEM_NAN /\ ~(Waiting(p) /\ k = reg.prev) =>
      /\ node[p].value # ELEM_NAN
      /\ ~Greater(Times(node[k].value, node[k].label), node[p].value)

AndNodes(O) ==
  \A p \in Live : IsAND(p) => /\ node[p].subSolved \in Known /\ ~node[p].notOpt
                              /\ node[p].label # ELEM_ZERO
                              /\ p \in O => node[p].value = ELEM_NAN

(* A node that is closed, or is being closed, has a value. *)
Settled(O) ==
  /\ \A p \in Live \ O : KidsIn(Live, p) = {} => node[p].value # ELEM_NAN
  /\ Climbing /\ reg.high # NULL => node[reg.high].value # ELEM_NAN
  /\ phase = "climb" /\ reg.prop => node[reg.prev].value # ELEM_NAN
  /\ phase = "climb" /\ reg.high # NULL => Len(reg.prev) < Len(reg.high)

RootKept == RootNode \in Live /\ ~node[RootNode].notOpt

(* Without propHeuristic, the bounds do not change. *)
InSync(O) ==
  /\ BoundsFit /\ SyncAND /\ SyncOR /\ AndNodes(O) /\ Settled(O) /\ RootKept
  /\ phase \notin {"heur", "heurEnd"}

(* The nodes' own parts of InSync under a step that changes neither the    *)
(* tree nor what Frozen keeps.                                             *)
LEMMA FrozenSync ==
  ASSUME NEW O, NEW B \in SUBSET O, NodesFit, BoundsFit, AndNodes(O), RootKept,
         Live' = Live, prob' = prob,
         \A q \in Live : Frozen(q, node[q], node'[q]),
         \A q \in Live : q \in B => node'[q].value = node[q].value,
         node'[RootNode].notOpt => node[RootNode].notOpt
  PROVE  BoundsFit' /\ AndNodes(B)' /\ RootKept'
<1>1. \A q \in Live : IsAND(q) <=> ~IsOR(q)
  BY NodeVariable DEF NodesFit, IsSearchPath
<1>2. BoundsFit'
  <2>1. ASSUME NEW q \in Live PROVE BoundOK(prob, q, node'[q])
    <3>1. BoundOK(prob, q, node[q]) /\ Frozen(q, node[q], node'[q])
      BY DEF BoundsFit
    <3> QED  BY <3>1 DEF BoundOK, Frozen
  <2> QED  BY <2>1 DEF BoundsFit
<1>3. AndNodes(B)'
  <2> SUFFICES ASSUME NEW q \in Live, IsAND(q)
               PROVE  /\ node'[q].subSolved \in Known /\ ~node'[q].notOpt
                      /\ node'[q].label # ELEM_ZERO
                      /\ q \in B => node'[q].value = ELEM_NAN
    BY DEF AndNodes
  <2>1. Frozen(q, node[q], node'[q]) /\ ~IsOR(q)
    BY <1>1
  <2>2. /\ node[q].subSolved \in Known /\ ~node[q].notOpt /\ node[q].label # ELEM_ZERO
        /\ q \in O => node[q].value = ELEM_NAN
    BY DEF AndNodes
  <2> QED  BY <2>1, <2>2 DEF Frozen
<1> QED  BY <1>2, <1>3 DEF RootKept

(* The children of p keep their values, and so does their product. *)
LEMMA SameProduct ==
  ASSUME NEW K, \A q \in K : node'[q].value = node[q].value
  PROVE  Product([q \in K |-> node'[q].value]) = Product([q \in K |-> node[q].value])
<1>1. [q \in K |-> node'[q].value] = [q \in K |-> node[q].value]
  OBVIOUS
<1> QED  BY <1>1

(* The root is never pruned nor looked up. *)
LEMMA RootExpanded ==
  ASSUME NEW n, n = RootNode, ProcessCacheHit(n) \/ ProcessPrune(n) \/ ProcessLeafAND(n)
  PROVE  FALSE
<1>1. Depth[Var(n)] = -1 /\ ~IsAND(n)
  <2>1. Root \in Vars
    BY ModelAssumption
  <2>2. Depth[Root] = -1
    BY <2>1, DepthDefined
  <2> QED  BY <2>2, RootPath
<1>2. ~CanBePruned(n) /\ ~CacheHit(n)
  BY <1>1 DEF CanBePruned, CacheHit, LooksUp, HasCacheTable
<1> QED  BY <1>1, <1>2 DEF ProcessCacheHit, ProcessPrune, ProcessLeafAND

(* ... nor marked as not solved optimally.                                 *)
LEMMA RootUnmarked ==
  ASSUME NEW n, IsNodePath(n), ProcessPrune(n)
  PROVE  RootNode \notin MarkedNotOpt(n)
<1> SUFFICES ASSUME RootNode \in MarkedNotOpt(n) PROVE FALSE
  OBVIOUS
<1>1. node[n].heur # ELEM_ZERO
  BY DEF MarkedNotOpt
<1>2. PICK l \in 1 .. OrLevel(n) : RootNode = Prefix(n, l) /\ \A k \in PrunePoints(n) : l > k
  BY <1>1 DEF MarkedNotOpt
<1>3. PICK k \in PrunePoints(n) : TRUE
  BY <1>1 DEF ProcessPrune, CanBePruned
<1>4. n \in Path /\ Len(n) \in Nat
  BY NodeVariable
<1>5. l \in 0 .. Len(n) /\ k \in 1 .. OrLevel(n)
  BY <1>4 DEF OrLevel, PrunePoints
<1>6. Len(RootNode) = l
  BY <1>2, <1>4, <1>5, PrefixPath
<1> QED  BY <1>2, <1>3, <1>4, <1>5, <1>6 DEF RootNode, OrLevel

(* The children of an OR node are AND nodes, and those of an AND node OR.  *)
LEMMA KidOfOR ==
  ASSUME NodesFit, NEW p \in Live, NEW k \in KidsIn(Live, p)
  PROVE  /\ k \in Live /\ k # p /\ Len(k) = Len(p) + 1 /\ Parent(k) = p
         /\ IsOR(p) => IsAND(k) /\ ~IsOR(k)
         /\ IsAND(p) => IsOR(k) /\ ~IsAND(k)
<1>1. /\ k \in Live /\ Len(k) = Len(p) + 1 /\ Parent(k) = p
      /\ IsNodePath(k) /\ IsNodePath(p)
  BY DEF KidsIn, NodesFit, IsSearchPath
<1>2. Len(p) \in Nat /\ (IsAND(p) <=> ~IsOR(p)) /\ (IsAND(k) <=> ~IsOR(k))
  BY <1>1, NodeVariable
<1>3. IsOR(k) <=> ~IsOR(p)
  BY <1>1, <1>2 DEF IsOR
<1> QED  BY <1>1, <1>2, <1>3

(* A leaf that has a value: propagate is about to take it to its parent.   *)
LEMMA LeafSync ==
  ASSUME NEW O, SearchInv(O), CostInv(O), InSync(O), phase = "next", NEW n \in O,
         ProcessCacheHit(n) \/ ProcessPrune(n) \/ ProcessLeafAND(n),
         node'[n].value # ELEM_NAN
  PROVE  InSync(O \ {n})'
<1>1. /\ n \in Live /\ Live' = Live /\ prob' = prob
      /\ phase' = "climb" /\ reg'.leaf = n /\ reg'.prev = n /\ reg'.high = NULL
      /\ \A q \in Live : Frozen(q, node[q], node'[q])
      /\ \A q \in Live : q # n => node'[q].value = node[q].value
  BY LeafEffect
<1>2. NodesFit /\ BoundsFit /\ AndNodes(O) /\ RootKept /\ SyncAND /\ SyncOR /\ Settled(O)
  BY DEF CostInv, InSync
<1>3. \A p \in Live : ~Waiting(p)
  BY DEF Waiting
<1>4. \A p : Waiting(p)' <=> p = Parent(n)
  BY <1>1, LeafEffect DEF cur, Waiting
<1>5. KidsIn(Live, n) = {} /\ n # RootNode
  BY OpenNode, RootExpanded DEF Frontier
<1>6. \A p \in Live : \A q \in KidsIn(Live, p) : q \in Live /\ (q = n => p = Parent(n))
  BY DEF KidsIn
<1>7. node'[RootNode].notOpt => node[RootNode].notOpt
  <2>1. CASE ProcessPrune(n)
    <3>1. RootNode \in Live /\ (node'[RootNode].notOpt => node[RootNode].notOpt \/ RootNode \in MarkedNotOpt(n))
      BY <1>2, <2>1, PruneEffect DEF RootKept
    <3>2. RootNode \notin MarkedNotOpt(n)
      BY <2>1, OpenNode, RootUnmarked
    <3> QED  BY <3>1, <3>2
  <2>2. CASE ~ProcessPrune(n)
    BY <1>2, <2>2, LeafEffect DEF RootKept
  <2> QED  BY <2>1, <2>2
<1>8. BoundsFit' /\ AndNodes(O \ {n})' /\ RootKept'
  <2>1. \A q \in Live : q \in O \ {n} => node'[q].value = node[q].value
    BY <1>1
  <2> DEFINE B == O \ {n}
  <2>2. B \in SUBSET O /\ \A q \in Live : q \in B => node'[q].value = node[q].value
    BY <2>1
  <2> HIDE DEF B
  <2>3. BoundsFit' /\ AndNodes(B)' /\ RootKept'
    BY <1>1, <1>2, <1>7, <2>2, FrozenSync
  <2> QED  BY <2>3 DEF AndNodes, B
<1>9. SyncAND'
  <2> SUFFICES ASSUME NEW p \in Live, IsAND(p), KidsIn(Live, p) # {}, ~Waiting(p)'
               PROVE  node'[p].value = Times(node'[p].subSolved,
                                             Product([q \in KidsIn(Live, p) |-> node'[q].value]))
    BY <1>1 DEF SyncAND
  <2>1. p # n /\ p # Parent(n) /\ ~IsOR(p)
    BY <1>2, <1>4, <1>5, NodeVariable DEF NodesFit, IsSearchPath
  <2>2. \A q \in KidsIn(Live, p) : node'[q].value = node[q].value
    BY <1>1, <1>6, <2>1
  <2>3. node'[p].value = node[p].value /\ node'[p].subSolved = node[p].subSolved
    BY <1>1, <2>1 DEF Frozen
  <2>4. node[p].value = Times(node[p].subSolved, Product([q \in KidsIn(Live, p) |-> node[q].value]))
    BY <1>2, <1>3 DEF SyncAND
  <2> QED  BY <2>2, <2>3, <2>4, SameProduct
<1>10. SyncOR'
  <2> SUFFICES ASSUME NEW p \in Live, IsOR(p), NEW k \in KidsIn(Live, p),
                      node'[k].value # ELEM_NAN, ~(p = Parent(n) /\ k = n)
               PROVE  /\ node'[p].value # ELEM_NAN
                      /\ ~Greater(Times(node'[k].value, node'[k].label), node'[p].value)
    BY <1>1, <1>4 DEF SyncOR
  <2>1. k \in Live /\ k # n /\ p # n /\ IsAND(k) /\ ~IsOR(k)
    BY <1>5, <1>6, KidOfOR DEF CostInv
  <2>2. /\ node'[k].value = node[k].value /\ node'[p].value = node[p].value
        /\ node'[k].label = node[k].label
    BY <1>1, <2>1 DEF Frozen
  <2> QED  BY <1>2, <1>3, <2>2 DEF SyncOR
<1>11. Settled(O \ {n})'
  BY <1>1, <1>2 DEF Settled
<1> QED  BY <1>1, <1>8, <1>9, <1>10, <1>11 DEF InSync

(* A node gets children: none of them has a value yet.                     *)
LEMMA GrowSync ==
  ASSUME NEW O, SearchInv(O), CostInv(O), InSync(O), phase = "next", NEW n \in O,
         NEW K, K \cap Live = {}, K # {}, IsFiniteSet(K), Live' = Live \cup K,
         prob' = prob, phase' = "next",
         \A q \in Live : /\ Frozen(q, node[q], node'[q])
                         /\ node'[q].value = node[q].value
                         /\ node'[q].notOpt => node[q].notOpt,
         \A q \in K : /\ IsSearchPath(q) /\ Len(q) = Len(n) + 1 /\ Parent(q) = n
                      /\ node'[q].value = ELEM_NAN /\ ~node'[q].notOpt
                      /\ BoundOK(prob, q, node'[q])
                      /\ IsAND(q) => node'[q].subSolved = ELEM_ONE /\ node'[q].label # ELEM_ZERO
  PROVE  InSync((O \ {n}) \cup K)'
<1> DEFINE B == (O \ {n}) \cup K
<1>1. /\ NodesFit /\ BoundsFit /\ AndNodes(O) /\ RootKept /\ SyncAND /\ SyncOR /\ Settled(O)
      /\ n \in Live /\ Tree(Live) /\ KidsIn(Live, n) = {}
      /\ \A p \in Live : IsSearchPath(p)
  BY OpenNode DEF CostInv, InSync, Frontier, SearchInv, NodesFit
<1>2. /\ KidsIn(Live', n) = K
      /\ \A p \in Live : p # n => KidsIn(Live', p) = KidsIn(Live, p)
      /\ \A p \in K : KidsIn(Live', p) = {}
  <2>1. \A p \in K : p \notin Live /\ p # n /\ KidsIn(Live, p) = {}
    BY <1>1, NoKidsYet DEF IsSearchPath
  <2> QED  BY <1>1, <2>1 DEF KidsIn
<1>3. \A p : ~Waiting(p) /\ ~Waiting(p)'
  BY DEF Waiting
<1>4. BoundsFit'
  <2>1. ASSUME NEW q \in Live PROVE BoundOK(prob, q, node'[q])
    <3>1. BoundOK(prob, q, node[q]) /\ Frozen(q, node[q], node'[q])
      BY <1>1 DEF BoundsFit
    <3> QED  BY <3>1 DEF BoundOK, Frozen
  <2> QED  BY <2>1 DEF BoundsFit
<1>5. AndNodes(B)'
  <2> SUFFICES ASSUME NEW q \in Live', IsAND(q)
               PROVE  /\ node'[q].subSolved \in Known /\ ~node'[q].notOpt
                      /\ node'[q].label # ELEM_ZERO
                      /\ q \in B => node'[q].value = ELEM_NAN
    BY DEF AndNodes
  <2>1. CASE q \in K
    BY <2>1, TimesLaws
  <2>2. CASE q \in Live /\ q \notin K
    <3>1. ~IsOR(q)
      BY <1>1, <2>2, NodeVariable DEF IsSearchPath
    <3>2. Frozen(q, node[q], node'[q]) /\ node'[q].value = node[q].value
      BY <2>2
    <3>3. /\ node[q].subSolved \in Known /\ ~node[q].notOpt /\ node[q].label # ELEM_ZERO
          /\ q \in O => node[q].value = ELEM_NAN
      BY <1>1, <2>2 DEF AndNodes
    <3> QED  BY <2>2, <3>1, <3>2, <3>3 DEF Frozen
  <2> QED  BY <2>1, <2>2
<1>6. SyncAND'
  <2> SUFFICES ASSUME NEW p \in Live', IsAND(p), KidsIn(Live', p) # {}
               PROVE  node'[p].value = Times(node'[p].subSolved,
                                             Product([q \in KidsIn(Live', p) |-> node'[q].value]))
    BY DEF SyncAND
  <2>1. p \in Live /\ ~IsOR(p)
    BY <1>1, <1>2, NodeVariable DEF IsSearchPath
  <2>2. /\ node'[p].subSolved = node[p].subSolved /\ node'[p].value = node[p].value
        /\ node[p].subSolved \in Known
        /\ p \in O => node[p].value = ELEM_NAN
    BY <1>1, <2>1 DEF Frozen, AndNodes
  <2>3. CASE p = n
    <3> DEFINE f == [q \in K |-> node'[q].value]
    <3>1. f \in [K -> Cost] /\ \A q \in K : f[q] = ELEM_NAN
      BY TimesLaws
    <3> HIDE DEF f
    <3>2. PICK q \in K : TRUE
      OBVIOUS
    <3>3. /\ Part(f, K) = f
          /\ \A s \in SUBSET K : /\ Product(Part(f, s)) \in Cost
                               /\ \A x \in s : Product(Part(f, s)) = Times(f[x], Product(Part(f, s \ {x})))
      BY <3>1, ProductSplit
    <3>4. Product(f) = ELEM_NAN
      <4>1. K \in SUBSET K /\ K \ {q} \in SUBSET K
        OBVIOUS
      <4>2. Product(f) = Times(f[q], Product(Part(f, K \ {q}))) /\ Product(Part(f, K \ {q})) \in Cost
        BY <3>2, <3>3, <4>1
      <4> QED  BY <3>1, <3>2, <4>2, CostOrder
    <3>5. Times(node[p].subSolved, Product(f)) = ELEM_NAN
      BY <2>2, <3>4, CostOrder, TimesLaws
    <3> QED  BY <1>2, <2>2, <2>3, <3>5 DEF f
  <2>4. CASE p # n
    <3>1. KidsIn(Live', p) = KidsIn(Live, p) /\ KidsIn(Live, p) \subseteq Live
      BY <1>2, <2>1, <2>4 DEF KidsIn
    <3>2. Product([q \in KidsIn(Live, p) |-> node'[q].value])
            = Product([q \in KidsIn(Live, p) |-> node[q].value])
      <4>1. \A q \in KidsIn(Live, p) : node'[q].value = node[q].value
        BY <3>1
      <4> QED  BY <4>1, SameProduct
    <3>3. node[p].value = Times(node[p].subSolved, Product([q \in KidsIn(Live, p) |-> node[q].value]))
      BY <1>1, <1>3, <2>1, <3>1 DEF SyncAND
    <3> QED  BY <2>2, <3>1, <3>2, <3>3
  <2> QED  BY <2>3, <2>4
<1>7. SyncOR'
  <2> SUFFICES ASSUME NEW p \in Live', IsOR(p), NEW k \in KidsIn(Live', p),
                      node'[k].value # ELEM_NAN
               PROVE  /\ node'[p].value # ELEM_NAN
                      /\ ~Greater(Times(node'[k].value, node'[k].label), node'[p].value)
    BY DEF SyncOR
  <2>1. p \in Live /\ p # n /\ k \in KidsIn(Live, p)
    BY <1>2
  <2>2. k \in Live /\ IsAND(k) /\ ~IsOR(k)
    BY <1>1, <2>1, KidOfOR
  <2>3. /\ node'[k].value = node[k].value /\ node'[p].value = node[p].value
        /\ node'[k].label = node[k].label
    BY <2>1, <2>2 DEF Frozen
  <2> QED  BY <1>1, <1>3, <2>1, <2>3 DEF SyncOR
<1>8. Settled(B)'
  <2>1. ASSUME NEW p \in Live' \ B, KidsIn(Live', p) = {} PROVE node'[p].value # ELEM_NAN
    <3>1. p \in Live \ O /\ KidsIn(Live, p) = {}
      BY <1>2, <2>1
    <3> QED  BY <1>1, <3>1 DEF Settled
  <2> HIDE DEF B
  <2> QED  BY <2>1 DEF Settled, Climbing
<1>9. RootKept'
  BY <1>1 DEF RootKept
<1> HIDE DEF B
<1>10. InSync(B)'
  BY <1>4, <1>5, <1>6, <1>7, <1>8, <1>9 DEF InSync
<1> QED  BY <1>10 DEF B

(* What one iteration of propagate changes: the value of the node it is at. *)
ClimbAt(v, prop) ==
  /\ \A q \in Live : q # cur => node'[q] = node[q]
  /\ node'[cur].value = v
  /\ \A q \in Live : Frozen(q, node[q], node'[q]) /\ (node'[q].notOpt <=> node[q].notOpt)
  /\ Live' = Live /\ prob' = prob /\ curCost' = curCost
  /\ reg'.leaf = reg.leaf /\ reg'.prop = prop /\ (reg'.del <=> closes)
  /\ reg'.high = (IF closes THEN reg.prev ELSE reg.high)
  /\ reg'.prev = (IF prop \/ closes THEN cur ELSE reg.prev)
  /\ phase' = (IF prop \/ closes THEN "climb" ELSE "finish")
  /\ reg.prev \in Live /\ cur \in Live /\ reg.prev \in KidsIn(Live, cur) /\ cur # reg.prev

(* What an iteration of propagate writes and where it goes next.           *)
LEMMA ClimbEffect ==
  ASSUME NEW O, SearchInv(O), CostInv(O), phase = "climb", Len(cur) > 0,
         NEW prop \in BOOLEAN, ClimbOn(prop), prob' = prob, curCost' = curCost,
         NEW v \in Cost,
         (node' = node /\ v = node[cur].value) \/ node' = [node EXCEPT ![cur].value = v]
  PROVE  ClimbAt(v, prop)
<1>1. /\ reg.prev \in Live /\ cur \in Live /\ reg.prev \in KidsIn(Live, cur)
      /\ Len(reg.prev) = Len(cur) + 1 /\ Len(cur) \in Nat
  BY ClimbingNode
<1>2. cur # reg.prev
  BY <1>1
<1>3. DOMAIN reg = DOMAIN Idle
  BY DEF SearchInv, SearchTypeOK
<1>4. /\ reg'.leaf = reg.leaf /\ reg'.prop = prop /\ (reg'.del <=> closes)
      /\ reg'.high = (IF closes THEN reg.prev ELSE reg.high)
      /\ reg'.prev = (IF prop \/ closes THEN cur ELSE reg.prev)
      /\ phase' = (IF prop \/ closes THEN "climb" ELSE "finish")
  BY <1>3, RegOfIdle DEF ClimbOn
<1>5. DOMAIN node[cur] = IF IsOR(cur) THEN OrFields ELSE AndFields
  BY <1>1 DEF CostInv, NodesFit, NodeOK
<1>6. Live' = Live
  BY DEF Live
<1>7. \A q \in Live : q # cur => node'[q] = node[q]
  BY DEF Live
<1>8. node'[cur].value = v /\ Frozen(cur, node[cur], node'[cur]) /\ (node'[cur].notOpt <=> node[cur].notOpt)
  <2>1. CASE node' = node
    BY <1>1, <1>5, <2>1 DEF Frozen, Live, OrFields, AndFields
  <2>2. CASE node' # node
    <3>1. node'[cur] = [node[cur] EXCEPT !.value = v]
      BY <1>1, <2>2 DEF Live
    <3> QED  BY <1>5, <3>1 DEF Frozen, OrFields, AndFields
  <2> QED  BY <2>1, <2>2
<1>9. \A q \in Live : Frozen(q, node[q], node'[q]) /\ (node'[q].notOpt <=> node[q].notOpt)
  BY <1>7, <1>8 DEF Frozen
<1> QED  BY <1>1, <1>2, <1>4, <1>6, <1>7, <1>8, <1>9 DEF ClimbAt

(* A node that is about to be closed has only the child closed before it.  *)
LEMMA OnlyKid ==
  ASSUME NEW O, SearchInv(O), phase = "climb", closes
  PROVE  /\ reg.prev \in Live \ O
         /\ \/ KidsIn(Live, reg.prev) = {}
            \/ reg.high # NULL /\ reg.high \in Live /\ KidsIn(Live, reg.prev) = {reg.high}
<1>1. /\ Tree(Live) /\ Frontier(Live, O, {reg.leaf}) /\ reg.del
      /\ Closing(Live, O, reg.leaf, reg.prev, reg.high, reg.del)
      /\ \A q, r \in KidsIn(Live, reg.prev) : q = r
  BY DEF SearchInv, Pointers, Climbing, closes, AtMostOneKid, Kids, KidsIn
<1>2. /\ reg.leaf \in Live /\ reg.prev \in Live /\ Above(reg.prev, reg.leaf)
      /\ KidsIn(Live, reg.leaf) = {} /\ reg.leaf \notin O
      /\ \A q \in O : KidsIn(Live, q) = {}
  BY <1>1 DEF Frontier, Closing
<1>3. reg.prev # reg.leaf => KidsIn(Live, reg.prev) # {}
  BY <1>1, <1>2, KidTowards
<1>4. KidsIn(Live, reg.prev) # {} => reg.high # NULL /\ reg.high \in KidsIn(Live, reg.prev)
  BY <1>1, <1>2 DEF Closing
<1>5. reg.prev \notin O
  BY <1>2, <1>3
<1>6. KidsIn(Live, reg.prev) # {} => KidsIn(Live, reg.prev) = {reg.high} /\ reg.high \in Live
  BY <1>1, <1>4 DEF KidsIn
<1> QED  BY <1>2, <1>4, <1>5, <1>6

(* A product with one factor. *)
LEMMA OneFactor ==
  ASSUME NEW q, NEW K, K = {q}, NEW f \in [K -> Cost]
  PROVE  Product(f) = f[q]
<1>1. IsFiniteSet(K)
  BY FS_Singleton
<1>2. /\ Part(f, K) = f /\ Product(Part(f, {})) = ELEM_ONE
      /\ \A s \in SUBSET K : \A x \in s : Product(Part(f, s)) = Times(f[x], Product(Part(f, s \ {x})))
  BY <1>1, ProductSplit
<1>3. K \in SUBSET K /\ q \in K /\ K \ {q} = {}
  OBVIOUS
<1>4. Product(f) = Times(f[q], ELEM_ONE)
  BY <1>2, <1>3
<1> QED  BY <1>3, <1>4, TimesLaws

(* The value of a node with one child, to which propagate does not return. *)
LEMMA ValueOfOnlyKid ==
  ASSUME NEW O, CostInv(O), InSync(O), NEW p \in Live, ~Waiting(p),
         NEW k, k \in Live, KidsIn(Live, p) = {k}, node[k].value # ELEM_NAN
  PROVE  /\ IsAND(p) => node[p].value = Times(node[p].subSolved, node[k].value)
         /\ IsOR(p) => ~Greater(Times(node[k].value, node[k].label), node[p].value)
         /\ node[p].value \in Known /\ node[k].value \in Known
<1>1. SyncAND /\ SyncOR /\ AndNodes(O) /\ NodesFit
  BY DEF InSync, CostInv
<1>2. node[p].value \in Cost /\ node[k].value \in Known /\ (IsOR(p) \/ IsAND(p))
  <2>1. node[p].value \in Cost /\ node[k].value \in Cost
    BY <1>1 DEF NodesFit, NodeOK
  <2> QED  BY <1>1, <2>1, CostOrder, NodeVariable DEF NodesFit, IsSearchPath
<1>3. CASE IsAND(p)
  <2> DEFINE K == KidsIn(Live, p)
             f == [q \in K |-> node[q].value]
  <2>1. f \in [K -> Cost] /\ K = {k} /\ f[k] = node[k].value
    BY <1>2, TimesLaws
  <2>2. Product(f) = f[k]
    <3> HIDE DEF K, f
    <3> QED  BY <2>1, OneFactor
  <2>3. node[p].value = Times(node[p].subSolved, node[k].value) /\ node[p].subSolved \in Known
    BY <1>1, <1>3, <2>1, <2>2 DEF SyncAND, AndNodes
  <2>4. ~IsOR(p)
    BY <1>1, <1>3, NodeVariable DEF NodesFit, IsSearchPath
  <2>5. Times(node[p].subSolved, node[k].value) \in Known
    BY <1>2, <2>3, TimesLaws
  <2> HIDE DEF K, f
  <2> QED  BY <1>2, <2>3, <2>4, <2>5
<1>4. CASE IsOR(p)
  <2>1. ~IsAND(p)
    BY <1>1, <1>4, NodeVariable DEF NodesFit, IsSearchPath
  <2> QED  BY <1>1, <1>2, <1>4, <2>1, CostOrder DEF SyncOR
<1> QED  BY <1>2, <1>3, <1>4

(* A node that is closed has a value.                                      *)
LEMMA ClosedHasValue ==
  ASSUME NEW O, SearchInv(O), CostInv(O), InSync(O), phase = "climb", Len(cur) > 0, closes
  PROVE  node[reg.prev].value # ELEM_NAN
<1>1. /\ reg.prev \in Live \ O
      /\ \/ KidsIn(Live, reg.prev) = {}
         \/ reg.high # NULL /\ reg.high \in Live /\ KidsIn(Live, reg.prev) = {reg.high}
  BY OnlyKid
<1>2. Settled(O) /\ ~Waiting(reg.prev)
  <2>1. reg.prev # cur
    <3>1. Len(reg.prev) = Len(cur) + 1 /\ Len(cur) \in Nat
      BY ClimbingNode
    <3> QED  BY <3>1
  <2> QED  BY <2>1 DEF InSync, Waiting
<1>3. CASE KidsIn(Live, reg.prev) = {}
  BY <1>1, <1>2, <1>3 DEF Settled
<1>4. CASE reg.high # NULL /\ reg.high \in Live /\ KidsIn(Live, reg.prev) = {reg.high}
  <2>1. node[reg.high].value # ELEM_NAN
    BY <1>2, <1>4 DEF Settled, Climbing
  <2>2. node[reg.prev].value \in Known
    BY <1>1, <1>2, <1>4, <2>1, ValueOfOnlyKid
  <2> QED  BY <2>2, CostOrder
<1> QED  BY <1>1, <1>3, <1>4

(* One iteration of propagate: the values of cur and of its children agree *)
(* when it is done, and it goes on if cur has a new value.                 *)
LEMMA ClimbSync ==
  ASSUME NEW O, SearchInv(O), CostInv(O), InSync(O), phase = "climb", Len(cur) > 0,
         NEW prop \in BOOLEAN, NEW v, ClimbAt(v, prop),
         IsAND(cur) => v = Times(node[cur].subSolved,
                                 Product([q \in KidsIn(Live, cur) |-> node[q].value])),
         IsOR(cur) => \A k \in KidsIn(Live, cur) : node[k].value # ELEM_NAN =>
                        v # ELEM_NAN /\ ~Greater(Times(node[k].value, node[k].label), v),
         prop => v # ELEM_NAN,
         v # node[cur].value => prop \/ (v = ELEM_NAN /\ IsAND(cur))
  PROVE  InSync(O)'
<1>1. /\ NodesFit /\ BoundsFit /\ AndNodes(O) /\ RootKept /\ SyncAND /\ SyncOR /\ Settled(O)
      /\ Frontier(Live, O, {reg.leaf}) /\ Tree(Live)
      /\ reg.high # NULL => reg.high \in Live
  BY DEF CostInv, InSync, SearchInv, Pointers, Climbing, Closing
<1>2. /\ reg.prev \in Live /\ cur \in Live /\ reg.prev \in KidsIn(Live, cur) /\ cur # reg.prev
      /\ Len(reg.prev) = Len(cur) + 1 /\ Len(cur) \in Nat
      /\ IsOR(cur) <=> ~IsAND(cur)
  <2>1. IsNodePath(cur) /\ Len(cur) \in Nat /\ Len(reg.prev) = Len(cur) + 1
    BY ClimbingNode DEF IsSearchPath
  <2> QED  BY <2>1, NodeVariable DEF ClimbAt
<1>3. /\ \A q \in Live : q # cur => node'[q] = node[q]
      /\ node'[cur].value = v
      /\ \A q \in Live : Frozen(q, node[q], node'[q]) /\ (node'[q].notOpt <=> node[q].notOpt)
      /\ Live' = Live /\ prob' = prob /\ reg'.prop = prop
      /\ reg'.high = (IF closes THEN reg.prev ELSE reg.high)
      /\ prop \/ closes => reg'.prev = cur /\ phase' = "climb"
      /\ ~(prop \/ closes) => phase' = "finish"
  BY DEF ClimbAt
<1>4. \A p : Waiting(p) <=> reg.prop /\ p = cur
  BY DEF Waiting
<1>5. \A p : Waiting(p)' <=> prop /\ p = Parent(cur)
  <2>1. cur' = Parent(reg'.prev)
    BY DEF cur
  <2> QED  BY <1>3, <2>1 DEF Waiting
<1>6. cur \notin O /\ \A p \in Live : KidsIn(Live, p) = {} => p # cur
  BY <1>1, <1>2 DEF Frontier
<1>7. \A p \in Live : \A q \in KidsIn(Live, p) : q \in Live /\ q # p /\ p = Parent(q)
  BY <1>1, KidOfOR
<1>8. BoundsFit' /\ AndNodes(O)' /\ RootKept'
  <2>1. \A q \in Live : q \in O => node'[q].value = node[q].value
    BY <1>3, <1>6
  <2>2. node'[RootNode].notOpt => node[RootNode].notOpt
    BY <1>1, <1>3 DEF RootKept
  <2> QED  BY <1>1, <1>3, <2>1, <2>2, FrozenSync
<1>9. SyncAND'
  <2> SUFFICES ASSUME NEW p \in Live, IsAND(p), KidsIn(Live, p) # {}, ~(prop /\ p = Parent(cur))
               PROVE  node'[p].value = Times(node'[p].subSolved,
                                             Product([q \in KidsIn(Live, p) |-> node'[q].value]))
    BY <1>3, <1>5 DEF SyncAND
  <2>1. ~IsOR(p)
    BY <1>1, NodeVariable DEF NodesFit, IsSearchPath
  <2>2. node'[p].subSolved = node[p].subSolved
    BY <1>3, <2>1 DEF Frozen
  <2>3. \A q \in KidsIn(Live, p) : node'[q].value = node[q].value
    <3> SUFFICES ASSUME NEW q \in KidsIn(Live, p), node'[q].value # node[q].value PROVE FALSE
      OBVIOUS
    <3>1. q = cur /\ p = Parent(cur) /\ IsOR(cur)
      BY <1>1, <1>3, <1>7, KidOfOR
    <3> QED  BY <1>2, <1>3, <3>1
  <2>4. Product([q \in KidsIn(Live, p) |-> node'[q].value])
          = Product([q \in KidsIn(Live, p) |-> node[q].value])
    BY <2>3, SameProduct
  <2>5. CASE p = cur
    BY <1>3, <2>2, <2>4, <2>5
  <2>6. CASE p # cur
    <3>1. node'[p].value = node[p].value
      BY <1>3, <2>6
    <3>2. node[p].value = Times(node[p].subSolved, Product([q \in KidsIn(Live, p) |-> node[q].value]))
      BY <1>1, <1>4, <2>6 DEF SyncAND
    <3> QED  BY <2>2, <2>4, <3>1, <3>2
  <2> QED  BY <2>5, <2>6
<1>10. SyncOR'
  <2> SUFFICES ASSUME NEW p \in Live, IsOR(p), NEW k \in KidsIn(Live, p),
                      node'[k].value # ELEM_NAN, ~(prop /\ p = Parent(cur) /\ k = cur)
               PROVE  /\ node'[p].value # ELEM_NAN
                      /\ ~Greater(Times(node'[k].value, node'[k].label), node'[p].value)
    BY <1>3, <1>5 DEF SyncOR
  <2>1. k \in Live /\ k # p /\ p = Parent(k) /\ IsAND(k) /\ ~IsOR(k)
    BY <1>1, <1>7, KidOfOR
  <2>2. node'[k].label = node[k].label
    BY <1>3, <2>1 DEF Frozen
  <2>3. node'[k].value = node[k].value
    BY <1>3, <2>1
  <2>4. CASE p = cur
    BY <1>3, <2>2, <2>3, <2>4
  <2>5. CASE p # cur
    <3>1. node'[p].value = node[p].value
      BY <1>3, <2>5
    <3> QED  BY <1>1, <1>4, <2>2, <2>3, <2>5, <3>1 DEF SyncOR
  <2> QED  BY <2>4, <2>5
<1>11. Settled(O)'
  <2>1. \A p \in Live \ O : KidsIn(Live, p) = {} => node'[p].value # ELEM_NAN
    BY <1>1, <1>3, <1>6 DEF Settled
  <2>2. /\ reg.high # NULL => /\ node[reg.high].value # ELEM_NAN /\ reg.high \in Live
                              /\ Len(reg.prev) < Len(reg.high)
    BY <1>1 DEF Settled, Climbing
  <2>3. reg.high # NULL => Len(reg.high) \in Nat
    <3>1. reg.high # NULL => reg.high \in Path
      BY <1>1 DEF Tree, IsNodePath
    <3> QED  BY <3>1, ParentPath
  <2>4. reg.high # NULL => reg.high # cur /\ Len(cur) < Len(reg.high)
    BY <1>2, <2>2, <2>3
  <2>5. closes => node'[reg.prev].value # ELEM_NAN
    BY <1>2, <1>3, ClosedHasValue
  <2>6. reg'.high # NULL => node'[reg'.high].value # ELEM_NAN /\ Len(cur) < Len(reg'.high)
    <3>1. CASE closes
      BY <1>2, <1>3, <2>5, <3>1
    <3>2. CASE ~closes
      BY <1>3, <2>2, <2>4, <3>2
    <3> QED  BY <3>1, <3>2
  <2>7. phase' = "climb" => reg'.prev = cur
    BY <1>3
  <2>8. prop => node'[cur].value # ELEM_NAN
    BY <1>3
  <2> QED  BY <1>3, <2>1, <2>6, <2>7, <2>8 DEF Settled
<1>12. phase' \notin {"heur", "heurEnd"}
  BY <1>3
<1> QED  BY <1>8, <1>9, <1>10, <1>11, <1>12 DEF InSync

(* propagate at an AND node. *)
LEMMA ClimbAND ==
  ASSUME NEW O, SearchInv(O), CostInv(O), InSync(O), PropagateAND
  PROVE  \E d \in Cost :
           /\ d = Times(node[cur].subSolved, Product([q \in KidsIn(Live, cur) |-> node[q].value]))
           /\ phase = "climb" /\ Len(cur) > 0 /\ ~IsOR(cur) /\ IsAND(cur)
           /\ ClimbAt(d, reg.prop /\ ~ISNAN(d))
           /\ ~reg.prop => d = node[cur].value
<1> DEFINE K == KidsIn(Live, cur)
           d == Times(node[cur].subSolved, Product([q \in K |-> node[q].value]))
<1>1. phase = "climb" /\ IsAND(cur) /\ Len(cur) > 0
  BY DEF PropagateAND, IsAND
<1>2. /\ cur \in Live /\ K # {} /\ ~IsOR(cur) /\ node[cur].value \in Cost
      /\ node[cur].subSolved \in Cost
  <2>1. cur \in Live /\ K # {} /\ IsNodePath(cur)
    BY <1>1, ClimbingNode DEF IsSearchPath
  <2>2. ~IsOR(cur)
    BY <1>1, <2>1, NodeVariable
  <2> QED  BY <2>1, <2>2 DEF CostInv, NodesFit, NodeOK
<1>3. d \in Cost
  <2>1. /\ IsSearchPath(cur) /\ KidPaths(cur, K) /\ prob \in Problems
        /\ RestOK(prob, cur, node[cur].subSolved, K)
    BY <1>1, <1>2, ClimbingNode DEF CostInv, RestsFit
  <2>2. \A q \in K : node[q].value \in Cost /\ ~Greater(node[q].value, Exact(prob, q))
    BY DEF CostInv, NodesFit, NodeOK, KidsIn
  <2> DEFINE val == [q \in K |-> node[q].value]
  <2>3. val \in [K -> Cost] /\ \A q \in K : ~Greater(val[q], Exact(prob, q))
    BY <2>2
  <2>4. Times(node[cur].subSolved, Product(val)) \in Cost
    <3> HIDE DEF K, val
    <3> QED  BY <1>1, <1>2, <2>1, <2>3, ValueAtAND
  <2> QED  BY <2>4
<1>4. ~reg.prop => d = node[cur].value
  BY <1>1, <1>2 DEF InSync, SyncAND, Waiting
<1>5. /\ prob' = prob /\ curCost' = curCost /\ ClimbOn(reg.prop /\ ~ISNAN(d))
      /\ node' = IF reg.prop THEN [node EXCEPT ![cur].value = d] ELSE node
  <2>1. Kids(cur) = K
    BY DEF Kids, KidsIn
  <2> HIDE DEF K
  <2> QED  BY <2>1 DEF PropagateAND
<1> DEFINE prop == reg.prop /\ ~ISNAN(d)
<1> HIDE DEF d
<1>6. prop \in BOOLEAN
  OBVIOUS
<1>7. ClimbAt(d, prop)
  <2>1. (node' = node /\ d = node[cur].value) \/ node' = [node EXCEPT ![cur].value = d]
    BY <1>4, <1>5
  <2>2. ClimbOn(prop)
    BY <1>5
  <2> HIDE DEF prop
  <2> QED  BY <1>1, <1>3, <1>5, <1>6, <2>1, <2>2, ClimbEffect
<1> QED  BY <1>1, <1>2, <1>3, <1>4, <1>7 DEF d

(* An iteration at an AND node leaves values in step with the children.    *)
LEMMA SyncAtAND ==
  ASSUME NEW O, SearchInv(O), CostInv(O), InSync(O), PropagateAND
  PROVE  InSync(O)'
<1>1. PICK d \in Cost :
           /\ d = Times(node[cur].subSolved, Product([q \in KidsIn(Live, cur) |-> node[q].value]))
           /\ phase = "climb" /\ Len(cur) > 0 /\ ~IsOR(cur) /\ IsAND(cur)
           /\ ClimbAt(d, reg.prop /\ ~ISNAN(d))
           /\ ~reg.prop => d = node[cur].value
  BY ClimbAND
<1>2. PICK prop \in BOOLEAN : prop <=> reg.prop /\ ~ISNAN(d)
  OBVIOUS
<1>3. ClimbAt(d, prop) /\ (prop => d # ELEM_NAN)
  <2>1. prop = (reg.prop /\ ~ISNAN(d))
    BY <1>2
  <2> QED  BY <1>1, <2>1 DEF ISNAN
<1>4. d # node[cur].value => prop \/ (d = ELEM_NAN /\ IsAND(cur))
  BY <1>1, <1>2 DEF ISNAN
<1> QED  BY <1>1, <1>3, <1>4, ClimbSync

(* propagate at an OR node. *)
LEMMA ClimbOR ==
  ASSUME NEW O, SearchInv(O), CostInv(O), InSync(O), PropagateOR
  PROVE  \E d \in Cost, v \in Cost, better \in BOOLEAN :
           /\ d = Times(node[reg.prev].value, node[reg.prev].label)
           /\ phase = "climb" /\ Len(cur) > 0 /\ ~IsAND(cur) /\ IsOR(cur) /\ IsAND(reg.prev)
           /\ better <=> reg.prop /\ (node[cur].value = ELEM_NAN \/ Greater(d, node[cur].value))
           /\ v = IF better THEN d ELSE node[cur].value
           /\ ClimbAt(v, better)
<1> DEFINE d == Times(node[reg.prev].value, node[reg.prev].label)
           better == reg.prop /\ Improves(d)
           v == IF better THEN d ELSE node[cur].value
<1>1. phase = "climb" /\ Len(cur) % 2 = 1
  BY DEF PropagateOR, IsOR
<1>2. Len(cur) > 0
  <2>1. reg.prev \in Path /\ Parent(reg.prev) \in Path
    BY ParentPath DEF SearchInv, SearchTypeOK
  <2>2. Len(cur) \in Nat
    BY <2>1, ParentPath DEF cur
  <2> QED  BY <1>1, <2>2
<1>3. /\ reg.prev \in Live /\ IsSearchPath(reg.prev) /\ cur \in Live
      /\ Parent(reg.prev) = cur /\ Len(reg.prev) = Len(cur) + 1 /\ Len(cur) \in Nat
  BY <1>1, <1>2, ClimbingNode
<1>4. IsAND(reg.prev) /\ ~IsAND(cur) /\ IsOR(cur)
  BY <1>1, <1>3 DEF IsAND, IsOR
<1>5. d \in Cost /\ node[cur].value \in Cost /\ ~node[reg.prev].notOpt
  <2>1. prob \in Problems /\ NodeOK(prob, reg.prev, node[reg.prev]) /\ node[cur].value \in Cost
    BY <1>3 DEF CostInv, NodesFit, NodeOK
  <2> QED  BY <1>3, <1>4, <2>1, ValueAtOR DEF InSync, AndNodes
<1>6. /\ prob' = prob /\ curCost' = curCost /\ ClimbOn(better)
      /\ node' = IF better THEN [node EXCEPT ![cur].value = d] ELSE node
  BY DEF PropagateOR
<1> HIDE DEF d
<1>7. better \in BOOLEAN /\ v \in Cost
  BY <1>5
<1>8. better <=> reg.prop /\ (node[cur].value = ELEM_NAN \/ Greater(d, node[cur].value))
  BY <1>5 DEF Improves, ISNAN
<1>9. (node' = node /\ v = node[cur].value) \/ node' = [node EXCEPT ![cur].value = v]
  BY <1>6
<1>10. ClimbAt(v, better)
  <2> HIDE DEF v, better
  <2> QED  BY <1>1, <1>2, <1>6, <1>7, <1>9, ClimbEffect
<1>11. v = IF better THEN d ELSE node[cur].value
  OBVIOUS
<1> HIDE DEF v, better
<1> QED  BY <1>1, <1>2, <1>4, <1>5, <1>7, <1>8, <1>10, <1>11 DEF d

(* ... and so does one at an OR node, which keeps the maximum.             *)
LEMMA SyncAtOR ==
  ASSUME NEW O, SearchInv(O), CostInv(O), InSync(O), PropagateOR
  PROVE  InSync(O)'
<1>1. PICK d \in Cost, v \in Cost, better \in BOOLEAN :
           /\ d = Times(node[reg.prev].value, node[reg.prev].label)
           /\ phase = "climb" /\ Len(cur) > 0 /\ ~IsAND(cur) /\ IsOR(cur) /\ IsAND(reg.prev)
           /\ better <=> reg.prop /\ (node[cur].value = ELEM_NAN \/ Greater(d, node[cur].value))
           /\ v = IF better THEN d ELSE node[cur].value
           /\ ClimbAt(v, better)
  BY ClimbOR
<1>2. /\ SyncOR /\ NodesFit /\ Settled(O) /\ reg.prev \in Live /\ cur \in Live
      /\ IsSearchPath(reg.prev) /\ prob \in Problems
  BY <1>1, ClimbingNode DEF InSync, CostInv
<1>3. node[cur].value \in Cost /\ node[reg.prev].label \in Known /\ node[reg.prev].value \in Cost
  <2>1. ~IsOR(reg.prev)
    BY <1>1, <1>2, NodeVariable DEF IsSearchPath
  <2>2. node[reg.prev].label = LabelOn(prob, reg.prev)
    BY <1>2, <2>1 DEF NodesFit, NodeOK
  <2>3. LabelOn(prob, reg.prev) \in Known
    BY <1>1, <1>2, ContextOfAND
  <2> QED  BY <1>2, <2>2, <2>3 DEF NodesFit, NodeOK
<1>4. reg.prop => d \in Known
  <2>1. reg.prop => node[reg.prev].value \in Known
    BY <1>1, <1>2, <1>3, CostOrder DEF Settled
  <2> QED  BY <1>1, <1>3, <2>1, TimesLaws
<1>5. ASSUME NEW k \in KidsIn(Live, cur), node[k].value # ELEM_NAN
      PROVE  v # ELEM_NAN /\ ~Greater(Times(node[k].value, node[k].label), v)
  <2> DEFINE e == Times(node[k].value, node[k].label)
  <2>1. CASE k = reg.prev /\ reg.prop
    <3>1. ~Greater(d, d) /\ d # ELEM_NAN
      BY <1>4, <2>1, CostOrder
    <3> QED  BY <1>1, <1>3, <2>1, <3>1
  <2>2. CASE ~(k = reg.prev /\ reg.prop)
    <3>1. node[cur].value # ELEM_NAN /\ ~Greater(e, node[cur].value)
      BY <1>1, <1>2, <1>5, <2>2 DEF SyncOR, Waiting
    <3>2. CASE ~better
      BY <1>1, <3>1, <3>2
    <3>3. CASE better
      <4>1. Greater(d, node[cur].value) /\ v = d /\ d \in Known
        BY <1>1, <1>4, <3>1, <3>3
      <4>2. e \in Cost
        <5>1. k \in Live /\ ~IsOR(k)
          BY <1>1, <1>2, KidOfOR
        <5>2. node[k].value \in Cost /\ node[k].label = LabelOn(prob, k) /\ IsAND(k) /\ IsSearchPath(k)
          BY <1>1, <1>2, <5>1, KidOfOR DEF NodesFit, NodeOK
        <5>3. node[k].label \in Known
          BY <1>2, <5>2, ContextOfAND
        <5> QED  BY <5>2, <5>3, TimesLaws DEF Cost
      <4>3. ~Greater(e, d)
        <5> HIDE DEF e
        <5> QED  BY <1>3, <3>1, <4>1, <4>2 DEF Greater, greater, Cost, Known
      <4> QED  BY <4>1, <4>3, CostOrder
    <3> QED  BY <3>2, <3>3
  <2> QED  BY <2>1, <2>2
<1>6. better => v # ELEM_NAN
  BY <1>1, <1>4, CostOrder
<1>7. v # node[cur].value => better \/ (v = ELEM_NAN /\ IsAND(cur))
  BY <1>1
<1> QED  BY <1>1, <1>5, <1>6, <1>7, ClimbSync

(* The end of propagate: what is erased, and what its parent keeps of it.  *)
FinishAt(high, par) ==
  /\ high \in Live /\ par \in Live /\ high \in KidsIn(Live, par)
  /\ node[high].value \in Known
  /\ Live' = {q \in Live : ~Above(high, q)} /\ par \in Live' /\ RootNode \in Live'
  /\ \A p \in Live' : p # par => KidsIn(Live', p) = KidsIn(Live, p)
  /\ KidsIn(Live', par) = KidsIn(Live, par) \ {high}
  /\ \A q \in Live' :
       /\ node'[q].value = node[q].value /\ node'[q].notOpt = node[q].notOpt
       /\ node'[q].heur = node[q].heur
       /\ IsOR(q) \/ q # par => node'[q] = node[q]
       /\ IsAND(q) => node'[q].label = node[q].label
  /\ IsAND(par) => node'[par].subSolved = Times(node[par].subSolved, node[high].value)

(* What the end of propagate erases, and what it writes.                   *)
LEMMA FinishEffect ==
  ASSUME NEW O, SearchInv(O), CostInv(O), InSync(O), PropagateFinish
  PROVE  /\ prob' = prob /\ cache' = cache /\ phase' = "next"
         /\ \A p \in Live : ~Waiting(p)
         /\ curCost' = IF AtRoot THEN UpdateSolution(node[RootNode].value) ELSE curCost
         /\ reg.high = NULL => node' = node
         /\ reg.high # NULL => FinishAt(reg.high, Parent(reg.high))
<1>1. /\ prob' = prob /\ cache' = cache /\ phase' = "next"
      /\ curCost' = IF AtRoot THEN UpdateSolution(node[RootNode].value) ELSE curCost
      /\ node' = IF reg.high = NULL THEN node ELSE Erased(reg.high)
      /\ phase = "finish" \/ (phase = "climb" /\ reg.prev = RootNode)
  BY DEF PropagateFinish, AtRoot
<1>2. \A p \in Live : IsNodePath(p) /\ p \in Path /\ Len(p) \in Nat /\ Len(p) >= 1
  BY ParentPath DEF SearchInv, Tree, IsNodePath
<1>3. \A p \in Live : ~Waiting(p)
  <2> SUFFICES ASSUME NEW p \in Live, Waiting(p) PROVE FALSE
    OBVIOUS
  <2>1. p = Parent(RootNode)
    BY <1>1 DEF Waiting, cur
  <2>2. RootNode \in Live /\ Len(RootNode) = 1
    BY DEF InSync, RootKept, RootNode
  <2>3. Len(Parent(RootNode)) = Len(RootNode) - 1
    BY <1>2, <2>2, ParentPath
  <2> QED  BY <1>2, <2>1, <2>2, <2>3
<1>4. ASSUME reg.high # NULL PROVE FinishAt(reg.high, Parent(reg.high))
  <2> DEFINE high == reg.high
             par == Parent(high)
  <2>1. /\ high \in Live /\ node[high].value # ELEM_NAN /\ reg.prev \in Live
        /\ IF reg.del THEN high \in KidsIn(Live, reg.prev)
           ELSE \E q \in KidsIn(Live, Parent(high)) : q # high
    BY <1>1, <1>4 DEF SearchInv, Pointers, Climbing, Closing, InSync, Settled
  <2>2. high \in Path /\ Len(high) \in Nat /\ Len(high) >= 1 /\ IsNodePath(high)
    BY <1>2, <2>1
  <2>3. Len(par) = Len(high) - 1
    BY <2>2, ParentPath
  <2>4. Len(high) >= 2
    <3>1. CASE reg.del
      <4>1. Len(high) = Len(reg.prev) + 1 /\ Len(reg.prev) >= 1 /\ Len(reg.prev) \in Nat
        BY <1>2, <2>1, <3>1 DEF KidsIn
      <4> QED  BY <4>1
    <3>2. CASE ~reg.del
      <4>1. PICK q \in KidsIn(Live, Parent(high)) : q # high
        BY <2>1, <3>2
      <4>2. IsNodePath(q) /\ q \in Path /\ Len(q) = Len(high)
        BY <1>2, <2>2, <2>3, <4>1 DEF KidsIn
      <4>3. Len(high) = 1 => q = high
        <5> SUFFICES ASSUME Len(high) = 1 PROVE q = high
          OBVIOUS
        <5>1. /\ high \in Seq(Vars \cup Int) /\ q \in Seq(Vars \cup Int)
              /\ Len(high) = 1 /\ Len(q) = 1 /\ high[1] = q[1]
          BY <2>2, <4>2 DEF IsNodePath, Path
        <5> QED  BY <5>1, SeqEqual
      <4>4. Len(high) # 1
        BY <4>1, <4>3
      <4> HIDE DEF high
      <4>5. PICK l : l = Len(high)
        OBVIOUS
      <4>6. l \in Nat /\ l >= 1 /\ l # 1
        BY <2>2, <4>4, <4>5
      <4> QED  BY ONLY <4>5, <4>6
    <3> QED  BY <3>1, <3>2
  <2>5. par \in Live /\ high \in KidsIn(Live, par)
    BY <2>1, <2>4, LiveParent DEF SearchInv
  <2>6. node[high].value \in Known
    <3>1. node[high].value \in Cost
      BY <2>1 DEF CostInv, NodesFit, NodeOK
    <3> QED  BY <2>1, <3>1, CostOrder
  <2> HIDE DEF high, par
  <2>7. /\ Live' = {q \in Live : ~Above(high, q)}
        /\ \A q \in Live' : node'[q] = IF q = par /\ IsAND(par)
                                       THEN [node[q] EXCEPT !.subSolved = Times(@, node[high].value)]
                                       ELSE node[q]
    BY <1>1, <1>4 DEF Erased, Live, par, high
  <2>8. /\ \A p \in Live' : p # par => KidsIn(Live', p) = KidsIn(Live, p)
        /\ KidsIn(Live', par) = KidsIn(Live, par) \ {high}
    BY <2>1, <2>7, KidsAfterErase DEF SearchInv, par
  <2>9. par \in Live' /\ RootNode \in Live'
    <3>1. RootNode \in Live /\ Len(RootNode) = 1
      BY DEF InSync, RootKept, RootNode
    <3>2. ~Above(high, RootNode) /\ ~Above(high, par)
      BY <2>2, <2>3, <2>4, <3>1 DEF Above
    <3> QED  BY <2>5, <2>7, <3>1, <3>2
  <2>10. ASSUME NEW q \in Live'
         PROVE  /\ node'[q].value = node[q].value /\ node'[q].notOpt = node[q].notOpt
                /\ node'[q].heur = node[q].heur
                /\ IsOR(q) \/ q # par => node'[q] = node[q]
                /\ IsAND(q) => node'[q].label = node[q].label
                /\ q = par /\ IsAND(par) => node'[q].subSolved = Times(node[q].subSolved, node[high].value)
    <3>1. q \in Live /\ IsNodePath(q) /\ (IsAND(q) <=> ~IsOR(q))
      BY <1>2, <2>7, NodeVariable
    <3>2. CASE q = par /\ IsAND(par)
      <4>1. DOMAIN node[q] = AndFields
        BY <3>1, <3>2 DEF CostInv, NodesFit, NodeOK
      <4>2. node'[q] = [node[q] EXCEPT !.subSolved = Times(@, node[high].value)]
        BY <2>7, <3>2
      <4> QED  BY <3>1, <3>2, <4>1, <4>2 DEF AndFields
    <3>3. CASE ~(q = par /\ IsAND(par))
      <4>1. node'[q] = node[q]
        BY <2>7, <3>3
      <4> QED  BY <3>1, <3>3, <4>1
    <3> QED  BY <3>2, <3>3
  <2>11. FinishAt(high, par)
    BY <2>1, <2>5, <2>6, <2>7, <2>8, <2>9, <2>10 DEF FinishAt
  <2> QED  BY <2>11 DEF high, par
<1> QED  BY <1>1, <1>3, <1>4

(* Erasing the closed nodes leaves values in step with the children left.  *)
LEMMA FinishSync ==
  ASSUME NEW O, SearchInv(O), CostInv(O), InSync(O), PropagateFinish
  PROVE  InSync(O)'
<1>1. /\ prob' = prob /\ cache' = cache /\ phase' = "next"
      /\ \A p \in Live : ~Waiting(p)
      /\ reg.high = NULL => node' = node
      /\ reg.high # NULL => FinishAt(reg.high, Parent(reg.high))
  BY FinishEffect
<1>2. /\ NodesFit /\ BoundsFit /\ AndNodes(O) /\ RootKept /\ SyncAND /\ SyncOR /\ Settled(O)
      /\ \A q \in Live : KidsIn(Live, q) \subseteq Live
      /\ \A q \in Live : IsAND(q) <=> ~IsOR(q)
  BY NodeVariable DEF CostInv, InSync, KidsIn, NodesFit, IsSearchPath
<1>3. CASE reg.high = NULL
  <2>1. Live' = Live /\ node' = node
    BY <1>1, <1>3 DEF Live
  <2>2. BoundsFit' /\ AndNodes(O)' /\ RootKept'
    BY <1>1, <1>2, <2>1 DEF BoundsFit, AndNodes, RootKept
  <2>3. SyncAND' /\ SyncOR'
    BY <1>1, <1>2, <2>1 DEF SyncAND, SyncOR
  <2>4. Settled(O)'
    BY <1>1, <1>2, <2>1 DEF Settled, Climbing
  <2> QED  BY <1>1, <2>2, <2>3, <2>4 DEF InSync
<1>4. CASE reg.high # NULL
  <2> DEFINE high == reg.high
             par == Parent(high)
  <2>1. FinishAt(high, par)
    BY <1>1, <1>4
  <2> HIDE DEF high, par
  <2>2. /\ high \in Live /\ par \in Live /\ par \in Live' /\ Live' \subseteq Live
        /\ high \in KidsIn(Live, par) /\ node[high].value \in Known
        /\ \A q \in Live' : KidsIn(Live', q) \subseteq Live'
    BY <2>1 DEF FinishAt, KidsIn
  <2>3. BoundsFit'
    <3>1. ASSUME NEW q \in Live' PROVE BoundOK(prob, q, node'[q])
      <4>1. BoundOK(prob, q, node[q]) /\ (IsOR(q) => node'[q] = node[q]) /\ node'[q].heur = node[q].heur
            /\ (~IsOR(q) => node'[q].label = node[q].label)
        BY <1>2, <2>1, <2>2 DEF BoundsFit, FinishAt
      <4> QED  BY <4>1 DEF BoundOK
    <3> QED  BY <1>1, <3>1 DEF BoundsFit
  <2>4. AndNodes(O)'
    <3> SUFFICES ASSUME NEW q \in Live', IsAND(q)
                 PROVE  /\ node'[q].subSolved \in Known /\ ~node'[q].notOpt
                        /\ node'[q].label # ELEM_ZERO
                        /\ q \in O => node'[q].value = ELEM_NAN
      BY DEF AndNodes
    <3>1. /\ node[q].subSolved \in Known /\ ~node[q].notOpt /\ node[q].label # ELEM_ZERO
          /\ q \in O => node[q].value = ELEM_NAN
      BY <1>2, <2>2 DEF AndNodes
    <3>2. /\ node'[q].value = node[q].value /\ node'[q].notOpt = node[q].notOpt
          /\ node'[q].label = node[q].label
          /\ q # par => node'[q] = node[q]
      BY <2>1 DEF FinishAt
    <3>3. q = par => node'[q].subSolved = Times(node[q].subSolved, node[high].value)
      BY <2>1 DEF FinishAt
    <3>4. Times(node[q].subSolved, node[high].value) \in Known
      BY <2>2, <3>1, TimesLaws
    <3>5. node'[q].subSolved \in Known
      <4>1. CASE q = par
        BY <3>3, <3>4, <4>1
      <4>2. CASE q # par
        BY <3>1, <3>2, <4>2
      <4> QED  BY <4>1, <4>2
    <3> QED  BY <3>1, <3>2, <3>5
  <2>5. SyncAND'
    <3> SUFFICES ASSUME NEW p \in Live', IsAND(p), KidsIn(Live', p) # {}
                 PROVE  node'[p].value = Times(node'[p].subSolved,
                                               Product([q \in KidsIn(Live', p) |-> node'[q].value]))
      BY DEF SyncAND
    <3> DEFINE K == KidsIn(Live, p)
               N == KidsIn(Live', p)
               f == [q \in K |-> node[q].value]
    <3>1. p \in Live /\ node'[p].value = node[p].value
      BY <2>1, <2>2 DEF FinishAt
    <3>2. \A q \in N : node'[q].value = node[q].value
      BY <2>1, <2>2 DEF FinishAt
    <3>3. CASE p # par
      <4>1. N = K /\ node'[p] = node[p]
        BY <2>1, <3>3 DEF FinishAt
      <4>2. Product([q \in N |-> node'[q].value]) = Product([q \in N |-> node[q].value])
        BY <3>2, SameProduct
      <4>3. node[p].value = Times(node[p].subSolved, Product([q \in K |-> node[q].value]))
        BY <1>1, <1>2, <3>1, <4>1 DEF SyncAND
      <4> QED  BY <4>1, <4>2, <4>3
    <3>4. CASE p = par
      <4>1. N = K \ {high} /\ high \in K
        BY <2>1, <2>2, <3>4 DEF FinishAt
      <4>2. node'[p].subSolved = Times(node[p].subSolved, node[high].value)
        BY <2>1, <3>4 DEF FinishAt
      <4>3. node[p].value = Times(node[p].subSolved, Product(f))
        BY <1>1, <1>2, <3>1, <4>1 DEF SyncAND
      <4>4. f \in [K -> Cost] /\ f[high] = node[high].value /\ IsFiniteSet(K)
        <5>1. \A q \in K : node[q].value \in Cost
          BY <1>2, <3>1 DEF NodesFit, NodeOK
        <5>2. IsFiniteSet(K)
          <6>1. prob \in Problems /\ IsSearchPath(p) /\ KidPaths(p, K)
            BY <1>2, <3>1 DEF NodesFit, KidPaths, KidsIn, CostInv
          <6> QED  BY <6>1, KidsLeft
        <5> QED  BY <4>1, <5>1, <5>2
      <4>5. Product([q \in N |-> node'[q].value]) = Product(Part(f, N))
        <5>1. Part(f, N) = [q \in N |-> node[q].value]
          BY <4>1 DEF Part
        <5>2. Product([q \in N |-> node'[q].value]) = Product([q \in N |-> node[q].value])
          BY <3>2, SameProduct
        <5> QED  BY <5>1, <5>2
      <4>6. Product(f) = Times(f[high], Product(Part(f, N))) /\ Product(Part(f, N)) \in Cost
        <5> HIDE DEF K, N, f
        <5>1. /\ Part(f, K) = f
              /\ \A s \in SUBSET K : /\ Product(Part(f, s)) \in Cost
                                     /\ \A x \in s : Product(Part(f, s)) = Times(f[x], Product(Part(f, s \ {x})))
          BY <4>4, ProductSplit
        <5>2. K \in SUBSET K /\ N \in SUBSET K
          BY <4>1
        <5>3. Product(f) = Times(f[high], Product(Part(f, K \ {high})))
          BY <4>1, <5>1, <5>2
        <5> QED  BY <4>1, <5>1, <5>2, <5>3
      <4>7. node[p].subSolved \in Known
        BY <1>2, <3>1 DEF AndNodes
      <4> HIDE DEF K, N, f
      <4>8. Times(node[p].subSolved, Times(node[high].value, Product(Part(f, N))))
              = Times(Times(node[p].subSolved, node[high].value), Product(Part(f, N)))
        <5>1. PICK a, b, c : /\ a = node[p].subSolved /\ b = node[high].value
                             /\ c = Product(Part(f, N))
          OBVIOUS
        <5>2. a \in Cost /\ b \in Cost /\ c \in Cost
          BY <2>2, <4>6, <4>7, <5>1, TimesLaws
        <5>3. Times(a, Times(b, c)) = Times(Times(a, b), c)
          BY <5>2, TimesLaws
        <5> QED  BY <5>1, <5>3
      <4>9. node'[p].value = Times(node'[p].subSolved, Product([q \in N |-> node'[q].value]))
        BY <3>1, <4>2, <4>3, <4>4, <4>5, <4>6, <4>8
      <4> QED  BY <4>9 DEF N
    <3> QED  BY <3>3, <3>4
  <2>6. SyncOR'
    <3> SUFFICES ASSUME NEW p \in Live', IsOR(p), NEW k \in KidsIn(Live', p), node'[k].value # ELEM_NAN
                 PROVE  /\ node'[p].value # ELEM_NAN
                        /\ ~Greater(Times(node'[k].value, node'[k].label), node'[p].value)
      BY DEF SyncOR
    <3>1. p \in Live /\ k \in Live /\ k \in KidsIn(Live, p) /\ k \in Live'
      BY <2>2 DEF KidsIn
    <3>2. IsAND(k)
      BY <1>2, <3>1, KidOfOR
    <3>3. /\ node'[k].value = node[k].value /\ node'[p].value = node[p].value
          /\ node'[k].label = node[k].label
      BY <2>1, <3>1, <3>2 DEF FinishAt
    <3> QED  BY <1>1, <1>2, <3>1, <3>3 DEF SyncOR
  <2>7. Settled(O)'
    <3> SUFFICES ASSUME NEW p \in Live' \ O, KidsIn(Live', p) = {} PROVE node'[p].value # ELEM_NAN
      BY <1>1 DEF Settled, Climbing
    <3>1. p \in Live \ O /\ node'[p].value = node[p].value
      BY <2>1, <2>2 DEF FinishAt
    <3>2. CASE p # par
      <4>1. KidsIn(Live, p) = {}
        BY <2>1, <3>2 DEF FinishAt
      <4> QED  BY <1>2, <3>1, <4>1 DEF Settled
    <3>3. CASE p = par
      <4>1. KidsIn(Live, p) = {high}
        BY <2>1, <2>2, <3>3 DEF FinishAt
      <4>2. node[high].value # ELEM_NAN /\ ~Waiting(p)
        BY <1>1, <2>2, <3>1, CostOrder
      <4>3. node[p].value \in Known
        BY <2>2, <3>1, <4>1, <4>2, ValueOfOnlyKid
      <4> QED  BY <3>1, <4>3, CostOrder
    <3> QED  BY <3>2, <3>3
  <2>8. RootKept'
    BY <1>2, <2>1 DEF RootKept, FinishAt
  <2> QED  BY <1>1, <2>3, <2>4, <2>5, <2>6, <2>7, <2>8 DEF InSync
<1> QED  BY <1>3, <1>4

-----------------------------------------------------------------------------
(* The optimum at an AND node with some children left is at most what it   *)
(* becomes with bounds in place of the optima of these children.           *)
LEMMA BoundAtAND ==
  ASSUME NEW P \in Problems, NEW p, IsSearchPath(p), IsAND(p), NEW K, KidPaths(p, K),
         NEW g \in [K -> Known], \A q \in K : ~Greater(Exact(P, q), g[q])
  PROVE  /\ IsFiniteSet(K)
         /\ ~Greater(Exact(P, p), Times(Below(P, p, ChildSet(Var(p)) \ KidVars(K)), Product(g)))
<1> DEFINE C == ChildSet(Var(p))
           T == KidVars(K)
           f == [y \in C |-> P.opt[y][PathRestriction(p, Ctx[y])]]
           h == [y \in T |-> CHOOSE q \in K : Var(q) = y]
<1>1. /\ T \subseteq C /\ IsFiniteSet(T) /\ IsFiniteSet(K)
      /\ \A q, r \in K : Var(q) = Var(r) => q = r
      /\ \A q \in K : Exact(P, q) = P.opt[Var(q)][PathRestriction(p, Ctx[Var(q)])]
  BY KidsLeft
<1>2. /\ IsFiniteSet(C) /\ \A y \in C : P.opt[y][PathRestriction(p, Ctx[y])] \in Known
      /\ \A S \in SUBSET C : Below(P, p, S) \in Known
  BY ContextsOfKids
<1>3. f \in [C -> Cost] /\ \A S \in SUBSET C : Below(P, p, S) = Product(Part(f, S))
  <2>1. f \in [C -> Cost]
    BY <1>2, TimesLaws
  <2>2. ASSUME NEW S \in SUBSET C PROVE Below(P, p, S) = Product(Part(f, S))
    <3>1. Part(f, S) = [y \in S |-> P.opt[y][PathRestriction(p, Ctx[y])]]
      BY DEF Part
    <3> QED  BY <3>1 DEF Below
  <2> QED  BY <2>1, <2>2
<1>4. ASSUME NEW y \in T PROVE h[y] \in K /\ Var(h[y]) = y
  BY DEF KidVars
<1>5. ~Greater(Below(P, p, T), Product(g))
  <2> DEFINE e == Part(f, T)
  <2>1. e \in [T -> Cost] /\ \A y \in T : e[y] = f[y]
    BY <1>1, <1>3 DEF Part
  <2>2. h \in [T -> K] /\ \A x, y \in T : h[x] = h[y] => x = y
    BY <1>4
  <2>3. \A q \in K : \E y \in T : h[y] = q
    <3> SUFFICES ASSUME NEW q \in K PROVE Var(q) \in T /\ h[Var(q)] = q
      OBVIOUS
    <3>1. Var(q) \in T
      BY DEF KidVars
    <3> HIDE DEF h
    <3> QED  BY <1>1, <1>4, <3>1
  <2>4. \A y \in T : ~Greater(e[y], g[h[y]])
    <3> SUFFICES ASSUME NEW y \in T PROVE ~Greater(e[y], g[h[y]])
      OBVIOUS
    <3>1. e[y] = Exact(P, h[y])
      <4>1. h[y] \in K /\ Var(h[y]) = y
        BY <1>4
      <4> HIDE DEF h
      <4> QED  BY <1>1, <2>1, <4>1
    <3> QED  BY <1>4, <3>1
  <2>5. ~Greater(Product(e), Product(g))
    <3> HIDE DEF e, h, T
    <3> QED  BY <1>1, <2>1, <2>2, <2>3, <2>4, ProductBelow
  <2> QED  BY <1>1, <1>3, <2>5
<1>6. Exact(P, p) = Times(Below(P, p, C \ T), Below(P, p, T))
  <2>1. Exact(P, p) = Below(P, p, C)
    BY OptimumOfOR
  <2>2. (C \ T) \cup T = C /\ (C \ T) \cap T = {} /\ IsFiniteSet(C \ T)
    BY <1>1, <1>2, FS_Subset
  <2> HIDE DEF f, T, C
  <2>3. Product(f) = Times(Product(Part(f, C \ T)), Product(Part(f, T)))
    BY <1>1, <1>3, <2>2, ProductUnion
  <2>4. Part(f, C) = f
    BY <1>3 DEF Part
  <2> QED  BY <1>1, <1>3, <2>1, <2>2, <2>3, <2>4
<1>7. Below(P, p, C \ T) \in Known /\ Below(P, p, T) \in Known /\ Product(g) \in Known
  BY <1>1, <1>2, ProductKnown
<1>8. ~Greater(Below(P, p, C \ T), Below(P, p, C \ T))
  <2>1. PICK b : b = Below(P, p, C \ T)
    OBVIOUS
  <2>2. b \in Known /\ ~Greater(b, b)
    BY <1>7, <2>1, TimesLaws, NeverGreater
  <2> QED  BY <2>1, <2>2
<1> HIDE DEF T, C
<1>9. ~Greater(Times(Below(P, p, C \ T), Below(P, p, T)), Times(Below(P, p, C \ T), Product(g)))
  BY <1>5, <1>7, <1>8, TimesBelow, TimesLaws
<1> QED  BY <1>1, <1>6, <1>9 DEF C, T

(* The nodes on the way from the root to a live node n.                    *)
LEMMA Levels ==
  ASSUME NEW O, SearchInv(O), NEW n \in Live, NEW l \in 1 .. Len(n)
  PROVE  LET a == Prefix(n, l)
         IN  /\ a \in Live /\ Len(a) = l /\ Len(n) \in Nat
             /\ (l % 2 = 1 => IsOR(a) /\ ~IsAND(a)) /\ (l % 2 = 0 => IsAND(a) /\ ~IsOR(a))
             /\ l < Len(n) => Prefix(n, l + 1) \in KidsIn(Live, a)
             /\ l = Len(n) => a = n
             /\ IsOR(n) => OrLevel(n) = Len(n) /\ Len(n) % 2 = 1
             /\ IsAND(n) => OrLevel(n) = Len(n) - 1 /\ Len(n) % 2 = 0
<1>1. Tree(Live) /\ IsNodePath(n) /\ n \in Path /\ Len(n) \in Nat
  BY ParentPath DEF SearchInv, Tree, IsNodePath
<1>2. l \in 0 .. Len(n)
  BY <1>1
<1>3. Prefix(n, l) \in Live /\ Len(Prefix(n, l)) = l /\ Prefix(n, Len(n)) = n
  BY <1>1, <1>2, PrefixPath DEF Tree
<1>4. ASSUME l < Len(n) PROVE Prefix(n, l + 1) \in KidsIn(Live, Prefix(n, l))
  <2> DEFINE c == Prefix(n, l + 1)
  <2>1. l + 1 \in 0 .. Len(n) /\ l \in 0 .. l + 1 /\ l + 1 \in 1 .. Len(n)
    BY <1>1, <1>4
  <2>2. c \in Path /\ Len(c) = l + 1 /\ Prefix(c, l) = Prefix(n, l) /\ c \in Live
    BY <1>1, <2>1, PrefixPath DEF Tree
  <2> HIDE DEF c
  <2>3. Parent(c) = Prefix(c, l)
    <3>1. Len(c) >= 1 /\ Len(c) - 1 = l
      BY <2>2
    <3> QED  BY <2>2, <3>1, ParentPath
  <2> QED  BY <1>3, <2>2, <2>3 DEF KidsIn, c
<1>5. /\ (l % 2 = 1 => IsOR(Prefix(n, l)) /\ ~IsAND(Prefix(n, l)))
      /\ (l % 2 = 0 => IsAND(Prefix(n, l)) /\ ~IsOR(Prefix(n, l)))
  <2> DEFINE a == Prefix(n, l)
  <2>1. Len(a) = l /\ l > 0
    BY <1>3
  <2> HIDE DEF a
  <2>2. (l % 2 = 1 => IsOR(a) /\ ~IsAND(a)) /\ (l % 2 = 0 => IsAND(a) /\ ~IsOR(a))
    BY <2>1 DEF IsOR, IsAND
  <2> QED  BY <2>2 DEF a
<1>6. /\ IsOR(n) => OrLevel(n) = Len(n) /\ Len(n) % 2 = 1
      /\ IsAND(n) => OrLevel(n) = Len(n) - 1 /\ Len(n) % 2 = 0
  BY <1>1, NodeVariable DEF OrLevel, IsOR, IsAND
<1> QED  BY <1>1, <1>3, <1>4, <1>5, <1>6

(* What the AND node at level j adds to the bound that canBePruned has. *)
LEMMA WhatIsAdded ==
  ASSUME NEW O, SearchInv(O), CostInv(O), InSync(O), NEW n \in Live,
         NEW j \in 1 .. OrLevel(n), j % 2 = 0
  PROVE  LET a == Prefix(n, j)
             c == Prefix(n, j + 1)
             K == KidsIn(Live, a)
             g == [q \in K \ {c} |-> node[q].heur]
         IN  /\ a \in Live /\ IsAND(a) /\ ~IsOR(a) /\ c \in K
             /\ IsSearchPath(a) /\ KidPaths(a, K) /\ IsFiniteSet(K)
             /\ node[a].label \in Known /\ node[a].subSolved \in Known
             /\ \A q \in K : q \in Live /\ IsOR(q) /\ node[q].heur \in Known
                             /\ ~Greater(Exact(prob, q), node[q].heur)
             /\ Product(g) \in Known
             /\ Contribution(n, j) = Times(Times(node[a].label, node[a].subSolved), Product(g))
             /\ Contribution(n, j) \in Known
<1> DEFINE a == Prefix(n, j)
           c == Prefix(n, j + 1)
           K == KidsIn(Live, a)
           g == [q \in K \ {c} |-> node[q].heur]
<1>1. /\ Len(n) \in Nat /\ j \in 1 .. Len(n) /\ j < Len(n)
  <2>1. Len(n) \in Nat /\ Len(n) >= 1
    BY ParentPath DEF SearchInv, Tree, IsNodePath
  <2>2. (OrLevel(n) = Len(n) /\ Len(n) % 2 = 1) \/ OrLevel(n) = Len(n) - 1
    BY DEF OrLevel, IsOR
  <2> QED  BY <2>1, <2>2
<1>2. a \in Live /\ IsAND(a) /\ ~IsOR(a) /\ c \in K
  BY <1>1, Levels
<1>3. NodesFit /\ BoundsFit /\ AndNodes(O) /\ prob \in Problems
  BY DEF CostInv, InSync
<1> HIDE DEF a, c
<1>4. IsSearchPath(a) /\ KidPaths(a, K) /\ IsFiniteSet(K)
  <2>1. IsSearchPath(a) /\ KidPaths(a, K)
    BY <1>2, <1>3 DEF NodesFit, KidPaths, KidsIn
  <2> QED  BY <1>2, <1>3, <2>1, KidsLeft
<1>5. node[a].label \in Known /\ node[a].subSolved \in Known
  <2>1. node[a].label = LabelOn(prob, a) /\ node[a].subSolved \in Known
    BY <1>2, <1>3 DEF NodesFit, NodeOK, AndNodes
  <2>2. LabelOn(prob, a) \in Known
    BY <1>2, <1>3, <1>4, ContextOfAND
  <2> QED  BY <2>1, <2>2
<1>6. ASSUME NEW q \in K
      PROVE  /\ q \in Live /\ IsOR(q) /\ node[q].heur \in Known
             /\ ~Greater(Exact(prob, q), node[q].heur)
  <2>1. q \in Live /\ IsOR(q)
    BY <1>2, <1>3, KidOfOR
  <2>2. BoundOK(prob, q, node[q])
    BY <1>3, <2>1 DEF BoundsFit
  <2> QED  BY <2>1, <2>2 DEF BoundOK
<1>7. Product(g) \in Known
  <2>1. g \in [K \ {c} -> Known] /\ IsFiniteSet(K \ {c})
    BY <1>4, <1>6, FS_Subset
  <2> HIDE DEF g
  <2> QED  BY <2>1, ProductKnown
<1>8. Contribution(n, j) = Times(Times(node[a].label, node[a].subSolved), Product(g))
  BY DEF Contribution, a, c, Kids, KidsIn
<1>9. Contribution(n, j) \in Known
  <2> HIDE DEF g
  <2>1. Times(node[a].label, node[a].subSolved) \in Known
    BY <1>5, TimesLaws
  <2> QED  BY <1>7, <1>8, <2>1, TimesLaws
<1> QED  BY <1>2, <1>4, <1>5, <1>6, <1>7, <1>8, <1>9 DEF a, c

(* The bound that canBePruned has at level l, from that at the level below. *)
LEMMA BoundAbove ==
  ASSUME NEW O, SearchInv(O), CostInv(O), InSync(O), NEW n \in Live,
         NEW l \in 1 .. Len(n) + 1
  PROVE  /\ PSTBound(n, l) \in Known
         /\ l > OrLevel(n) => PSTBound(n, l) = node[n].heur
         /\ l <= OrLevel(n) /\ l % 2 = 1 => PSTBound(n, l) = PSTBound(n, l + 1)
         /\ l <= OrLevel(n) /\ l % 2 = 0 =>
              PSTBound(n, l) = Times(Contribution(n, l), PSTBound(n, l + 1))
<1> DEFINE A == AndLevels(n, l)
           B == AndLevels(n, l + 1)
           f == [j \in A |-> Contribution(n, j)]
           h == node[n].heur
<1>1. Len(n) \in Nat /\ OrLevel(n) \in Nat
  <2>1. Len(n) \in Nat /\ Len(n) >= 1
    BY ParentPath DEF SearchInv, Tree, IsNodePath
  <2>2. OrLevel(n) = Len(n) \/ OrLevel(n) = Len(n) - 1
    BY DEF OrLevel
  <2> QED  BY <2>1, <2>2
<1>2. h \in Known
  BY DEF InSync, BoundsFit, BoundOK
<1>3. f \in [A -> Known] /\ f \in [A -> Cost] /\ IsFiniteSet(A)
  <2>1. ASSUME NEW j \in A PROVE Contribution(n, j) \in Known
    <3>1. j \in 1 .. OrLevel(n) /\ j % 2 = 0
      BY <1>1 DEF AndLevels
    <3> QED  BY <3>1, WhatIsAdded
  <2>2. IsFiniteSet(A)
    <3>1. A \subseteq 1 .. OrLevel(n)
      BY <1>1 DEF AndLevels
    <3>2. IsFiniteSet(1 .. OrLevel(n))
      BY <1>1, FS_Interval
    <3> QED  BY <3>1, <3>2, FS_Subset
  <2> QED  BY <2>1, <2>2, TimesLaws
<1>4. PSTBound(n, l) = Times(h, Product(f)) /\ Product(f) \in Known
  <2>1. Product(f) \in Known
    <3> HIDE DEF f, A
    <3> QED  BY <1>3, ProductKnown
  <2> QED  BY <2>1 DEF PSTBound
<1>5. PSTBound(n, l) \in Known
  <2> HIDE DEF f, h
  <2> QED  BY <1>2, <1>4, TimesLaws
<1>6. ASSUME l > OrLevel(n) PROVE PSTBound(n, l) = h
  <2>1. A = {}
    BY <1>1, <1>6 DEF AndLevels
  <2>2. Product(f) = ELEM_ONE
    <3>1. Part(f, A) = f /\ Product(Part(f, {})) = ELEM_ONE
      <4> HIDE DEF f, A
      <4> QED  BY <1>3, ProductSplit
    <3> QED  BY <2>1, <3>1
  <2> HIDE DEF f, h
  <2> QED  BY <1>2, <1>4, <2>2, TimesLaws
<1>7. ASSUME l <= OrLevel(n), l % 2 = 1 PROVE PSTBound(n, l) = PSTBound(n, l + 1)
  <2>1. A = B
    BY <1>1, <1>7 DEF AndLevels
  <2> QED  BY <2>1 DEF PSTBound
<1>8. ASSUME l <= OrLevel(n), l % 2 = 0
      PROVE  PSTBound(n, l) = Times(Contribution(n, l), PSTBound(n, l + 1))
  <2>1. l \in A /\ B = A \ {l}
    BY <1>1, <1>8 DEF AndLevels
  <2>2. Part(f, B) = [j \in B |-> Contribution(n, j)] /\ f[l] = Contribution(n, l)
    BY <2>1 DEF Part
  <2>3. PSTBound(n, l + 1) = Times(h, Product(Part(f, B)))
    BY <2>2 DEF PSTBound
  <2> HIDE DEF f, h, A, B
  <2>4. Product(f) = Times(f[l], Product(Part(f, B))) /\ Product(Part(f, B)) \in Cost
    <3>1. /\ Part(f, A) = f
          /\ \A s \in SUBSET A : /\ Product(Part(f, s)) \in Cost
                                 /\ \A x \in s : Product(Part(f, s)) = Times(f[x], Product(Part(f, s \ {x})))
      BY <1>3, ProductSplit
    <3>2. A \in SUBSET A /\ B \in SUBSET A
      BY <2>1
    <3> QED  BY <2>1, <3>1, <3>2
  <2>5. f[l] \in Cost
    BY <1>3, <2>1
  <2>6. Times(h, Times(f[l], Product(Part(f, B)))) = Times(f[l], Times(h, Product(Part(f, B))))
    <3>1. PICK a, b, c : a = h /\ b = f[l] /\ c = Product(Part(f, B))
      OBVIOUS
    <3>2. a \in Cost /\ b \in Cost /\ c \in Cost
      BY <1>2, <2>4, <2>5, <3>1, TimesLaws
    <3>3. Times(a, Times(b, c)) = Times(b, Times(a, c))
      BY <3>2, TimesLaws
    <3> QED  BY <3>1, <3>3
  <2> QED  BY <1>4, <2>2, <2>3, <2>4, <2>6
<1> QED  BY <1>5, <1>6, <1>7, <1>8

(* The bound at level l is at least what the optimum at that level gives.  *)
Bounded(n, l) ==
  LET a == Prefix(n, l)
  IN  ~Greater(IF IsOR(a) THEN Exact(prob, a) ELSE Times(Exact(prob, a), node[a].label),
               PSTBound(n, l))

(* The bound of a node covers the optimum of its own subproblem ...        *)
LEMMA BoundedHere ==
  ASSUME NEW O, SearchInv(O), CostInv(O), InSync(O), NEW n \in Live
  PROVE  Len(n) \in 1 .. Len(n) /\ Bounded(n, Len(n))
<1>1. Len(n) \in Nat /\ Len(n) >= 1
  BY ParentPath DEF SearchInv, Tree, IsNodePath
<1>2. Len(n) \in 1 .. Len(n) /\ Len(n) + 1 \in 1 .. Len(n) + 1 /\ Len(n) \in 1 .. Len(n) + 1
  BY <1>1
<1>3. /\ Prefix(n, Len(n)) = n
      /\ IsOR(n) => OrLevel(n) = Len(n) /\ Len(n) % 2 = 1
      /\ IsAND(n) => OrLevel(n) = Len(n) - 1
  BY <1>2, Levels
<1>4. IsAND(n) <=> ~IsOR(n)
  BY NodeVariable DEF SearchInv, Tree
<1>5. PSTBound(n, Len(n)) = node[n].heur
  <2>1. CASE IsOR(n)
    BY <1>1, <1>2, <1>3, <2>1, BoundAbove
  <2>2. CASE IsAND(n)
    BY <1>1, <1>2, <1>3, <2>2, BoundAbove
  <2> QED  BY <1>4, <2>1, <2>2
<1>6. BoundOK(prob, n, node[n])
  BY DEF InSync, BoundsFit
<1> QED  BY <1>2, <1>3, <1>5, <1>6 DEF BoundOK, Bounded

(* ... and so is the bound one level up: at an OR node if the child that   *)
(* lies on the way gives it its optimum, ...                               *)
LEMMA BoundedUpOR ==
  ASSUME NEW O, SearchInv(O), CostInv(O), InSync(O), NEW n \in Live,
         NEW l \in 1 .. Len(n), l < Len(n), l % 2 = 1, Bounded(n, l + 1),
         LET c == Prefix(n, l + 1)
         IN  Times(Exact(prob, c), LabelOn(prob, c)) = Exact(prob, Prefix(n, l))
  PROVE  Bounded(n, l)
<1> DEFINE c == Prefix(n, l + 1)
<1>1. Len(n) \in Nat /\ l + 1 \in 1 .. Len(n) /\ (l + 1) % 2 = 0 /\ l \in 1 .. Len(n) + 1
      /\ (IsAND(n) \/ IsOR(n))
  <2>1. Len(n) \in Nat /\ (IsAND(n) \/ IsOR(n))
    BY NodeVariable, ParentPath DEF SearchInv, Tree, IsNodePath
  <2> QED  BY <2>1
<1>2. /\ c \in Live /\ ~IsOR(c) /\ IsOR(Prefix(n, l)) /\ l <= OrLevel(n)
  <2>1. c \in Live /\ ~IsOR(c) /\ IsOR(Prefix(n, l))
    BY <1>1, Levels
  <2>2. OrLevel(n) = Len(n) \/ OrLevel(n) = Len(n) - 1
    BY DEF OrLevel
  <2> QED  BY <1>1, <2>1, <2>2
<1>3. PSTBound(n, l) = PSTBound(n, l + 1)
  BY <1>1, <1>2, BoundAbove
<1>4. node[c].label = LabelOn(prob, c)
  BY <1>2 DEF CostInv, NodesFit, NodeOK
<1> QED  BY <1>2, <1>3, <1>4 DEF Bounded

(* The factors of a bound, in the order in which canBePruned takes them.   *)
LEMMA FactorOrder ==
  ASSUME NEW s \in Known, NEW up \in Known, NEW d \in Known, NEW b \in Known
  PROVE  /\ Times(s, Times(up, d)) \in Known
         /\ Times(Times(s, Times(up, d)), b) = Times(Times(Times(b, s), d), up)
<1>1. \A x \in Known : \A y \in Known : Times(x, y) \in Known /\ x \in Cost
  BY TimesLaws
<1>2. PICK t, u : t = Times(up, d) /\ u = Times(s, t)
  OBVIOUS
<1>3. t \in Known /\ u \in Known /\ \A x \in {s, up, d, b, t, u} : x \in Cost
  <2>1. t \in Known
    BY <1>1, <1>2
  <2>2. u \in Known
    BY <1>1, <1>2, <2>1
  <2> QED  BY <1>1, <2>1, <2>2
<1>4. \A x \in Cost : \A y \in Cost : \A z \in Cost :
         Times(x, Times(y, z)) = Times(Times(x, y), z) /\ Times(x, y) = Times(y, x)
  BY TimesLaws
<1>5. Times(u, b) = Times(b, u) /\ t = Times(d, up)
  BY <1>2, <1>3, <1>4
<1>6. Times(b, Times(s, t)) = Times(Times(b, s), t)
  BY <1>3, <1>4
<1>7. Times(b, s) \in Cost
  BY <1>1
<1>8. Times(Times(b, s), Times(d, up)) = Times(Times(Times(b, s), d), up)
  BY <1>3, <1>4, <1>7
<1> QED  BY <1>2, <1>3, <1>5, <1>6, <1>8

(* ... and at an AND node whose solved children have kept their optima.    *)
LEMMA BoundedUpAND ==
  ASSUME NEW O, SearchInv(O), CostInv(O), InSync(O), NEW n \in Live,
         NEW l \in 1 .. Len(n), l < Len(n), l % 2 = 0, Bounded(n, l + 1),
         NEW a, a = Prefix(n, l), NEW K, K = KidsIn(Live, a),
         node[a].subSolved = Below(prob, a, ChildSet(Var(a)) \ KidVars(K))
  PROVE  Bounded(n, l)
<1> DEFINE c == Prefix(n, l + 1)
           s == node[a].subSolved
           b == node[a].label
           up == PSTBound(n, l + 1)
           e == [q \in K \ {c} |-> node[q].heur]
           g == [q \in K |-> IF q = c THEN up ELSE node[q].heur]
<1>1. /\ Len(n) \in Nat /\ l + 1 \in 1 .. Len(n) /\ (l + 1) % 2 = 1
      /\ l \in 1 .. Len(n) + 1 /\ l + 1 \in 1 .. Len(n) + 1
  <2>1. Len(n) \in Nat
    BY ParentPath DEF SearchInv, Tree, IsNodePath
  <2> QED  BY <2>1
<1>2. l \in 1 .. OrLevel(n)
  <2>1. OrLevel(n) = Len(n) \/ OrLevel(n) = Len(n) - 1
    BY DEF OrLevel
  <2> QED  BY <1>1, <2>1
<1>3. /\ a \in Live /\ IsAND(a) /\ ~IsOR(a) /\ c \in K
      /\ IsSearchPath(a) /\ KidPaths(a, K) /\ IsFiniteSet(K)
      /\ b \in Known /\ s \in Known
      /\ \A q \in K : q \in Live /\ IsOR(q) /\ node[q].heur \in Known
                      /\ ~Greater(Exact(prob, q), node[q].heur)
      /\ Product(e) \in Known
      /\ Contribution(n, l) = Times(Times(b, s), Product(e))
  BY <1>2, WhatIsAdded
<1>4. up \in Known /\ PSTBound(n, l) = Times(Times(Times(b, s), Product(e)), up)
  <2>1. l <= OrLevel(n)
    BY <1>2
  <2>2. PSTBound(n, l) = Times(Contribution(n, l), up) /\ up \in Known
    BY <1>1, <2>1, BoundAbove
  <2> QED  BY <1>3, <2>2
<1>5. ~Greater(Exact(prob, c), up)
  BY <1>3 DEF Bounded
<1> HIDE DEF c, s, b, up
<1>6. g \in [K -> Known] /\ \A q \in K : ~Greater(Exact(prob, q), g[q])
  BY <1>3, <1>4, <1>5
<1>7. prob \in Problems /\ s = Below(prob, a, ChildSet(Var(a)) \ KidVars(K))
  BY DEF CostInv, s
<1>8. Product(g) = Times(up, Product(e))
  <2>1. Part(g, K \ {c}) = e /\ g[c] = up
    BY <1>3 DEF Part
  <2> HIDE DEF g, e
  <2>2. g \in [K -> Cost]
    BY <1>6, TimesLaws
  <2>3. /\ Part(g, K) = g
        /\ \A t \in SUBSET K : \A x \in t : Product(Part(g, t)) = Times(g[x], Product(Part(g, t \ {x})))
    BY <1>3, <2>2, ProductSplit
  <2>4. K \in SUBSET K
    OBVIOUS
  <2> QED  BY <1>3, <2>1, <2>3, <2>4
<1>9. ~Greater(Exact(prob, a), Times(s, Product(g))) /\ Exact(prob, a) \in Known
  <2> HIDE DEF g
  <2> QED  BY <1>3, <1>6, <1>7, BoundAtAND, OptimumOfOR
<1> HIDE DEF g, e
<1>10. ~Greater(Times(Exact(prob, a), b), PSTBound(n, l))
  <2>1. PICK w, d : w = Exact(prob, a) /\ d = Product(e)
    OBVIOUS
  <2>2. w \in Known /\ d \in Known /\ ~Greater(w, Times(s, Times(up, d))) /\ ~Greater(b, b)
    <3>1. w \in Known /\ d \in Known /\ ~Greater(w, Times(s, Times(up, d)))
      BY <1>3, <1>8, <1>9, <2>1
    <3>2. ~Greater(b, b)
      BY <1>3, TimesLaws, CostOrder
    <3> QED  BY <3>1, <3>2
  <2>3. Times(s, Times(up, d)) \in Known
    BY <1>3, <1>4, <2>2, FactorOrder
  <2>4. ~Greater(Times(w, b), Times(Times(s, Times(up, d)), b))
    BY <1>3, <2>2, <2>3, TimesBelow, TimesLaws
  <2>5. Times(Times(s, Times(up, d)), b) = Times(Times(Times(b, s), d), up)
    BY <1>3, <1>4, <2>2, FactorOrder
  <2> QED  BY <1>4, <2>1, <2>4, <2>5
<1> QED  BY <1>3, <1>10 DEF Bounded, b

-----------------------------------------------------------------------------
(* The optimum at p can still be put together: there is none, p is open,   *)
(* p has it for its value, or it follows from children of p that are in T. *)
Kept(O, T, p) ==
  \/ Exact(prob, p) = ELEM_ZERO
  \/ p \in O
  \/ node[p].value = Exact(prob, p) /\ (IsOR(p) \/ KidsIn(Live, p) = {})
  \/ /\ IsOR(p)
     /\ \E k \in KidsIn(Live, p) \cap T :
          Times(Exact(prob, k), LabelOn(prob, k)) = Exact(prob, p)
  \/ /\ IsAND(p) /\ KidsIn(Live, p) # {} /\ KidsIn(Live, p) \subseteq T
     /\ node[p].subSolved = Below(prob, p, ChildSet(Var(p)) \ KidVars(KidsIn(Live, p)))

(* ... which is so for all of T.  It holds the OR nodes not marked; what   *)
(* propagate is about to erase has its optimum.                            *)
Keeping(O, T) ==
  /\ \A p \in T : Kept(O, T, p)
  /\ \A p \in Live : IsOR(p) /\ ~node[p].notOpt => p \in T
  /\ Climbing /\ reg.high # NULL /\ reg.high \in T => node[reg.high].value = Exact(prob, reg.high)

NotLost(O) == \E T \in SUBSET Live : Keeping(O, T)

(* A leaf that has no solution, or has its optimum, keeps all others.      *)
LEMMA LeafSolved ==
  ASSUME NEW O, SearchInv(O), CostInv(O), InSync(O), phase = "next", NEW n \in O, NotLost(O),
         ProcessCacheHit(n) \/ ProcessPrune(n) \/ ProcessLeafAND(n),
         Exact(prob, n) = ELEM_ZERO \/ node'[n].value = Exact(prob, n)
  PROVE  NotLost(O \ {n})'
<1>1. /\ n \in Live /\ Live' = Live /\ prob' = prob /\ reg'.high = NULL
      /\ \A q \in Live : Frozen(q, node[q], node'[q])
      /\ \A q \in Live : q # n => node'[q].value = node[q].value
      /\ \A q \in Live : node[q].notOpt => node'[q].notOpt
  BY LeafEffect
<1>2. KidsIn(Live, n) = {}
  BY OpenNode DEF Frontier
<1>3. PICK T \in SUBSET Live : Keeping(O, T)
  BY DEF NotLost
<1>4. ASSUME NEW p \in T PROVE Kept(O \ {n}, T, p)'
  <2>1. p \in Live /\ (IsAND(p) <=> ~IsOR(p)) /\ Kept(O, T, p)
    BY <1>3, NodeVariable DEF CostInv, NodesFit, IsSearchPath, Keeping
  <2>2. CASE p = n
    BY <1>1, <1>2, <2>2 DEF Kept
  <2>3. CASE p # n
    <3>1. node'[p].value = node[p].value /\ (IsAND(p) => node'[p].subSolved = node[p].subSolved)
      BY <1>1, <2>1, <2>3 DEF Frozen
    <3> QED  BY <1>1, <2>1, <2>3, <3>1 DEF Kept
  <2> QED  BY <2>2, <2>3
<1>5. Keeping(O \ {n}, T)'
  BY <1>1, <1>3, <1>4 DEF Keeping
<1> QED  BY <1>1, <1>5 DEF NotLost

(* canBePruned allows n to be pruned at one of its ancestors: the marks go *)
(* to all the nodes between them whose optimum is lost.                    *)
LEMMA PruneNotLost ==
  ASSUME NEW O, SearchInv(O), CostInv(O), InSync(O), phase = "next", NEW n \in O, NotLost(O),
         ProcessPrune(n)
  PROVE  NotLost(O \ {n})'
<1>1. /\ n \in Live /\ Live' = Live /\ prob' = prob /\ reg'.high = NULL
      /\ \A q \in Live : Frozen(q, node[q], node'[q])
      /\ \A q \in Live : q # n => node'[q].value = node[q].value
      /\ \A q \in Live : node[q].notOpt => node'[q].notOpt
  BY LeafEffect
<1>2. /\ \A q \in Live : q \in MarkedNotOpt(n) => node'[q].notOpt
      /\ node'[n].value = IF IsAND(n) \/ ISNAN(node[n].value) THEN ELEM_ZERO ELSE node[n].value
  BY PruneEffect
<1>3. /\ KidsIn(Live, n) = {} /\ BoundOK(prob, n, node[n]) /\ AndNodes(O) /\ NodesFit
      /\ IsNodePath(n) /\ (IsAND(n) <=> ~IsOR(n)) /\ prob \in Problems
  BY <1>1, OpenNode, NodeVariable DEF Frontier, InSync, BoundsFit, CostInv
<1>4. CASE node[n].heur = ELEM_ZERO
  <2>1. Exact(prob, n) = ELEM_ZERO
    <3>1. CASE IsOR(n)
      <4>1. Exact(prob, n) \in Known
        BY <1>1, <1>3, <3>1, ContextOfOR DEF NodesFit
      <4> QED  BY <1>3, <1>4, <3>1, <4>1, CostOrder DEF BoundOK
    <3>2. CASE IsAND(n)
      <4>1. /\ Exact(prob, n) \in Known /\ LabelOn(prob, n) \in Known
            /\ node[n].label = LabelOn(prob, n) /\ node[n].label # ELEM_ZERO
        BY <1>1, <1>3, <3>2, OptimumOfOR, ContextOfAND DEF NodesFit, NodeOK, AndNodes
      <4>2. ~Greater(Times(Exact(prob, n), LabelOn(prob, n)), ELEM_ZERO)
        BY <1>3, <1>4, <3>2, <4>1 DEF BoundOK
      <4>3. Times(Exact(prob, n), LabelOn(prob, n)) \in Known
        BY <4>1, TimesLaws
      <4>4. Times(Exact(prob, n), LabelOn(prob, n)) = ELEM_ZERO
        BY <4>2, <4>3, CostOrder
      <4> QED  BY <4>1, <4>4, CostOrder
    <3> QED  BY <1>3, <3>1, <3>2
  <2> QED  BY <2>1, LeafSolved
<1>5. CASE node[n].heur # ELEM_ZERO
  <2> DEFINE deep(l) == \A k \in PrunePoints(n) : l > k
             D == {Prefix(n, l) : l \in {l \in 1 .. Len(n) :
                     deep(l) /\ \A j \in l .. Len(n) : Bounded(n, j)}}
  <2>1. PICK T \in SUBSET Live : Keeping(O, T)
    BY DEF NotLost
  <2>2. PICK S : S = T \ D
    OBVIOUS
  <2>3. /\ Len(n) \in Nat /\ Len(n) >= 1 /\ OrLevel(n) \in Nat /\ OrLevel(n) <= Len(n)
        /\ IsOR(n) => OrLevel(n) = Len(n)
        /\ IsAND(n) => OrLevel(n) = Len(n) - 1 /\ Len(n) % 2 = 0
        /\ Bounded(n, Len(n))
    <3>1. Len(n) \in Nat /\ Len(n) \in 1 .. Len(n) /\ Bounded(n, Len(n))
      BY <1>1, <1>3, BoundedHere, NodeVariable
    <3>2. OrLevel(n) = (IF IsOR(n) THEN Len(n) ELSE Len(n) - 1)
      BY DEF OrLevel
    <3> QED  BY <1>3, <3>1, <3>2 DEF IsAND
  <2>4. ASSUME NEW k \in PrunePoints(n), Bounded(n, k)
        PROVE  LET a == Prefix(n, k)
               IN  node[a].value = Exact(prob, a) /\ node'[a].value = Exact(prob, a)
    <3> DEFINE a == Prefix(n, k)
    <3>1. k \in 1 .. OrLevel(n) /\ k % 2 = 1 /\ GapClosed(PSTBound(n, k), node[a].value)
      BY DEF PrunePoints
    <3>2. k \in 1 .. Len(n) /\ k \in 1 .. Len(n) + 1
      BY <2>3, <3>1
    <3>3. a \in Live /\ IsOR(a) /\ ~IsAND(a)
      BY <1>1, <3>1, <3>2, Levels
    <3>4. PSTBound(n, k) \in Known /\ ~Greater(Exact(prob, a), PSTBound(n, k))
      <4>1. PSTBound(n, k) \in Known
        BY <1>1, <3>2, BoundAbove
      <4> QED  BY <2>4, <3>3, <4>1 DEF Bounded
    <3>5. /\ node[a].value \in Cost /\ ~Greater(node[a].value, Exact(prob, a))
          /\ Exact(prob, a) \in Known
      <4>1. Exact(prob, a) \in Known
        BY <1>3, <3>3, ContextOfOR DEF NodesFit
      <4>2. NodeOK(prob, a, node[a])
        BY <1>3, <3>3 DEF NodesFit
      <4> QED  BY <3>3, <4>1, <4>2 DEF NodeOK, ValueAtOR
    <3> HIDE DEF a
    <3>6. node[a].value \in Known /\ ~Greater(PSTBound(n, k), node[a].value)
      BY <3>1, <3>4, <3>5, CostOrder DEF a
    <3>7. ~Greater(Exact(prob, a), node[a].value)
      <4>1. PICK x, y, z : x = Exact(prob, a) /\ y = PSTBound(n, k) /\ z = node[a].value
        OBVIOUS
      <4>2. x \in Cost /\ y \in Known /\ z \in Known /\ ~Greater(x, y) /\ ~Greater(y, z)
        BY <3>4, <3>5, <3>6, <4>1, TimesLaws
      <4> QED  BY <4>1, <4>2, AtMostTransitive
    <3>8. node[a].value = Exact(prob, a)
      BY <3>5, <3>6, <3>7, CostOrder
    <3>9. node'[a].value = node[a].value
      BY <1>1, <1>2, <3>3, <3>6, CostOrder DEF ISNAN
    <3> QED  BY <3>8, <3>9 DEF a
  <2>5. ASSUME NEW l \in 1 .. Len(n), Prefix(n, l) \notin D, \A j \in l .. Len(n) : Bounded(n, j),
               \A k \in PrunePoints(n) : l + 1 > k \/ l = Len(n)
        PROVE  l \in PrunePoints(n)
    <3>1. PICK k \in PrunePoints(n) : ~(l > k)
      BY <2>5
    <3>2. k \in 1 .. OrLevel(n)
      BY DEF PrunePoints
    <3>3. k = l
      BY <2>3, <2>5, <3>1, <3>2
    <3> QED  BY <3>3
  <2>6. ASSUME NEW p \in Live, NEW k \in KidsIn(Live, p), k \in D
        PROVE  \E l \in 1 .. Len(n) :
                 /\ l < Len(n) /\ p = Prefix(n, l) /\ k = Prefix(n, l + 1) /\ Len(p) = l
                 /\ deep(l + 1) /\ \A j \in l + 1 .. Len(n) : Bounded(n, j)
    <3>1. PICK m \in 1 .. Len(n) : /\ k = Prefix(n, m) /\ deep(m)
                                  /\ \A j \in m .. Len(n) : Bounded(n, j)
      BY <2>6
    <3>2. Len(k) = Len(p) + 1 /\ Parent(k) = p /\ Len(p) \in Nat /\ Len(p) >= 1 /\ k \in Path
      BY ParentPath DEF SearchInv, Tree, IsNodePath, KidsIn
    <3>3. Len(k) = m
      BY <1>1, <3>1, Levels
    <3>4. PICK l : l = Len(p)
      OBVIOUS
    <3>5. l \in 1 .. Len(n) /\ l < Len(n) /\ m = l + 1 /\ l \in 0 .. m /\ m \in 0 .. Len(n)
      BY <2>3, <3>2, <3>3, <3>4
    <3>6. p = Prefix(n, l)
      <4>1. Parent(k) = Prefix(k, Len(k) - 1)
        <5>1. Len(k) >= 1
          BY <2>3, <3>1, <3>3
        <5> QED  BY <3>2, <5>1, ParentPath
      <4>2. p = Prefix(k, l)
        <5>1. Len(k) - 1 = l
          BY <3>3, <3>5
        <5> QED  BY <3>2, <4>1, <5>1
      <4>3. n \in Path
        BY <1>3 DEF IsNodePath
      <4>4. Prefix(k, l) = Prefix(n, l)
        BY <3>1, <3>5, <4>3, PrefixPath
      <4> QED  BY <4>2, <4>4
    <3> HIDE DEF deep
    <3> QED  BY <3>1, <3>4, <3>5, <3>6
  <2>7. ASSUME NEW p \in S PROVE Kept(O \ {n}, S, p)'
    <3>1. /\ p \in Live /\ p \in T /\ p \notin D /\ (IsAND(p) <=> ~IsOR(p))
          /\ Kept(O, T, p)
      BY <2>1, <2>2, NodeVariable DEF CostInv, NodesFit, IsSearchPath, Keeping
    <3>2. ASSUME NEW l \in 1 .. Len(n), p = Prefix(n, l), Bounded(n, l),
                 \A j \in l + 1 .. Len(n) : Bounded(n, j), l = Len(n) \/ deep(l + 1)
          PROVE  node'[p].value = Exact(prob, p) /\ l % 2 = 1
      <4>1. \A j \in l .. Len(n) : Bounded(n, j)
        <5>1. \A j \in l .. Len(n) : j = l \/ j \in l + 1 .. Len(n)
          BY <2>3
        <5> QED  BY <3>2, <5>1
      <4>2. l \in PrunePoints(n)
        <5> HIDE DEF D
        <5> QED  BY <2>5, <3>1, <3>2, <4>1
      <4> QED  BY <2>4, <3>2, <4>2 DEF PrunePoints
    <3> HIDE DEF D, deep
    <3>3. CASE p = n
      <4>1. Prefix(n, Len(n)) = n /\ Len(n) \in 1 .. Len(n) /\ \A j : j \notin Len(n) + 1 .. Len(n)
        BY <1>1, <2>3, Levels
      <4>2. node'[n].value = Exact(prob, n)
        BY <2>3, <3>2, <3>3, <4>1
      <4> QED  BY <1>1, <1>3, <3>3, <4>2 DEF Kept
    <3>4. CASE p # n
      <4>1. node'[p].value = node[p].value /\ (IsAND(p) => node'[p].subSolved = node[p].subSolved)
        BY <1>1, <3>1, <3>4 DEF Frozen
      <4>2. CASE \/ Exact(prob, p) = ELEM_ZERO
                 \/ p \in O
                 \/ node[p].value = Exact(prob, p) /\ (IsOR(p) \/ KidsIn(Live, p) = {})
        BY <1>1, <3>4, <4>1, <4>2 DEF Kept
      <4>3. CASE /\ IsOR(p)
                 /\ \E k \in KidsIn(Live, p) \cap T :
                      Times(Exact(prob, k), LabelOn(prob, k)) = Exact(prob, p)
        <5>1. PICK k \in KidsIn(Live, p) \cap T :
                     Times(Exact(prob, k), LabelOn(prob, k)) = Exact(prob, p)
          BY <4>3
        <5>2. CASE k \in S
          BY <1>1, <4>3, <5>1, <5>2 DEF Kept
        <5>3. CASE k \in D
          <6>1. PICK l \in 1 .. Len(n) :
                 /\ l < Len(n) /\ p = Prefix(n, l) /\ k = Prefix(n, l + 1) /\ Len(p) = l
                 /\ deep(l + 1) /\ \A j \in l + 1 .. Len(n) : Bounded(n, j)
            BY <2>6, <3>1, <5>1, <5>3
          <6>2. l % 2 = 1 /\ l + 1 \in l + 1 .. Len(n)
            BY <2>3, <4>3, <6>1 DEF IsOR
          <6>3. Bounded(n, l)
            BY <1>1, <5>1, <6>1, <6>2, BoundedUpOR
          <6>4. node'[p].value = Exact(prob, p)
            BY <3>2, <6>1, <6>3
          <6> QED  BY <1>1, <4>3, <6>4 DEF Kept
        <5> QED  BY <2>2, <5>1, <5>2, <5>3
      <4>4. CASE /\ IsAND(p) /\ KidsIn(Live, p) # {} /\ KidsIn(Live, p) \subseteq T
                 /\ node[p].subSolved = Below(prob, p, ChildSet(Var(p)) \ KidVars(KidsIn(Live, p)))
        <5>1. CASE KidsIn(Live, p) \subseteq S
          BY <1>1, <4>1, <4>4, <5>1 DEF Kept
        <5>2. CASE ~(KidsIn(Live, p) \subseteq S)
          <6>0. PICK k \in KidsIn(Live, p) : k \in D
            BY <2>2, <4>4, <5>2
          <6>1. PICK l \in 1 .. Len(n) :
                 /\ l < Len(n) /\ p = Prefix(n, l) /\ k = Prefix(n, l + 1) /\ Len(p) = l
                 /\ deep(l + 1) /\ \A j \in l + 1 .. Len(n) : Bounded(n, j)
            BY <2>6, <3>1, <6>0
          <6>2. l % 2 = 0 /\ l + 1 \in l + 1 .. Len(n)
            BY <2>3, <4>4, <6>1 DEF IsAND
          <6>3. Bounded(n, l)
            BY <1>1, <4>4, <6>1, <6>2, BoundedUpAND
          <6>4. l % 2 = 1
            BY <3>2, <6>1, <6>3
          <6> QED  BY <6>2, <6>4
        <5> QED  BY <5>1, <5>2
      <4> QED  BY <3>1, <4>2, <4>3, <4>4 DEF Kept
    <3> QED  BY <3>3, <3>4
  <2>8. ASSUME NEW p \in Live, IsOR(p), ~node'[p].notOpt PROVE p \in S
    <3>1. p \in T /\ p \notin MarkedNotOpt(n)
      BY <1>1, <1>2, <2>1, <2>8 DEF Keeping
    <3>2. SUFFICES ASSUME p \in D PROVE FALSE
      BY <2>2, <3>1
    <3>3. PICK l \in 1 .. Len(n) : p = Prefix(n, l) /\ deep(l)
      BY <3>2
    <3>4. Len(p) = l
      BY <1>1, <3>3, Levels
    <3>5. l % 2 = 1
      BY <2>8, <3>4 DEF IsOR
    <3>6. l \in 1 .. OrLevel(n)
      BY <1>3, <2>3, <3>5
    <3> QED  BY <1>5, <3>1, <3>3, <3>5, <3>6 DEF MarkedNotOpt
  <2> HIDE DEF D
  <2>9. Keeping(O \ {n}, S)'
    BY <1>1, <2>7, <2>8 DEF Keeping
  <2> QED  BY <1>1, <2>2, <2>9 DEF NotLost
<1> QED  BY <1>4, <1>5

-----------------------------------------------------------------------------
(* What is known of a live node.                                           *)
LEMMA LiveNode ==
  ASSUME NEW O, CostInv(O), NEW p \in Live
  PROVE  /\ prob \in Problems /\ IsSearchPath(p) /\ IsNodePath(p) /\ (IsAND(p) <=> ~IsOR(p))
         /\ node[p].value \in Cost /\ Exact(prob, p) \in Known
         /\ ~Greater(node[p].value, Exact(prob, p))
         /\ IsAND(p) => node[p].label = LabelOn(prob, p)
         /\ KidPaths(p, KidsIn(Live, p))
<1>1. /\ prob \in Problems /\ IsSearchPath(p) /\ IsNodePath(p) /\ (IsAND(p) <=> ~IsOR(p))
      /\ NodeOK(prob, p, node[p])
  BY NodeVariable DEF CostInv, NodesFit, IsSearchPath
<1>2. Exact(prob, p) \in Known
  <2>1. CASE IsOR(p)
    BY <1>1, <2>1, ContextOfOR
  <2>2. CASE IsAND(p)
    BY <1>1, <2>2, OptimumOfOR
  <2> QED  BY <1>1, <2>1, <2>2
<1>3. KidPaths(p, KidsIn(Live, p))
  BY DEF KidPaths, KidsIn, CostInv, NodesFit
<1>4. /\ node[p].value \in Cost /\ ~Greater(node[p].value, Exact(prob, p))
      /\ IsAND(p) => node[p].label = LabelOn(prob, p)
  BY <1>1 DEF NodeOK
<1> QED  BY <1>1, <1>2, <1>3, <1>4

(* One kid left, whose optimum is known: the node's optimum is known, too. *)
LEMMA ExactFromKid ==
  ASSUME NEW O, CostInv(O), InSync(O), NEW p \in Live, NEW T \in SUBSET Live,
         NEW k, KidsIn(Live, p) = {k}, k \in T => node[k].value = Exact(prob, k),
         node[k].value # ELEM_NAN, ~Waiting(p), Kept(O, T, p), p \notin O
  PROVE  node[p].value = Exact(prob, p)
<1>1. /\ prob \in Problems /\ IsSearchPath(p) /\ (IsAND(p) <=> ~IsOR(p))
      /\ node[p].value \in Cost /\ Exact(prob, p) \in Known
      /\ ~Greater(node[p].value, Exact(prob, p)) /\ KidPaths(p, {k})
  BY LiveNode
<1>2. k \in Live /\ (IsOR(p) => IsAND(k)) /\ (IsAND(k) => node[k].label = LabelOn(prob, k))
  <2>1. k \in Live /\ (IsOR(p) => IsAND(k))
    BY KidOfOR DEF CostInv
  <2> QED  BY <2>1, LiveNode
<1>3. /\ IsAND(p) => node[p].value = Times(node[p].subSolved, node[k].value)
      /\ IsOR(p) => ~Greater(Times(node[k].value, node[k].label), node[p].value)
      /\ node[p].value \in Known /\ node[k].value \in Known
  BY <1>2, ValueOfOnlyKid
<1>4. CASE Exact(prob, p) = ELEM_ZERO
  BY <1>1, <1>3, <1>4, CostOrder
<1>5. CASE IsOR(p) /\ \E q \in KidsIn(Live, p) \cap T :
                        Times(Exact(prob, q), LabelOn(prob, q)) = Exact(prob, p)
  <2>1. k \in T /\ Times(Exact(prob, k), LabelOn(prob, k)) = Exact(prob, p)
    BY <1>5
  <2>2. ~Greater(Exact(prob, p), node[p].value)
    BY <1>2, <1>3, <1>5, <2>1
  <2> QED  BY <1>1, <1>3, <2>2, CostOrder
<1>6. CASE /\ IsAND(p) /\ KidsIn(Live, p) # {} /\ KidsIn(Live, p) \subseteq T
           /\ node[p].subSolved = Below(prob, p, ChildSet(Var(p)) \ KidVars(KidsIn(Live, p)))
  <2> DEFINE C == ChildSet(Var(p))
  <2>1. /\ Below(prob, p, C \ KidVars({k} \ {k})) = Times(Exact(prob, k), Below(prob, p, C \ KidVars({k})))
        /\ Below(prob, p, C \ KidVars({k})) \in Known /\ Exact(prob, k) \in Known
    BY <1>1, <1>6, ChildLeft
  <2>2. C \ KidVars({k} \ {k}) = C
    BY DEF KidVars
  <2>3. Exact(prob, p) = Below(prob, p, C)
    BY <1>1, <1>6, OptimumOfOR
  <2> HIDE DEF C
  <2>4. node[p].value = Times(Below(prob, p, C \ KidVars({k})), Exact(prob, k))
    BY <1>3, <1>6 DEF C
  <2>5. PICK a, b : a = Below(prob, p, C \ KidVars({k})) /\ b = Exact(prob, k)
    OBVIOUS
  <2>6. Times(a, b) = Times(b, a)
    BY <2>1, <2>5, TimesLaws
  <2> QED  BY <2>1, <2>2, <2>3, <2>4, <2>5, <2>6
<1> QED  BY <1>4, <1>5, <1>6 DEF Kept

(* A node that is closed has its optimum, unless that was given up.        *)
LEMMA PrevClosed ==
  ASSUME NEW O, SearchInv(O), CostInv(O), InSync(O), phase = "climb", Len(cur) > 0, closes,
         NEW T \in SUBSET Live, Keeping(O, T), reg.prev \in T
  PROVE  node[reg.prev].value = Exact(prob, reg.prev)
<1>1. /\ reg.prev \in Live \ O /\ Kept(O, T, reg.prev)
      /\ \/ KidsIn(Live, reg.prev) = {}
         \/ reg.high # NULL /\ reg.high \in Live /\ KidsIn(Live, reg.prev) = {reg.high}
  BY OnlyKid DEF Keeping
<1>2. node[reg.prev].value # ELEM_NAN
  BY ClosedHasValue
<1>3. ~Waiting(reg.prev)
  <2>1. Len(reg.prev) = Len(cur) + 1 /\ Len(cur) \in Nat
    BY ClimbingNode
  <2>2. reg.prev # cur
    BY <2>1
  <2> QED  BY <2>2 DEF Waiting
<1>4. CASE KidsIn(Live, reg.prev) = {}
  <2>1. /\ node[reg.prev].value \in Cost /\ Exact(prob, reg.prev) \in Known
        /\ ~Greater(node[reg.prev].value, Exact(prob, reg.prev))
    BY <1>1, LiveNode
  <2>2. Exact(prob, reg.prev) = ELEM_ZERO \/ node[reg.prev].value = Exact(prob, reg.prev)
    BY <1>1, <1>4 DEF Kept
  <2> QED  BY <1>2, <2>1, <2>2, CostOrder
<1>5. CASE reg.high # NULL /\ reg.high \in Live /\ KidsIn(Live, reg.prev) = {reg.high}
  <2>1. /\ node[reg.high].value # ELEM_NAN
        /\ reg.high \in T => node[reg.high].value = Exact(prob, reg.high)
    BY <1>5 DEF Keeping, Climbing, InSync, Settled
  <2> QED  BY <1>1, <1>3, <1>5, <2>1, ExactFromKid
<1> QED  BY <1>1, <1>4, <1>5

(* One iteration of propagate loses no optimum.                            *)
LEMMA ClimbNotLost ==
  ASSUME NEW O, SearchInv(O), CostInv(O), InSync(O), phase = "climb", Len(cur) > 0, NotLost(O),
         NEW prop \in BOOLEAN, NEW v \in Cost, ClimbAt(v, prop),
         IsOR(cur) => v = node[cur].value \/ Greater(v, node[cur].value) \/ node[cur].value = ELEM_NAN,
         IsOR(cur) => ~Greater(v, Exact(prob, cur))
  PROVE  NotLost(O)'
<1>1. PICK T \in SUBSET Live : Keeping(O, T)
  BY DEF NotLost
<1>2. /\ \A q \in Live : q # cur => node'[q] = node[q]
      /\ node'[cur].value = v
      /\ \A q \in Live : Frozen(q, node[q], node'[q]) /\ (node'[q].notOpt <=> node[q].notOpt)
      /\ Live' = Live /\ prob' = prob
      /\ reg'.high = (IF closes THEN reg.prev ELSE reg.high)
      /\ phase' = (IF prop \/ closes THEN "climb" ELSE "finish")
      /\ reg.prev \in Live /\ cur \in Live /\ reg.prev \in KidsIn(Live, cur) /\ cur # reg.prev
  BY DEF ClimbAt
<1>3. ASSUME NEW p \in T PROVE Kept(O, T, p)'
  <2>1. p \in Live /\ Kept(O, T, p) /\ (IsAND(p) <=> ~IsOR(p))
    BY <1>1, LiveNode DEF Keeping
  <2>2. IsAND(p) => node'[p].subSolved = node[p].subSolved
    BY <1>2, <2>1 DEF Frozen
  <2>3. node[p].value = Exact(prob, p) /\ (IsOR(p) \/ KidsIn(Live, p) = {}) =>
          node'[p].value = node[p].value
    <3> SUFFICES ASSUME node[p].value = Exact(prob, p), IsOR(p) \/ KidsIn(Live, p) = {}
                 PROVE  node'[p].value = node[p].value
      OBVIOUS
    <3>1. CASE p # cur
      BY <1>2, <2>1, <3>1
    <3>2. CASE p = cur
      <4>1. IsOR(cur) /\ Exact(prob, cur) \in Known
        BY <1>2, <3>2, LiveNode
      <4> QED  BY <1>2, <3>2, <4>1, CostOrder
    <3> QED  BY <3>1, <3>2
  <2> QED  BY <1>2, <2>1, <2>2, <2>3 DEF Kept
<1>4. Climbing' /\ reg'.high # NULL /\ reg'.high \in T
        => node'[reg'.high].value = Exact(prob, reg'.high)
  <2> SUFFICES ASSUME Climbing', reg'.high # NULL, reg'.high \in T
               PROVE  node'[reg'.high].value = Exact(prob, reg'.high)
    OBVIOUS
  <2>1. CASE closes
    BY <1>1, <1>2, <2>1, PrevClosed
  <2>2. CASE ~closes
    <3>1. reg'.high = reg.high /\ node[reg.high].value = Exact(prob, reg.high)
      BY <1>1, <1>2, <2>2 DEF Keeping, Climbing
    <3>2. Len(reg.prev) = Len(cur) + 1 /\ Len(cur) \in Nat /\ Len(reg.prev) < Len(reg.high)
      BY <3>1, ClimbingNode DEF InSync, Settled
    <3>3. reg.high # cur
      <4>1. PICK a, b, c : a = Len(reg.prev) /\ b = Len(cur) /\ c = Len(reg.high)
        OBVIOUS
      <4>2. a = b + 1 /\ b \in Nat /\ a < c
        BY <3>2, <4>1
      <4>3. b # c
        BY ONLY <4>2
      <4> QED  BY <4>1, <4>3
    <3> QED  BY <1>1, <1>2, <3>1, <3>3
  <2> QED  BY <2>1, <2>2
<1>5. \A p \in Live : IsOR(p) /\ ~node'[p].notOpt => p \in T
  BY <1>1, <1>2 DEF Keeping
<1>6. Keeping(O, T)'
  BY <1>1, <1>2, <1>3, <1>4, <1>5 DEF Keeping
<1> QED  BY <1>1, <1>2, <1>6 DEF NotLost

(* The child erased is not the last one of an AND node.                    *)
LEMMA SiblingStays ==
  ASSUME NEW O, SearchInv(O), CostInv(O), InSync(O), PropagateFinish, reg.high # NULL,
         NEW par, FinishAt(reg.high, par), par = Parent(reg.high), IsAND(par)
  PROVE  \E q \in KidsIn(Live, par) : q # reg.high
<1>1. /\ Climbing /\ Closing(Live, O, reg.leaf, reg.prev, reg.high, reg.del)
      /\ phase = "finish" => ~reg.del
      /\ phase = "finish" \/ reg.prev = RootNode
  BY DEF PropagateFinish, SearchInv, Pointers, Climbing, AtRoot
<1>2. CASE ~reg.del
  BY <1>1, <1>2 DEF Closing
<1>3. CASE reg.del
  <2>1. reg.high \in KidsIn(Live, RootNode)
    BY <1>1, <1>3 DEF Closing
  <2>2. par = RootNode
    BY <2>1 DEF KidsIn
  <2>3. ~IsAND(RootNode)
    BY DEF IsAND, RootNode
  <2> QED  BY <2>2, <2>3
<1> QED  BY <1>2, <1>3

(* Closing a child moves its optimum into its parent.                      *)
LEMMA FinishNotLost ==
  ASSUME NEW O, SearchInv(O), CostInv(O), InSync(O), PropagateFinish, NotLost(O)
  PROVE  NotLost(O)'
<1>1. /\ prob' = prob /\ phase' = "next" /\ Climbing
      /\ \A p \in Live : ~Waiting(p)
      /\ reg.high = NULL => node' = node
      /\ reg.high # NULL => FinishAt(reg.high, Parent(reg.high))
  BY FinishEffect DEF PropagateFinish, Climbing
<1>2. PICK T \in SUBSET Live : Keeping(O, T)
  BY DEF NotLost
<1>3. CASE reg.high = NULL
  <2>1. Live' = Live /\ node' = node
    BY <1>1, <1>3 DEF Live
  <2>2. Keeping(O, T)'
    BY <1>1, <1>2, <2>1 DEF Keeping, Kept, Climbing
  <2> QED  BY <2>1, <2>2 DEF NotLost
<1>4. CASE reg.high # NULL
  <2> DEFINE high == reg.high
             par  == Parent(high)
  <2>9. PICK S : S = T \cap Live'
    OBVIOUS
  <2>0. high \in T => node[high].value = Exact(prob, high)
    BY <1>1, <1>2, <1>4 DEF Keeping
  <2>1. FinishAt(high, par)
    BY <1>1, <1>4
  <2> HIDE DEF par
  <2>2. /\ high \in KidsIn(Live, par) /\ high \in Live /\ par \in Live /\ Live' \subseteq Live
        /\ node[high].value \in Known
        /\ \A p \in Live' : p # par => KidsIn(Live', p) = KidsIn(Live, p)
        /\ KidsIn(Live', par) = KidsIn(Live, par) \ {high}
        /\ \A q \in Live' : /\ node'[q].value = node[q].value /\ node'[q].notOpt = node[q].notOpt
                            /\ IsOR(q) \/ q # par => node'[q] = node[q]
        /\ IsAND(par) => node'[par].subSolved = Times(node[par].subSolved, node[high].value)
    BY <2>1 DEF FinishAt
  <2>3. ASSUME NEW p \in S PROVE Kept(O, S, p)'
    <3>1. p \in Live' /\ p \in Live /\ Kept(O, T, p) /\ (IsAND(p) <=> ~IsOR(p))
      BY <1>2, <2>2, <2>9, LiveNode DEF Keeping
    <3>2. \A k \in KidsIn(Live', p) : k \in Live'
      BY DEF KidsIn
    <3>3. CASE p # par
      <4>1. KidsIn(Live', p) = KidsIn(Live, p) /\ node'[p] = node[p]
        BY <2>2, <3>1, <3>3
      <4>2. KidsIn(Live, p) \cap T = KidsIn(Live', p) \cap S
        BY <2>9, <3>2, <4>1
      <4>3. KidsIn(Live, p) \subseteq T => KidsIn(Live', p) \subseteq S
        BY <2>9, <3>2, <4>1
      <4> QED  BY <1>1, <3>1, <4>1, <4>2, <4>3 DEF Kept
    <3>4. CASE p = par /\ IsOR(par)
      <4>1. node'[p] = node[p]
        BY <2>2, <3>1, <3>4
      <4>2. CASE high \in T /\ Times(Exact(prob, high), LabelOn(prob, high)) = Exact(prob, p)
        <5>1. IsAND(high) /\ node[high].label = LabelOn(prob, high)
          <6>1. IsAND(high)
            BY <2>2, <3>4, KidOfOR DEF CostInv
          <6> QED  BY <2>2, <6>1, LiveNode
        <5>2. SyncOR /\ node[high].value # ELEM_NAN
          BY <2>2, CostOrder DEF InSync
        <5>3. node[p].value # ELEM_NAN /\ ~Greater(Times(node[high].value, node[high].label), node[p].value)
          BY <1>1, <2>2, <3>1, <3>4, <5>2 DEF SyncOR
        <5>4. ~Greater(Exact(prob, p), node[p].value)
          BY <2>0, <4>2, <5>1, <5>3
        <5>5. /\ node[p].value \in Cost /\ Exact(prob, p) \in Known
              /\ ~Greater(node[p].value, Exact(prob, p))
          BY <3>1, LiveNode
        <5>6. node[p].value = Exact(prob, p)
          BY <5>3, <5>4, <5>5, CostOrder
        <5> QED  BY <1>1, <3>4, <4>1, <5>6 DEF Kept
      <4>3. ASSUME NEW k \in KidsIn(Live, p) \cap T, k # high,
                   Times(Exact(prob, k), LabelOn(prob, k)) = Exact(prob, p)
            PROVE  Kept(O, S, p)'
        <5>1. k \in KidsIn(Live', p) \cap S
          BY <2>2, <2>9, <3>2, <3>4, <4>3
        <5> QED  BY <1>1, <3>4, <4>3, <5>1 DEF Kept
      <4>4. CASE \/ Exact(prob, p) = ELEM_ZERO
                 \/ p \in O
                 \/ node[p].value = Exact(prob, p)
        BY <1>1, <3>4, <4>1, <4>4 DEF Kept
      <4> HIDE DEF high
      <4> QED  BY <3>1, <3>4, <4>2, <4>3, <4>4 DEF Kept
    <3>5. CASE p = par /\ IsAND(par)
      <4> DEFINE K == KidsIn(Live, par)
                 C == ChildSet(Var(par))
      <4>1. CASE \/ Exact(prob, p) = ELEM_ZERO
                 \/ p \in O
        BY <1>1, <4>1 DEF Kept
      <4>2. CASE K \subseteq T /\ node[p].subSolved = Below(prob, p, C \ KidVars(K))
        <5>1. prob \in Problems /\ IsSearchPath(par) /\ KidPaths(par, K) /\ high \in K
          BY <2>2, LiveNode
        <5>2. /\ Below(prob, par, C \ KidVars(K \ {high})) = Times(Exact(prob, high), Below(prob, par, C \ KidVars(K)))
              /\ Below(prob, par, C \ KidVars(K)) \in Known /\ Exact(prob, high) \in Known
          <6> HIDE DEF K, high
          <6> QED  BY <3>5, <5>1, ChildLeft
        <5>3. node'[p].subSolved = Times(Below(prob, p, C \ KidVars(K)), Exact(prob, high))
          BY <2>0, <2>2, <3>5, <4>2
        <5>4. node'[p].subSolved = Below(prob, p, C \ KidVars(K \ {high}))
          <6>1. PICK a, b : a = Below(prob, par, C \ KidVars(K)) /\ b = Exact(prob, high)
            OBVIOUS
          <6>2. Times(a, b) = Times(b, a)
            BY <5>2, <6>1, TimesLaws
          <6> QED  BY <3>5, <5>2, <5>3, <6>1, <6>2
        <5>5. KidsIn(Live', p) = K \ {high} /\ KidsIn(Live', p) \subseteq S
          BY <2>2, <2>9, <3>2, <3>5, <4>2
        <5>6. K \ {high} # {}
          <6>1. \E q \in KidsIn(Live, par) : q # high
            BY <1>4, <2>1, <3>5, SiblingStays DEF par
          <6> QED  BY <6>1
        <5> HIDE DEF K, high
        <5> QED  BY <1>1, <3>5, <5>4, <5>5, <5>6 DEF Kept
      <4>3. KidsIn(Live, p) # {}
        BY <2>2, <3>5
      <4> HIDE DEF high
      <4> QED  BY <3>1, <3>5, <4>1, <4>2, <4>3 DEF Kept
    <3> QED  BY <3>1, <3>3, <3>4, <3>5
  <2>4. \A p \in Live' : IsOR(p) /\ ~node'[p].notOpt => p \in S
    BY <1>2, <2>2, <2>9 DEF Keeping
  <2>5. S \in SUBSET Live' /\ ~Climbing'
    BY <1>1, <2>9 DEF Climbing
  <2>6. Keeping(O, S)'
    BY <2>3, <2>4, <2>5 DEF Keeping
  <2> QED  BY <2>5, <2>6 DEF NotLost
<1> QED  BY <1>3, <1>4

(* A node gets children: its optimum is that of its children.              *)
LEMMA GrowNotLost ==
  ASSUME NEW O, SearchInv(O), CostInv(O), InSync(O), phase = "next", NEW n \in O, NotLost(O),
         NEW K, K \cap Live = {}, K # {}, Live' = Live \cup K,
         prob' = prob, phase' = "next",
         \A q \in Live : /\ Frozen(q, node[q], node'[q])
                         /\ node'[q].value = node[q].value
                         /\ node[q].notOpt => node'[q].notOpt,
         \A q \in K : IsSearchPath(q) /\ Len(q) = Len(n) + 1 /\ Parent(q) = n,
         IsAND(n) => KidVars(K) = ChildSet(Var(n)),
         IsOR(n) => \A v \in Values(Var(n)) :
                      LabelOn(prob, Append(n, v)) # ELEM_ZERO => Append(n, v) \in K
  PROVE  NotLost((O \ {n}) \cup K)'
<1>1. PICK T \in SUBSET Live : Keeping(O, T)
  BY DEF NotLost
<1>2. PICK B : B = (O \ {n}) \cup K
  OBVIOUS
<1>3. PICK S : S = T \cup K
  OBVIOUS
<1>4. /\ n \in Live /\ Tree(Live) /\ KidsIn(Live, n) = {} /\ prob \in Problems
      /\ IsSearchPath(n) /\ (IsAND(n) <=> ~IsOR(n))
  BY OpenNode, LiveNode DEF Frontier, SearchInv
<1>5. /\ KidsIn(Live', n) = K
      /\ \A p \in Live : p # n => KidsIn(Live', p) = KidsIn(Live, p)
  <2>1. \A p \in K : p \notin Live /\ p # n /\ KidsIn(Live, p) = {}
    BY <1>4, NoKidsYet DEF IsSearchPath
  <2> QED  BY <1>4, <2>1 DEF KidsIn
<1>6. ASSUME NEW p \in S PROVE Kept(B, S, p)'
  <2>1. CASE p \in K
    BY <1>2, <2>1 DEF Kept
  <2>2. CASE p \in T /\ p # n
    <3>1. p \in Live /\ Kept(O, T, p) /\ (IsAND(p) <=> ~IsOR(p))
      BY <1>1, <2>2, LiveNode DEF Keeping
    <3>2. /\ node'[p].value = node[p].value /\ KidsIn(Live', p) = KidsIn(Live, p)
          /\ IsAND(p) => node'[p].subSolved = node[p].subSolved
      BY <1>5, <2>2, <3>1 DEF Frozen
    <3>3. T \subseteq S /\ (p \in O => p \in B)
      BY <1>2, <1>3, <2>2
    <3> QED  BY <3>1, <3>2, <3>3 DEF Kept
  <2>3. CASE p = n /\ IsOR(n)
    <3>1. CASE Exact(prob, n) = ELEM_ZERO
      BY <2>3, <3>1 DEF Kept
    <3>2. CASE Exact(prob, n) # ELEM_ZERO
      <4>1. PICK v \in Values(Var(n)) :
               Times(Exact(prob, Append(n, v)), LabelOn(prob, Append(n, v))) = Exact(prob, n)
        BY <1>4, <2>3, <3>2, OptimumAttained
      <4>2. Exact(prob, Append(n, v)) \in Known
        BY <1>4, <2>3, ChildOfOR, OptimumOfOR
      <4>3. LabelOn(prob, Append(n, v)) # ELEM_ZERO
        BY <3>2, <4>1, <4>2, CostOrder
      <4>4. Append(n, v) \in KidsIn(Live', n) \cap S
        BY <1>3, <1>5, <2>3, <4>3
      <4> QED  BY <2>3, <4>1, <4>4 DEF Kept
    <3> QED  BY <3>1, <3>2
  <2>4. CASE p = n /\ IsAND(n)
    <3>1. node'[n].subSolved = ELEM_ONE
      <4>1. node[n].subSolved = ELEM_ONE
        BY <1>4, <2>4 DEF CostInv, RestsFit
      <4> QED  BY <1>4, <2>4, <4>1 DEF Frozen
    <3>2. ChildSet(Var(n)) \ KidVars(K) = {}
      BY <2>4
    <3>3. Below(prob, n, {}) = ELEM_ONE
      BY BelowNothing
    <3>4. KidsIn(Live', n) = K /\ K # {} /\ K \subseteq S
      BY <1>3, <1>5
    <3> QED  BY <2>4, <3>1, <3>2, <3>3, <3>4 DEF Kept
  <2> QED  BY <1>3, <1>4, <2>1, <2>2, <2>3, <2>4
<1>7. \A p \in Live' : IsOR(p) /\ ~node'[p].notOpt => p \in S
  BY <1>1, <1>3 DEF Keeping
<1>8. S \in SUBSET Live' /\ ~Climbing'
  BY <1>3 DEF Climbing
<1>9. Keeping(B, S)'
  BY <1>6, <1>7, <1>8 DEF Keeping
<1>10. NotLost(B)'
  BY <1>8, <1>9 DEF NotLost
<1> QED  BY <1>2, <1>10

-----------------------------------------------------------------------------
(* Problem holds no better cost than the root; when only the root is left, *)
(* it holds the value of the root.                                         *)
CurOK(O) ==
  /\ curCost # ELEM_NAN =>
       node[RootNode].value # ELEM_NAN /\ ~Greater(curCost, node[RootNode].value)
  /\ phase \in {"next", "done"} /\ RootNode \notin O /\ Live = {RootNode} =>
       curCost = node[RootNode].value

(* A step that leaves the value of the root, and more nodes than the root  *)
(* or propagate at work.                                                   *)
LEMMA CurKept ==
  ASSUME NEW O, NEW B, CurOK(O), curCost' = curCost,
         node'[RootNode].value = node[RootNode].value,
         phase' \notin {"next", "done"} \/ Live' # {RootNode}
  PROVE  CurOK(B)'
BY DEF CurOK

(* The root gets better values only.                                       *)
LEMMA CurClimb ==
  ASSUME NEW O, SearchInv(O), CostInv(O), InSync(O), CurOK(O),
         NEW prop \in BOOLEAN, NEW v \in Cost, ClimbAt(v, prop),
         IsOR(cur) => v = node[cur].value \/ Greater(v, node[cur].value) \/ node[cur].value = ELEM_NAN
  PROVE  CurOK(O)'
<1>1. /\ \A q \in Live : q # cur => node'[q] = node[q]
      /\ node'[cur].value = v /\ curCost' = curCost /\ phase' \in {"climb", "finish"}
  BY DEF ClimbAt
<1>2. RootNode \in Live /\ node[RootNode].value \in Cost /\ curCost \in Cost
  <2>1. RootNode \in Live
    BY DEF InSync, RootKept
  <2> QED  BY <2>1, LiveNode DEF CostInv
<1>3. CASE cur # RootNode \/ v = node[RootNode].value
  <2>1. node'[RootNode].value = node[RootNode].value
    BY <1>1, <1>2, <1>3
  <2> QED  BY <1>1, <2>1, CurKept
<1>4. CASE cur = RootNode /\ v # node[RootNode].value /\ curCost # ELEM_NAN
  <2>1. curCost \in Known /\ node[RootNode].value \in Known /\ ~Greater(curCost, node[RootNode].value)
    BY <1>2, <1>4, CostOrder DEF CurOK
  <2>2. Greater(v, node[RootNode].value)
    <3>1. IsOR(RootNode)
      BY RootPath
    <3> QED  BY <1>4, <2>1, <3>1, CostOrder
  <2>3. v \in Known /\ ~Greater(node[RootNode].value, v)
    BY <1>2, <2>2, CostOrder
  <2>4. PICK a, b : a = curCost /\ b = node[RootNode].value
    OBVIOUS
  <2>5. ~Greater(a, v)
    BY <1>2, <2>1, <2>3, <2>4, AtMostTransitive
  <2>6. node'[RootNode].value # ELEM_NAN /\ ~Greater(curCost', node'[RootNode].value)
    BY <1>1, <1>4, <2>3, <2>4, <2>5, CostOrder
  <2> QED  BY <1>1, <2>6 DEF CurOK
<1>5. CASE curCost = ELEM_NAN
  BY <1>1, <1>5 DEF CurOK
<1> QED  BY <1>3, <1>4, <1>5

(* Past the root, Problem is told its value; below it, another child of    *)
(* the parent is left.                                                     *)
LEMMA CurFinish ==
  ASSUME NEW O, SearchInv(O), CostInv(O), InSync(O), CurOK(O), PropagateFinish
  PROVE  CurOK(O)'
<1>1. /\ phase' = "next" /\ Climbing
      /\ phase = "finish" => ~reg.del
      /\ Closing(Live, O, reg.leaf, reg.prev, reg.high, reg.del)
      /\ phase = "finish" \/ AtRoot
  BY FinishEffect DEF PropagateFinish, SearchInv, Pointers, Climbing
<1>2. /\ curCost' = IF AtRoot THEN UpdateSolution(node[RootNode].value) ELSE curCost
      /\ reg.high = NULL => node' = node
      /\ reg.high # NULL => FinishAt(reg.high, Parent(reg.high))
  BY FinishEffect
<1>3. RootNode \in Live /\ node[RootNode].value \in Cost /\ curCost \in Cost
  <2>1. RootNode \in Live
    BY DEF InSync, RootKept
  <2> QED  BY <2>1, LiveNode DEF CostInv
<1>4. node'[RootNode].value = node[RootNode].value
  BY <1>2 DEF FinishAt
<1>5. CASE AtRoot
  <2>1. curCost' = node[RootNode].value
    <3>1. curCost' = UpdateSolution(node[RootNode].value)
      BY <1>2, <1>5
    <3>2. CASE node[RootNode].value = ELEM_NAN
      BY <3>1, <3>2 DEF CurOK, UpdateSolution, ISNAN
    <3>3. CASE node[RootNode].value # ELEM_NAN
      <4>1. ~Greater(curCost, node[RootNode].value)
        BY <1>3, CostOrder DEF CurOK
      <4> QED  BY <3>1, <3>3, <4>1 DEF UpdateSolution, ISNAN
    <3> QED  BY <3>2, <3>3
  <2>2. ~Greater(curCost', node'[RootNode].value)
    BY <1>3, <1>4, <2>1, NeverGreater
  <2> QED  BY <1>4, <2>1, <2>2 DEF CurOK
<1>6. CASE ~AtRoot
  <2>1. reg.high # NULL /\ \E q \in KidsIn(Live, Parent(reg.high)) : q # reg.high
    BY <1>1, <1>6 DEF Closing
  <2>2. FinishAt(reg.high, Parent(reg.high))
    BY <1>2, <2>1
  <2>3. PICK q \in KidsIn(Live', Parent(reg.high)) : TRUE
    BY <2>1, <2>2 DEF FinishAt
  <2>4. q \in Live' /\ q \in Live /\ Parent(reg.high) \in Live /\ Len(q) = Len(Parent(reg.high)) + 1
    BY <2>2, <2>3 DEF FinishAt, KidsIn
  <2>5. Len(Parent(reg.high)) \in Nat /\ Len(Parent(reg.high)) >= 1 /\ Len(RootNode) = 1
    BY <2>4, ParentPath DEF SearchInv, Tree, IsNodePath, RootNode
  <2>6. q # RootNode
    <3>1. PICK l : l = Len(Parent(reg.high))
      OBVIOUS
    <3>2. Len(q) = l + 1 /\ l \in Nat /\ l >= 1
      BY <2>4, <2>5, <3>1
    <3>3. Len(q) # 1
      BY ONLY <3>2
    <3> QED  BY <2>5, <3>3
  <2>7. Live' # {RootNode} /\ curCost' = curCost
    BY <1>2, <1>6, <2>4, <2>6
  <2> QED  BY <1>4, <2>7, CurKept
<1> QED  BY <1>5, <1>6

-----------------------------------------------------------------------------
(* The tables hold the optimum of every node that may look it up.          *)
Same == {r \in Cost \X Cost : r[1] = r[2]}

CacheExact(O) == CacheHolds(Same, prob, cache, Live \ O)

(* Handling a node leaves the tables exact, as far as they are not reset.  *)
LEMMA HandledExact ==
  ASSUME NEW O, CacheExact(O), NEW n, IsNodePath(n), NEW B,
         Live' \ B \in SUBSET ((Live \ O) \cup {n}),
         prob' = prob, cache' = CacheAt(n)
  PROVE  CacheExact(B)'
<1>1. CacheHolds(Same, prob, CacheAt(n), (Live \ O) \cup {n})
  BY ResetSound DEF CacheExact
<1>2. CacheHolds(Same, prob, CacheAt(n), Live' \ B)
  BY <1>1, FewerActive
<1> QED  BY <1>2 DEF CacheExact

(* ... and so does a step that writes nothing. *)
LEMMA UnwrittenExact ==
  ASSUME NEW O, CacheExact(O), NEW B, Live' \ B \in SUBSET (Live \ O),
         prob' = prob, cache' = cache
  PROVE  CacheExact(B)'
<1>1. CacheHolds(Same, prob, cache, Live' \ B)
  BY FewerActive DEF CacheExact
<1> QED  BY <1>1 DEF CacheExact

(* What is found in the cache is the optimum.                              *)
LEMMA HitIsExact ==
  ASSUME NEW O, SearchInv(O), CostInv(O), CacheExact(O), phase = "next", NEW n \in O,
         Agrees(assignment, Parent(n)), ProcessCacheHit(n)
  PROVE  /\ IsOR(n) /\ node'[n].value = ExactOR(prob, n) /\ node'[n].value = Exact(prob, n)
         /\ node'[n].value # ELEM_NAN
<1> DEFINE x == Var(n)
           c == CacheContext(n)
<1>1. n \in Live /\ IsNodePath(n) /\ IsSearchPath(n) /\ x \in Vars
  BY OpenNode, NodeVariable DEF CostInv, NodesFit
<1>2. IsOR(n) /\ c \in DOMAIN cache[x] /\ node'[n].value = cache[x][c]
  BY LeafEffect DEF ProcessCacheHit, CacheHit, LooksUp
<1>3. c = PathRestriction(n, CacheCtx(x))
  BY <1>1, <1>2, LooksUpOwnContext
<1>4. ResetIn(Live \ O, n, x)
  BY <1>1, HandledAbove
<1> HIDE DEF x, c
<1>5. <<cache[x][c], ExactOR(prob, n)>> \in Same
  BY <1>1, <1>2, <1>3, <1>4, Zenon DEF CacheExact, CacheHolds, x
<1>6. cache[x][c] = ExactOR(prob, n)
  BY <1>5 DEF Same
<1>7. Exact(prob, n) = ExactOR(prob, n) /\ Exact(prob, n) \in Known
  BY <1>1, <1>2, LiveNode DEF Exact
<1> QED  BY <1>2, <1>6, <1>7, CostOrder

(* What is written to the cache is the optimum.                            *)
LEMMA WriteIsExact ==
  ASSUME NEW O, SearchInv(O), CostInv(O), InSync(O), NotLost(O), phase = "climb", IsAND(cur),
         CacheWrite(reg.prev) # cache
  PROVE  /\ IsOR(reg.prev) /\ node[reg.prev].cachable
         /\ node[reg.prev].value = ExactOR(prob, reg.prev)
<1>1. closes /\ node[reg.prev].cachable /\ ~node[reg.prev].notOpt
  BY DEF CacheWrite
<1>2. reg.prev \in Live /\ cur \in Live /\ reg.prev \in KidsIn(Live, cur) /\ Len(cur) > 0
  BY ClimbingNode DEF IsAND
<1>3. IsOR(reg.prev)
  BY <1>2, KidOfOR DEF CostInv
<1>4. PICK T \in SUBSET Live : Keeping(O, T)
  BY DEF NotLost
<1>5. reg.prev \in T
  BY <1>1, <1>2, <1>3, <1>4 DEF Keeping
<1>6. node[reg.prev].value = Exact(prob, reg.prev)
  BY <1>1, <1>2, <1>4, <1>5, PrevClosed
<1> QED  BY <1>1, <1>3, <1>6 DEF Exact

(* A closed child is written to the cache.                                 *)
LEMMA WrittenExact ==
  ASSUME NEW O, SearchInv(O), CostInv(O), InSync(O), NotLost(O), CacheExact(O),
         phase = "climb", IsAND(cur), OneValued(Live \ O)
  PROVE  CacheHolds(Same, prob, CacheWrite(reg.prev), Live \ O)
<1> DEFINE p == reg.prev
           A == Live \ O
           x == Var(p)
           v == node[p].value
           c == node[p].context
           new == [cache EXCEPT ![x] =
                     [k \in DOMAIN cache[x] \cup {c} |-> IF k = c THEN v ELSE cache[x][k]]]
<1>1. CacheHolds(Same, prob, cache, A)
  BY DEF CacheExact
<1>2. CASE CacheWrite(p) = cache
  BY <1>1, <1>2
<1>3. CASE CacheWrite(p) # cache
  <2>1. /\ p \in Live /\ IsSearchPath(p) /\ prob \in Problems
        /\ NodeOK(prob, p, node[p])
    BY ClimbingNode DEF IsAND, CostInv, NodesFit
  <2>2. IsOR(p) /\ node[p].cachable /\ v = ExactOR(prob, p) /\ x \in Vars
    BY <1>3, <2>1, WriteIsExact, NodeVariable DEF IsSearchPath
  <2>3. c = PathRestriction(p, CacheCtx(x)) /\ v \in Cost
    BY <2>1, <2>2 DEF NodeOK
  <2>4. ResetIn(A, p, x)
    BY <2>1, HandledAbove
  <2>5. A \subseteq Path /\ OneValued(A)
    BY DEF SearchInv, SearchTypeOK
  <2>6. Entered(cache, x, c, v, new)
    <3>1. DOMAIN cache = Vars
      BY DEF SearchInv, SearchTypeOK
    <3> HIDE DEF x, v, c
    <3> QED  BY <3>1 DEF Entered
  <2>7. CacheWrite(p) = new
    BY <1>3 DEF CacheWrite
  <2> HIDE DEF new, A, v, c, p
  <2>8. /\ <<v, ExactOR(prob, p)>> \in Same
        /\ ResetIn(A, p, Var(p)) /\ c = PathRestriction(p, CacheCtx(Var(p)))
        /\ Entered(cache, Var(p), c, v, new)
    BY <2>2, <2>3, <2>4, <2>6 DEF Same
  <2>9. CacheHolds(Same, prob, new, A)
    BY ONLY <1>1, <2>1, <2>2, <2>3, <2>5, <2>8, WriteSound
  <2> QED  BY <2>7, <2>9 DEF p, A
<1> QED  BY <1>2, <1>3

-----------------------------------------------------------------------------
(* All that makes the result the optimum.                                  *)
OptInv(O) == InSync(O) /\ NotLost(O) /\ CurOK(O) /\ CacheExact(O) /\ CacheHitsExact

(* A dead end has no solution: the bound of a child is zero.               *)
LEMMA DeadEnd ==
  ASSUME NEW O, SearchInv(O), CostInv(O), NEW n \in Live, IsAND(n),
         Agrees(assignment, Parent(n)), DeadChild(n)
  PROVE  Exact(prob, n) = ELEM_ZERO
<1> DEFINE a == AssignmentAt(n)
           C == ChildSet(Var(n))
<1>1. /\ prob \in Problems /\ IsSearchPath(n) /\ IsNodePath(n) /\ ~IsOR(n)
      /\ assignment \in [Vars -> Int] /\ DOMAIN cache = Vars
  BY LiveNode DEF SearchInv, SearchTypeOK
<1>2. Agrees(a, n) /\ a \in [Vars -> Int]
  BY <1>1, AgreesNow, AssignmentAndCache DEF SearchInv
<1>3. PICK y \in C : NewOR(y, a).heur = ELEM_ZERO
  BY DEF DeadChild
<1>4. PICK q : q = Append(n, y)
  OBVIOUS
<1>5. /\ IsSearchPath(q) /\ Len(q) = Len(n) + 1 /\ Parent(q) = n /\ Var(q) = y
      /\ IsOR(q) /\ \A z \in Ctx[y] : a[z] = PathValue(q, z)
  BY <1>1, <1>2, <1>4, ChildContext
<1>6. BoundOK(prob, q, NewOR(y, a))
  BY <1>1, <1>2, <1>5, NewORBound
<1>7. Exact(prob, q) \in Known
  BY <1>1, <1>5, ContextOfOR
<1>8. Exact(prob, q) = ELEM_ZERO
  BY <1>3, <1>5, <1>6, <1>7, CostOrder DEF BoundOK
<1>9. KidPaths(n, {q})
  BY <1>5 DEF KidPaths
<1>10. /\ Below(prob, n, C \ KidVars({q} \ {q})) = Times(Exact(prob, q), Below(prob, n, C \ KidVars({q})))
       /\ Below(prob, n, C \ KidVars({q})) \in Known
  BY <1>1, <1>9, ChildLeft
<1>11. C \ KidVars({q} \ {q}) = C
  BY DEF KidVars
<1>12. Exact(prob, n) = Below(prob, n, C)
  BY <1>1, OptimumOfOR
<1> QED  BY <1>8, <1>10, <1>11, <1>12, CostOrder

(* A leaf is looked up, pruned, or has no children to search.              *)
LEMMA OptLeaf ==
  ASSUME NEW O, SearchInv(O), CostInv(O), OptInv(O), phase = "next", NEW n \in O,
         Agrees(assignment, Parent(n)),
         ProcessCacheHit(n) \/ ProcessPrune(n) \/ ProcessLeafAND(n)
  PROVE  OptInv(O \ {n})'
<1>1. InSync(O) /\ NotLost(O) /\ CurOK(O) /\ CacheExact(O)
  BY DEF OptInv
<1>2. /\ n \in Live /\ Live' = Live /\ prob' = prob /\ curCost' = curCost
      /\ phase' = "climb" /\ reg'.leaf = n
      /\ \A q \in Live : q # n => node'[q].value = node[q].value
      /\ prob \in Problems /\ IsNodePath(n) /\ IsSearchPath(n) /\ (IsAND(n) <=> ~IsOR(n))
  BY LeafEffect, LiveNode
<1>3. CurOK(O \ {n})'
  <2>1. RootNode \in Live /\ n # RootNode
    BY <1>1, RootExpanded DEF InSync, RootKept
  <2> QED  BY <1>1, <1>2, <2>1, CurKept
<1>4. CacheExact(O \ {n})'
  <2>1. cache' = CacheAt(n)
    BY <1>2 DEF ProcessCacheHit, ProcessPrune, ProcessLeafAND, CacheHit, LooksUp, CacheAt
  <2>2. PICK B : B = O \ {n}
    OBVIOUS
  <2>3. Live' \ B \in SUBSET ((Live \ O) \cup {n})
    BY <1>2, <2>2
  <2>4. CacheExact(B)'
    BY <1>1, <1>2, <2>1, <2>3, HandledExact
  <2> QED  BY <2>2, <2>4
<1>5. CASE ProcessCacheHit(n)
  <2>1. /\ IsOR(n) /\ node'[n].value = ExactOR(prob, n) /\ node'[n].value = Exact(prob, n)
        /\ node'[n].value # ELEM_NAN
    BY <1>1, <1>5, HitIsExact
  <2>2. InSync(O \ {n})' /\ NotLost(O \ {n})'
    BY <1>1, <1>5, <2>1, LeafSync, LeafSolved
  <2>3. CacheHitsExact'
    BY <1>2, <2>1 DEF CacheHitsExact
  <2> QED  BY <1>3, <1>4, <2>2, <2>3 DEF OptInv
<1>6. CASE ProcessPrune(n)
  <2>1. /\ node'[n].pruned = TRUE
        /\ node'[n].value = IF IsAND(n) \/ ISNAN(node[n].value) THEN ELEM_ZERO ELSE node[n].value
    BY <1>6, PruneEffect
  <2>2. node'[n].value # ELEM_NAN
    BY <2>1, TimesLaws, CostOrder DEF ISNAN
  <2>3. InSync(O \ {n})' /\ NotLost(O \ {n})'
    BY <1>1, <1>6, <2>2, LeafSync, PruneNotLost
  <2>4. CacheHitsExact'
    BY <1>2, <2>1 DEF CacheHitsExact
  <2> QED  BY <1>3, <1>4, <2>3, <2>4 DEF OptInv
<1>7. CASE ProcessLeafAND(n)
  <2>1. IsAND(n) /\ node'[n].value = IF DeadChild(n) THEN ELEM_ZERO ELSE ELEM_ONE
    BY <1>7, LeafEffect
  <2>2. node'[n].value # ELEM_NAN
    BY <2>1, TimesLaws, CostOrder
  <2>3. node'[n].value = Exact(prob, n)
    <3>1. CASE DeadChild(n)
      BY <1>2, <2>1, <3>1, DeadEnd
    <3>2. CASE ~DeadChild(n)
      <4>1. ChildSet(Var(n)) = {}
        BY <1>7, <3>2 DEF ProcessLeafAND, OrChildren
      <4>2. Exact(prob, n) = Below(prob, n, {})
        BY <1>2, <2>1, <4>1, OptimumOfOR
      <4> QED  BY <2>1, <3>2, <4>2, BelowNothing
    <3> QED  BY <3>1, <3>2
  <2>4. InSync(O \ {n})' /\ NotLost(O \ {n})'
    BY <1>1, <1>7, <2>2, <2>3, LeafSync, LeafSolved
  <2>5. CacheHitsExact'
    BY <1>2, <2>1 DEF CacheHitsExact
  <2> QED  BY <1>3, <1>4, <2>4, <2>5 DEF OptInv
<1> QED  BY <1>5, <1>6, <1>7

(* A node is expanded, without propHeuristic. *)
LEMMA OptExpand ==
  ASSUME ~PropHeuristic, NEW O, SearchInv(O), CostInv(O), OptInv(O), phase = "next", NEW n \in O,
         Agrees(assignment, Parent(n)), NEW s,
         \/ s \in Seqs!SetToSeqs(OrChildren(n)) /\ ProcessExpandAND(n, s)
         \/ s \in Seqs!SetToSeqs(AndChildren(n)) /\ ProcessExpandOR(n, s)
  PROVE  OptInv((O \ {n}) \cup Elements(s))'
<1>1. InSync(O) /\ NotLost(O) /\ CurOK(O) /\ CacheExact(O) /\ BoundsFit /\ Deliver = "next"
  BY DEF OptInv, InSync, Deliver
<1>2. /\ n \in Live /\ prob \in Problems /\ IsNodePath(n) /\ IsSearchPath(n)
      /\ IsAND(n) <=> ~IsOR(n)
  BY OpenNode, LiveNode
<1>3. PICK K : K = Elements(s)
  OBVIOUS
<1>4. PICK B : B = (O \ {n}) \cup K
  OBVIOUS
<1>5. IsFiniteSet(K)
  BY <1>3, ExpandKeeps
<1>6. /\ Live' = Live \cup K /\ K \cap Live = {} /\ K # {}
      /\ prob' = prob /\ curCost' = curCost /\ phase' = "next" /\ cache' = CacheAt(n)
      /\ \A q \in Live : /\ Frozen(q, node[q], node'[q])
                         /\ node'[q].value = node[q].value
                         /\ node'[q].notOpt = node[q].notOpt
      /\ \A q \in K : /\ IsSearchPath(q) /\ Len(q) = Len(n) + 1 /\ Parent(q) = n
                      /\ node'[q].value = ELEM_NAN /\ ~node'[q].notOpt
                      /\ BoundOK(prob, q, node'[q])
                      /\ IsAND(q) => node'[q].subSolved = ELEM_ONE /\ node'[q].label # ELEM_ZERO
      /\ IsAND(n) => KidVars(K) = ChildSet(Var(n))
      /\ IsOR(n) => \A v \in Values(Var(n)) :
                      LabelOn(prob, Append(n, v)) # ELEM_ZERO => Append(n, v) \in K
  <2>1. CASE s \in Seqs!SetToSeqs(OrChildren(n)) /\ ProcessExpandAND(n, s)
    <3>1. /\ IsAND(n) /\ Live' = Live \cup K /\ K \cap Live = {} /\ K # {}
          /\ prob' = prob /\ curCost' = curCost /\ phase' = "next"
          /\ \A q \in Live : node'[q] = node[q]
          /\ \A q \in K : /\ IsSearchPath(q) /\ Len(q) = Len(n) + 1 /\ Parent(q) = n
                          /\ IsOR(q) /\ node'[q].value = ELEM_NAN /\ ~node'[q].notOpt
                          /\ BoundOK(prob, q, node'[q])
          /\ KidVars(K) = ChildSet(Var(n))
      BY <1>1, <1>3, <2>1, ExpandANDEffect
    <3>2. \A q \in K : ~IsAND(q)
      BY <3>1, NodeVariable DEF IsSearchPath
    <3>3. cache' = CacheAt(n)
      BY <2>1 DEF ProcessExpandAND
    <3>4. \A q \in Live : /\ Frozen(q, node[q], node'[q])
                          /\ node'[q].value = node[q].value
                          /\ node'[q].notOpt = node[q].notOpt
      BY <3>1 DEF Frozen
    <3> QED  BY <1>2, <3>1, <3>2, <3>3, <3>4
  <2>2. CASE s \in Seqs!SetToSeqs(AndChildren(n)) /\ ProcessExpandOR(n, s)
    <3>1. /\ IsOR(n) /\ Live' = Live \cup K /\ K \cap Live = {} /\ K # {}
          /\ prob' = prob /\ curCost' = curCost /\ phase' = "next"
          /\ \A q \in Live : q # n => node'[q] = node[q]
          /\ node'[n].heur = node[n].heur /\ node'[n].heurCache = node[n].heurCache
          /\ node'[n].value = node[n].value /\ node'[n].notOpt = node[n].notOpt
          /\ \A q \in K : /\ IsSearchPath(q) /\ Len(q) = Len(n) + 1 /\ Parent(q) = n
                          /\ IsAND(q) /\ node'[q].value = ELEM_NAN /\ ~node'[q].notOpt
                          /\ node'[q].subSolved = ELEM_ONE
                          /\ node'[q].label = LabelOn(prob, q) /\ LabelOn(prob, q) # ELEM_ZERO
                          /\ BoundOK(prob, q, node'[q])
          /\ \A v \in Values(Var(n)) :
               LabelOn(prob, Append(n, v)) # ELEM_ZERO => Append(n, v) \in K
      BY <1>1, <1>3, <2>2, ExpandOREffect
    <3>2. cache' = CacheAt(n) /\ ~IsAND(n)
      BY <1>2, <2>2 DEF ProcessExpandOR, CacheAt
    <3>3. \A q \in Live : /\ Frozen(q, node[q], node'[q])
                          /\ node'[q].value = node[q].value
                          /\ node'[q].notOpt = node[q].notOpt
      BY <3>1 DEF Frozen
    <3> QED  BY <1>2, <3>1, <3>2, <3>3
  <2> QED  BY <2>1, <2>2
<1>7. InSync(B)'
  BY <1>1, <1>4, <1>5, <1>6, GrowSync
<1>8. NotLost(B)'
  BY <1>1, <1>4, <1>6, GrowNotLost
<1>9. CurOK(B)'
  <2>1. RootNode \in Live /\ Live' # {RootNode}
    BY <1>1, <1>6 DEF InSync, RootKept
  <2> QED  BY <1>1, <1>6, <2>1, CurKept
<1>10. CacheExact(B)'
  <2>1. Live' \ B \in SUBSET ((Live \ O) \cup {n})
    BY <1>4, <1>6
  <2> QED  BY <1>1, <1>2, <1>6, <2>1, HandledExact
<1>11. OptInv(B)'
  BY <1>6, <1>7, <1>8, <1>9, <1>10 DEF OptInv, CacheHitsExact
<1> QED  BY <1>3, <1>4, <1>11

(* propagate has left the leaf. *)
LEMMA ClimbHits ==
  ASSUME NEW O, SearchInv(O), CostInv(O), phase = "climb", Len(cur) > 0,
         NEW prop \in BOOLEAN, NEW v, ClimbAt(v, prop)
  PROVE  CacheHitsExact'
<1>1. Len(reg.prev) = Len(cur) + 1 /\ Len(cur) \in Nat
  BY ClimbingNode
<1>2. Len(reg.prev) <= Len(reg.leaf)
  BY DEF SearchInv, Pointers, Climbing, Closing, Above
<1>3. reg.leaf # cur
  <2>1. PICK a, b, c : a = Len(reg.prev) /\ b = Len(cur) /\ c = Len(reg.leaf)
    OBVIOUS
  <2>2. a = b + 1 /\ b \in Nat /\ a <= c
    BY <1>1, <1>2, <2>1
  <2>3. b # c
    BY ONLY <2>2
  <2> QED  BY <2>1, <2>3
<1>4. phase' = "climb" => reg'.prev # reg'.leaf
  BY <1>3 DEF ClimbAt
<1> QED  BY <1>4 DEF CacheHitsExact

(* One iteration of propagate at an AND node; what it writes to the cache  *)
(* is looked up by nodes on other branches.                                *)
LEMMA OptClimbAND ==
  ASSUME NEW O, SearchInv(O), CostInv(O), OptInv(O), PropagateAND,
         OneValued(Live \ O)
  PROVE  OptInv(O)'
<1>1. InSync(O) /\ NotLost(O) /\ CurOK(O) /\ CacheExact(O)
  BY DEF OptInv
<1>2. PICK d \in Cost :
           /\ phase = "climb" /\ Len(cur) > 0 /\ ~IsOR(cur) /\ IsAND(cur)
           /\ ClimbAt(d, reg.prop /\ ~ISNAN(d))
  BY <1>1, ClimbAND
<1>3. PICK prop \in BOOLEAN : prop = (reg.prop /\ ~ISNAN(d))
  OBVIOUS
<1>4. ClimbAt(d, prop)
  BY <1>2, <1>3
<1>5. InSync(O)'
  BY <1>1, SyncAtAND
<1>6. NotLost(O)' /\ CurOK(O)' /\ CacheHitsExact'
  BY <1>1, <1>2, <1>4, ClimbNotLost, CurClimb, ClimbHits
<1>7. CacheExact(O)'
  <2>1. cache' = CacheWrite(reg.prev) /\ prob' = prob /\ Live' = Live
    BY <1>4 DEF PropagateAND, ClimbAt
  <2>2. CacheHolds(Same, prob, CacheWrite(reg.prev), Live \ O)
    BY <1>1, <1>2, WrittenExact
  <2> QED  BY <2>1, <2>2 DEF CacheExact
<1> QED  BY <1>5, <1>6, <1>7 DEF OptInv

(* One iteration of propagate at an OR node. *)
LEMMA OptClimbOR ==
  ASSUME NEW O, SearchInv(O), CostInv(O), OptInv(O), PropagateOR
  PROVE  OptInv(O)'
<1>1. InSync(O) /\ NotLost(O) /\ CurOK(O) /\ CacheExact(O)
  BY DEF OptInv
<1>2. PICK d \in Cost, v \in Cost, better \in BOOLEAN :
           /\ d = Times(node[reg.prev].value, node[reg.prev].label)
           /\ phase = "climb" /\ Len(cur) > 0 /\ ~IsAND(cur) /\ IsOR(cur) /\ IsAND(reg.prev)
           /\ better <=> reg.prop /\ (node[cur].value = ELEM_NAN \/ Greater(d, node[cur].value))
           /\ v = IF better THEN d ELSE node[cur].value
           /\ ClimbAt(v, better)
  BY <1>1, ClimbOR
<1>3. v = node[cur].value \/ Greater(v, node[cur].value) \/ node[cur].value = ELEM_NAN
  BY <1>2
<1>4. ~Greater(v, Exact(prob, cur))
  <2>1. /\ reg.prev \in Live /\ cur \in Live /\ IsSearchPath(reg.prev) /\ Parent(reg.prev) = cur
        /\ prob \in Problems /\ NodeOK(prob, reg.prev, node[reg.prev])
    BY <1>2, ClimbingNode DEF CostInv, NodesFit
  <2>2. ~Greater(d, Exact(prob, cur))
    BY <1>2, <2>1, ValueAtOR
  <2>3. ~Greater(node[cur].value, Exact(prob, cur))
    BY <2>1, LiveNode
  <2> QED  BY <1>2, <2>2, <2>3
<1>5. InSync(O)'
  BY <1>1, SyncAtOR
<1>6. NotLost(O)' /\ CurOK(O)' /\ CacheHitsExact'
  BY <1>1, <1>2, <1>3, <1>4, ClimbNotLost, CurClimb, ClimbHits
<1>7. CacheExact(O)'
  <2>1. cache' = cache /\ prob' = prob /\ Live' = Live
    BY <1>2 DEF PropagateOR, ClimbAt
  <2> QED  BY <1>1, <2>1, UnwrittenExact
<1> QED  BY <1>5, <1>6, <1>7 DEF OptInv

(* The end of propagate. *)
LEMMA OptFinish ==
  ASSUME NEW O, SearchInv(O), CostInv(O), OptInv(O), PropagateFinish
  PROVE  OptInv(O)'
<1>1. InSync(O) /\ NotLost(O) /\ CurOK(O) /\ CacheExact(O)
  BY DEF OptInv
<1>2. /\ prob' = prob /\ cache' = cache /\ phase' = "next"
      /\ reg.high = NULL => node' = node
      /\ reg.high # NULL => FinishAt(reg.high, Parent(reg.high))
  BY <1>1, FinishEffect
<1>3. InSync(O)' /\ NotLost(O)' /\ CurOK(O)'
  BY <1>1, FinishSync, FinishNotLost, CurFinish
<1>4. CacheExact(O)'
  <2>1. Live' \subseteq Live
    BY <1>2 DEF FinishAt, Live
  <2>2. Live' \ O \in SUBSET (Live \ O)
    BY <2>1
  <2> QED  BY <1>1, <1>2, <2>2, UnwrittenExact
<1>5. CacheHitsExact'
  BY <1>2 DEF CacheHitsExact
<1> QED  BY <1>3, <1>4, <1>5 DEF OptInv

(* Every iteration of propagate keeps the optimum and what is known of it. *)
LEMMA OptClimb ==
  ASSUME NEW O, SearchInv(O), CostInv(O), OptInv(O), Climb,
         OneValued(Live \ O)
  PROVE  OptInv(O)'
<1>1. ~(PropHeurAND \/ PropHeurOR \/ PropHeurEnd)
  BY DEF OptInv, InSync, PropHeurAND, PropHeurOR, PropHeurEnd
<1> QED  BY <1>1, OptClimbAND, OptClimbOR, OptFinish DEF Climb

(* The search is over when only the root is left: it has the optimum, and  *)
(* so does Problem.                                                        *)
LEMMA OptDone ==
  ASSUME CostInv({}), OptInv({}), Live = {RootNode}, phase \in {"next", "done"}
  PROVE  node[RootNode].value = Optimum(prob) /\ curCost = Optimum(prob)
<1>1. InSync({}) /\ NotLost({}) /\ CurOK({})
  BY DEF OptInv
<1>2. PICK T \in SUBSET Live : Keeping({}, T)
  BY <1>1 DEF NotLost
<1>3. RootNode \in Live /\ IsOR(RootNode) /\ ~IsAND(RootNode) /\ RootNode \in T
  BY <1>1, <1>2, RootPath DEF InSync, RootKept, Keeping
<1>4. KidsIn(Live, RootNode) = {}
  <2>1. ASSUME NEW q \in KidsIn(Live, RootNode) PROVE FALSE
    <3>1. q = RootNode /\ Len(q) = Len(RootNode) + 1 /\ Len(RootNode) = 1
      BY <2>1, RootPath DEF KidsIn
    <3> QED  BY <3>1
  <2> QED  BY <2>1
<1>5. Exact(prob, RootNode) = Optimum(prob)
  BY <1>3 DEF Exact, Optimum
<1>6. /\ node[RootNode].value \in Cost /\ Exact(prob, RootNode) \in Known
      /\ ~Greater(node[RootNode].value, Exact(prob, RootNode))
  BY <1>3, LiveNode
<1>7. node[RootNode].value \in Known
  <2>1. node[RootNode].value # ELEM_NAN
    BY <1>1, <1>3, <1>4 DEF InSync, Settled
  <2> QED  BY <1>6, <2>1, CostOrder
<1>8. node[RootNode].value = Exact(prob, RootNode)
  <2>1. Kept({}, T, RootNode)
    BY <1>2, <1>3 DEF Keeping
  <2>2. Exact(prob, RootNode) = ELEM_ZERO \/ node[RootNode].value = Exact(prob, RootNode)
    BY <1>3, <1>4, <2>1 DEF Kept
  <2> QED  BY <1>6, <1>7, <2>2, CostOrder
<1>9. curCost = node[RootNode].value
  BY <1>1 DEF CurOK
<1> QED  BY <1>5, <1>8, <1>9

(* A search begins with the root, open, and the bounds of its values.      *)
LEMMA OptInit == SearchInit => OptInv({RootNode})
<1> SUFFICES ASSUME SearchInit PROVE OptInv({RootNode})
  OBVIOUS
<1>1. PICK k \in prob.known : /\ curCost \in {k, ELEM_NAN}
                              /\ node = [p \in {RootNode} |->
                                           [NewOR(Root, assignment) EXCEPT !.value = k]]
  BY DEF SearchInit
<1>2. /\ prob \in Problems /\ cache = [x \in Vars |-> NoTable] /\ assignment = [x \in Vars |-> NONE]
      /\ phase = "next"
  BY DEF SearchInit
<1>3. SearchInv({RootNode}) /\ Live = {RootNode}
  BY <1>1, InitSearch DEF Live
<1>4. /\ IsSearchPath(RootNode) /\ IsOR(RootNode) /\ ~IsAND(RootNode) /\ Var(RootNode) = Root
      /\ Len(RootNode) = 1
  BY RootPath
<1>5. BoundsFit
  <2>1. assignment \in [Vars -> Int] /\ \A y \in Ctx[Root] : assignment[y] = PathValue(RootNode, y)
    BY <1>2, PseudotreeAssumption DEF NONE
  <2>2. BoundOK(prob, RootNode, [NewOR(Root, assignment) EXCEPT !.value = k])
    BY <1>2, <1>4, <2>1, NewORBound
  <2> QED  BY <1>1, <1>3, <2>2 DEF BoundsFit
<1>6. \A q : q \notin KidsIn(Live, RootNode)
  BY <1>3, <1>4 DEF KidsIn
<1>7. SyncAND /\ SyncOR /\ AndNodes({RootNode}) /\ Settled({RootNode})
  BY <1>2, <1>3, <1>4, <1>6 DEF SyncAND, SyncOR, AndNodes, Settled, Climbing
<1>8. RootKept /\ node[RootNode].value = k
  <2>1. /\ [NewOR(Root, assignment) EXCEPT !.value = k].notOpt = FALSE
        /\ [NewOR(Root, assignment) EXCEPT !.value = k].value = k
    BY DEF NewOR
  <2> QED  BY <1>1, <1>3, <2>1 DEF RootKept
<1>9. NotLost({RootNode})
  <2>1. Keeping({RootNode}, Live)
    BY <1>2, <1>3 DEF Keeping, Kept, Climbing
  <2> QED  BY <2>1 DEF NotLost
<1>10. CurOK({RootNode})
  <2>1. k \in Cost
    BY <1>2, ProblemAssumption
  <2>2. ~Greater(k, k)
    BY <2>1, CostOrder
  <2> QED  BY <1>1, <1>8, <2>2 DEF CurOK
<1>11. CacheExact({RootNode})
  <2>1. \A x \in Vars : DOMAIN cache[x] = {}
    BY <1>2 DEF NoTable
  <2> QED  BY <2>1, Zenon DEF CacheExact, CacheHolds
<1>12. CacheHitsExact
  BY <1>2 DEF CacheHitsExact
<1> QED  BY <1>2, <1>5, <1>7, <1>8, <1>9, <1>10, <1>11, <1>12 DEF OptInv, InSync

(* Nothing happens to the nodes, the tables and the costs.                 *)
LEMMA OptRest ==
  ASSUME NEW O, OptInv(O), prob' = prob, curCost' = curCost, cache' = cache,
         Live' = Live, node' = node, reg' = reg,
         phase' = phase \/ (phase = "next" /\ phase' = "done")
  PROVE  OptInv(O)'
<1>1. InSync(O) /\ NotLost(O) /\ CurOK(O) /\ CacheExact(O) /\ CacheHitsExact
  BY DEF OptInv
<1>2. InSync(O)'
  BY <1>1 DEF InSync, BoundsFit, SyncAND, SyncOR, AndNodes, Settled, RootKept,
              Waiting, cur, Climbing
<1>3. NotLost(O)'
  BY <1>1 DEF NotLost, Keeping, Kept, Climbing
<1>4. CurOK(O)'
  BY <1>1 DEF CurOK
<1>5. CacheExact(O)' /\ CacheHitsExact'
  BY <1>1 DEF CacheExact, CacheHitsExact
<1> QED  BY <1>2, <1>3, <1>4, <1>5 DEF OptInv

-----------------------------------------------------------------------------
(* What a search shows of its progress.                                    *)
Progress == <<curCost, phase = "done", Optimum(prob)>>

(* The specification of an anytime solver has the same costs.              *)
LEMMA SameCosts ==
  /\ \A a, b : Anytime!Greater(a, b) <=> Greater(a, b)
  /\ \A a : Anytime!ISNAN(a) <=> a = ELEM_NAN
  /\ Anytime!Known = Known
<1>1. Anytime!Known = Known /\ Anytime!Cost = Cost
  BY DEF Anytime!Known, Anytime!Cost, Known, Cost
<1>2. Anytime!greater = greater
  BY <1>1 DEF Anytime!greater, greater
<1>3. \A a : Anytime!ISNAN(a) <=> a = ELEM_NAN
  BY DEF Anytime!ISNAN
<1> QED  BY <1>1, <1>2, <1>3 DEF Anytime!Greater, Greater

(* A step that does not touch the cost reported, and does not end.         *)
LEMMA AnytimeRest ==
  ASSUME curCost' = curCost, prob' = prob, (phase = "done") <=> (phase' = "done")
  PROVE  UNCHANGED Progress
BY DEF Progress

(* A step of propagate improves the cost reported, or leaves it.           *)
LEMMA AnytimeClimb ==
  ASSUME NEW O, CostInv(O), OptInv(O), Climb, CostInv(O)'
  PROVE  [Anytime!Improve]_Progress
<1>1. phase \notin {"heur", "heurEnd"}
  BY DEF OptInv, InSync
<1>2. CASE PropagateFinish /\ curCost' # curCost
  <2>1. PICK c : c = node[RootNode].value
    OBVIOUS
  <2>2. /\ curCost' = c /\ c # ELEM_NAN /\ ~Greater(curCost, c)
        /\ phase # "done" /\ phase' = "next" /\ prob' = prob
    BY <1>2, <2>1 DEF PropagateFinish, UpdateSolution, ISNAN
  <2>3. curCost \in Cost /\ curCost' \in Cost /\ ~Greater(curCost', Optimum(prob)')
    BY DEF CostInv
  <2>4. c \in Known /\ (curCost = ELEM_NAN \/ Greater(c, curCost))
    <3>1. c \in Known /\ (curCost = ELEM_NAN \/ curCost \in Known)
      BY <2>2, <2>3, CostOrder
    <3> QED  BY <1>2, <2>2, <3>1, CostOrder
  <2>5. /\ (phase = "done") = FALSE /\ (phase' = "done") = FALSE
        /\ Optimum(prob)' = Optimum(prob)
    BY <2>2
  <2> QED  BY <2>2, <2>3, <2>4, <2>5, SameCosts DEF Anytime!Improve
<1>3. CASE ~(PropagateFinish /\ curCost' # curCost)
  <2>1. curCost' = curCost /\ prob' = prob /\ ((phase = "done") <=> (phase' = "done"))
    BY <1>1, <1>3 DEF Climb, PropHeurAND, PropHeurOR, PropHeurEnd,
                      PropagateAND, PropagateOR, PropagateFinish, ClimbOn
  <2> QED  BY <2>1, AnytimeRest
<1> QED  BY <1>2, <1>3

(* The search ends with nothing open: the cost reported is the optimum.    *)
LEMMA AnytimeEnd ==
  ASSUME Handled({}), CostInv({}), OptInv({}), phase = "next", phase' = "done",
         curCost' = curCost, prob' = prob
  PROVE  Anytime!Finish
<1>1. Live = {RootNode}
  BY OnlyRootLeft DEF OptInv, InSync, RootKept, Climbing
<1>2. curCost = Optimum(prob)
  BY <1>1, OptDone
<1>3. /\ (phase = "done") = FALSE /\ (phase' = "done") = TRUE
      /\ Optimum(prob)' = Optimum(prob)
  OBVIOUS
<1> QED  BY <1>2, <1>3 DEF Anytime!Finish

(* A search begins with at most the cost of a solution that is known.      *)
LEMMA AnytimeInit == SearchInit => Anytime!Init
<1> SUFFICES ASSUME SearchInit PROVE Anytime!Init
  OBVIOUS
<1>1. phase = "next" /\ CostInv({RootNode})
  BY InitFits DEF SearchInit
<1>2. (phase = "done") = FALSE /\ ~Greater(curCost, Optimum(prob))
  BY <1>1 DEF CostInv
<1> QED  BY <1>2, SameCosts DEF Anytime!Init

-----------------------------------------------------------------------------
(* What a step enters in a table is the optimum of the node it closes.     *)
NewEntriesExact ==
  \A x \in Vars : \A c \in DOMAIN cache'[x] \ DOMAIN cache[x] :
    cache'[x][c] = ExactOR(prob, reg.prev)

(* Nothing is entered when a node is handled: tables are only reset.       *)
LEMMA NothingEntered ==
  ASSUME cache' = cache \/ \E n : cache' = CacheAt(n)
  PROVE  NewEntriesExact
<1>1. CASE cache' = cache
  BY <1>1 DEF NewEntriesExact
<1>2. CASE \E n : cache' = CacheAt(n)
  <2>1. PICK n : cache' = CacheAt(n)
    BY <1>2
  <2>2. \A x \in Vars : cache'[x] = cache[x] \/ cache'[x] = NoTable
    BY <2>1 DEF CacheAt
  <2>3. DOMAIN NoTable = {}
    BY DEF NoTable
  <2> QED  BY <2>2, <2>3 DEF NewEntriesExact
<1> QED  BY <1>1, <1>2

(* propagate enters the value of a closed child.                           *)
LEMMA ExactEntered ==
  ASSUME NEW O, SearchInv(O), CostInv(O), OptInv(O), Climb
  PROVE  NewEntriesExact
<1>1. InSync(O) /\ NotLost(O) /\ DOMAIN cache = Vars
  BY DEF OptInv, SearchInv, SearchTypeOK
<1>2. CASE ~PropagateAND
  <2>1. cache' = cache
    BY <1>2 DEF Climb, PropHeurAND, PropHeurOR, PropHeurEnd, HeurUp, PropagateOR, PropagateFinish
  <2> QED  BY <2>1, NothingEntered
<1>3. CASE PropagateAND
  <2>1. phase = "climb" /\ IsAND(cur) /\ cache' = CacheWrite(reg.prev)
    BY <1>3 DEF PropagateAND
  <2>2. CASE CacheWrite(reg.prev) = cache
    BY <2>1, <2>2, NothingEntered
  <2>3. CASE CacheWrite(reg.prev) # cache
    <3> DEFINE p == reg.prev
               t == cache[Var(p)]
               k == node[p].context
    <3>1. node[p].value = ExactOR(prob, p) /\ Var(p) \in Vars
      <4>1. IsNodePath(p)
        BY <2>1, ClimbingNode DEF IsAND, IsSearchPath
      <4> QED  BY <1>1, <2>1, <2>3, <4>1, WriteIsExact, NodeVariable
    <3>2. cache' = [cache EXCEPT ![Var(p)] =
                     [c \in DOMAIN t \cup {k} |-> IF c = k THEN node[p].value ELSE t[c]]]
      BY <2>1, <2>3 DEF CacheWrite
    <3> HIDE DEF p, t, k
    <3>3. ASSUME NEW x \in Vars, NEW c \in DOMAIN cache'[x] \ DOMAIN cache[x]
          PROVE  cache'[x][c] = node[p].value
      <4>1. CASE x = Var(p)
        <5>1. cache'[x] = [d \in DOMAIN t \cup {k} |-> IF d = k THEN node[p].value ELSE t[d]]
          BY <1>1, <3>1, <3>2, <4>1
        <5>2. c \in DOMAIN t \cup {k} /\ c \notin DOMAIN t
          BY <3>3, <4>1, <5>1 DEF t
        <5> QED  BY <5>1, <5>2
      <4>2. CASE x # Var(p)
        BY <1>1, <3>2, <3>3, <4>2
      <4> QED  BY <4>1, <4>2
    <3> QED  BY <3>1, <3>3 DEF p, NewEntriesExact
  <2> QED  BY <2>2, <2>3
<1> QED  BY <1>2, <1>3

-----------------------------------------------------------------------------
(* Among finitely many paths there is a longest one.                       *)
LEMMA LongestPath ==
  ASSUME NEW L \in SUBSET Path, IsFiniteSet(L), L # {}
  PROVE  \E p \in L : \A q \in L : Len(q) <= Len(p)
<1> DEFINE rank == [p \in L |-> Len(p)]
<1>1. \A p \in L : rank[p] = Len(p) /\ rank[p] \in Int
  BY ParentPath
<1> HIDE DEF rank
<1>2. \E p \in L : \A q \in L : rank[q] <= rank[p]
  BY <1>1, HighestOf
<1> QED  BY <1>1, <1>2

(* What can be found at p, r being what can be found at its children.      *)
Found(O, p, r) ==
  LET known == IF ISNAN(node[p].value) THEN ELEM_ZERO ELSE node[p].value
  IN  IF p \in O THEN Larger(Exact(prob, p), known)
      ELSE IF Childless(p) THEN known
      ELSE IF IsAND(p) THEN Times(node[p].subSolved, Product([q \in Kids(p) |-> r[q]]))
      ELSE Larger(known, Maximum([q \in Kids(p) |-> Times(r[q], node[q].label)]))

(* Reachable is computed from the longest paths upwards. *)
LEMMA ReachableIs ==
  ASSUME NEW O, Live \subseteq Path, IsFiniteSet(Live), Live # {}
  PROVE  \A p \in Live : Reachable(O)[p] = Found(O, p, Reachable(O))
<1>1. PICK z \in Live : \A q \in Live : Len(q) <= Len(z)
  BY LongestPath
<1> DEFINE D(n) == {p \in Live : Len(p) > Len(z) - n}
           P(n) == \E g : \A p \in D(n) : g[p] = Found(O, p, g)
<1>2. \A p \in Live : Len(p) \in Nat
  BY ParentPath
<1>3. ASSUME NEW n \in Nat, NEW p \in D(n + 1), NEW q \in Kids(p) PROVE q \in D(n)
  BY <1>1, <1>2 DEF Kids
<1>4. ASSUME NEW p \in Live, NEW g, NEW h, \A q \in Kids(p) : g[q] = h[q]
      PROVE  Found(O, p, g) = Found(O, p, h)
  <2>1. [q \in Kids(p) |-> g[q]] = [q \in Kids(p) |-> h[q]]
    BY <1>4
  <2>2. [q \in Kids(p) |-> Times(g[q], node[q].label)]
        = [q \in Kids(p) |-> Times(h[q], node[q].label)]
    BY <1>4
  <2> QED  BY <2>1, <2>2, Zenon DEF Found
<1>5. P(0)
  <2>1. D(0) = {}
    BY <1>1, <1>2
  <2> QED  BY <2>1
<1>6. ASSUME NEW n \in Nat, P(n) PROVE P(n + 1)
  <2>1. PICK g : \A p \in D(n) : g[p] = Found(O, p, g)
    BY <1>6
  <2> DEFINE h == [p \in Live |-> Found(O, p, g)]
  <2>2. \A p \in D(n) : h[p] = g[p]
    BY <2>1
  <2> HIDE DEF D
  <2>3. ASSUME NEW p \in D(n + 1) PROVE h[p] = Found(O, p, h)
    <3>1. p \in Live
      BY DEF D
    <3>2. h[p] = Found(O, p, g)
      BY <3>1
    <3>3. \A q \in Kids(p) : g[q] = h[q]
      BY <1>3, <2>2
    <3> HIDE DEF h
    <3> QED  BY <1>4, <3>1, <3>2, <3>3
  <2> QED  BY <2>3
<1> HIDE DEF P
<1>7. \A n \in Nat : P(n)
  <2> DEFINE T == {n \in Nat : ~P(n)}
  <2>1. ASSUME T # {} PROVE FALSE
    <3>1. PICK n \in T : \A m \in T : n <= m
      BY <2>1, LeastNat
    <3>2. n # 0 /\ n - 1 \in Nat /\ n - 1 \notin T
      BY <1>5, <3>1
    <3> QED  BY <1>6, <3>1, <3>2
  <2> QED  BY <2>1
<1>8. Len(z) + 1 \in Nat /\ D(Len(z) + 1) = Live
  BY <1>2
<1>9. PICK g : \A p \in Live : g[p] = Found(O, p, g)
  BY <1>7, <1>8 DEF P
<1> HIDE DEF D
<1> DEFINE h == [p \in Live |-> g[p]]
           Rec(f) == f = [p \in Live |-> Found(O, p, f)]
<1>10. Rec(h)
  <2>1. ASSUME NEW p \in Live PROVE g[p] = Found(O, p, h)
    <3>1. \A q \in Kids(p) : g[q] = h[q]
      BY DEF Kids
    <3> HIDE DEF h
    <3> QED  BY <1>4, <1>9, <3>1
  <2> QED  BY <2>1
<1> DEFINE it == CHOOSE f : Rec(f)
<1>11. Rec(it)
  <2> HIDE DEF h
  <2> QED  BY <1>10, Zenon
<1>12. Reachable(O) = it
  BY Zenon DEF Reachable, Found, Exact
<1> HIDE DEF it
<1>13. \A p \in Live : it[p] = Found(O, p, it)
  BY <1>11
<1> QED  BY <1>12, <1>13

(* What can be found at p is at most the optimum, if that is so for the    *)
(* children; and it is the optimum where that is kept.                     *)
LEMMA FoundIsExact ==
  ASSUME NEW O, CostInv(O), InSync(O), IsFiniteSet(Live), NEW T \in SUBSET Live, NEW p \in Live,
         p \in T => Kept(O, T, p), NEW r,
         \A q \in Kids(p) : /\ r[q] \in Known /\ ~Greater(r[q], Exact(prob, q))
                            /\ q \in T => r[q] = Exact(prob, q)
  PROVE  /\ Found(O, p, r) \in Known /\ ~Greater(Found(O, p, r), Exact(prob, p))
         /\ p \in T => Found(O, p, r) = Exact(prob, p)
<1> DEFINE known == IF ISNAN(node[p].value) THEN ELEM_ZERO ELSE node[p].value
           x == Exact(prob, p)
           K == Kids(p)
<1>1. /\ prob \in Problems /\ IsSearchPath(p) /\ IsNodePath(p) /\ (IsAND(p) <=> ~IsOR(p))
      /\ node[p].value \in Cost /\ x \in Known /\ ~Greater(node[p].value, x)
      /\ IsAND(p) => node[p].label = LabelOn(prob, p)
      /\ KidPaths(p, K)
  BY LiveNode DEF Kids, KidsIn
<1>2. K = KidsIn(Live, p)
  BY DEF Kids, KidsIn
<1>3. known \in Known /\ ~Greater(known, x) /\ (node[p].value = x => known = x)
  BY <1>1, CostOrder, NeverGreater, TimesLaws DEF ISNAN
<1>4. ~Greater(x, x)
  BY <1>1, NeverGreater, TimesLaws
<1> HIDE DEF known
<1>5. CASE p \in O
  <2>1. Found(O, p, r) = Larger(x, known)
    BY <1>5 DEF Found, known
  <2>2. Larger(x, known) = x
    BY <1>1, <1>3, LargerOf, CostOrder
  <2> QED  BY <1>1, <1>4, <2>1, <2>2
<1>6. CASE p \notin O /\ K = {}
  <2>1. Found(O, p, r) = known
    BY <1>6 DEF Found, known, Childless
  <2>2. p \in T => known = x
    <3>1. p \in T => x = ELEM_ZERO \/ node[p].value = x
      BY <1>2, <1>6 DEF Kept
    <3> QED  BY <1>3, <3>1, CostOrder
  <2> QED  BY <1>3, <2>1, <2>2
<1>7. CASE p \notin O /\ K # {} /\ IsAND(p)
  <2> DEFINE g == [q \in K |-> r[q]]
             s == node[p].subSolved
             C == ChildSet(Var(p))
  <2>1. Found(O, p, r) = Times(s, Product(g))
    BY <1>1, <1>7 DEF Found, Childless
  <2>2. g \in [K -> Known] /\ g \in [K -> Cost] /\ \A q \in K : ~Greater(g[q], Exact(prob, q))
    BY TimesLaws
  <2>3. s \in Known /\ RestOK(prob, p, s, K)
    BY <1>2, <1>7 DEF CostInv, RestsFit, InSync, AndNodes
  <2>4. IsFiniteSet(K)
    BY <1>1, <1>7, KidsLeft
  <2>5. K \subseteq T => g \in [K -> Known] /\ \A q \in K : g[q] = Exact(prob, q)
    BY <2>2
  <2> HIDE DEF g, K, s
  <2>6. Product(g) \in Known /\ Times(s, Product(g)) \in Known
    BY <2>2, <2>3, <2>4, ProductKnown, TimesLaws
  <2>7. ~Greater(Times(s, Product(g)), x)
    BY <1>1, <1>7, <2>2, <2>3, TimesLaws, ValueAtAND
  <2>8. p \in T => Times(s, Product(g)) = x
    <3> SUFFICES ASSUME p \in T PROVE Times(s, Product(g)) = x
      OBVIOUS
    <3>1. CASE x = ELEM_ZERO
      BY <2>6, <2>7, <3>1, CostOrder
    <3>2. CASE x # ELEM_ZERO
      <4>1. K \subseteq T /\ s = Below(prob, p, C \ KidVars(K))
        BY <1>1, <1>2, <1>6, <1>7, <3>2 DEF Kept, s
      <4>2. \A q \in K : ~Greater(Exact(prob, q), g[q])
        BY <2>2, <2>5, <4>1, NeverGreater, TimesLaws
      <4>3. ~Greater(x, Times(s, Product(g)))
        BY <1>1, <1>7, <2>2, <4>1, <4>2, BoundAtAND
      <4> QED  BY <1>1, <2>6, <2>7, <4>3, CostOrder
    <3> QED  BY <3>1, <3>2
  <2> QED  BY <2>1, <2>6, <2>7, <2>8
<1>8. CASE p \notin O /\ K # {} /\ IsOR(p)
  <2> DEFINE g == [q \in K |-> Times(r[q], node[q].label)]
             m == Maximum(g)
  <2>1. Found(O, p, r) = Larger(known, m)
    BY <1>1, <1>8 DEF Found, Childless, known
  <2>2. ASSUME NEW q \in K
        PROVE  /\ g[q] \in Known /\ ~Greater(g[q], x)
               /\ q \in T => g[q] = Times(Exact(prob, q), LabelOn(prob, q))
    <3>1. /\ q \in Live /\ IsAND(q) /\ ~IsOR(q) /\ Parent(q) = p /\ IsSearchPath(q)
          /\ NodeOK(prob, q, node[q]) /\ node[q].label = LabelOn(prob, q)
          /\ IsNodePath(q)
      BY <1>2, <1>8, KidOfOR, LiveNode DEF CostInv, NodesFit
    <3>2. LabelOn(prob, q) \in Known
      BY <1>1, <3>1, ContextOfAND
    <3>3. g[q] \in Known
      BY <3>1, <3>2, TimesLaws
    <3>4. ~Greater(g[q], x)
      <4>1. PICK nd : nd = [node[q] EXCEPT !.value = r[q]]
        OBVIOUS
      <4>2. NodeOK(prob, q, nd)
        BY <3>1, <4>1, NewValueFits, TimesLaws
      <4>3. nd.value = r[q] /\ nd.label = node[q].label
        BY <3>1, <4>1 DEF NodeOK, AndFields
      <4> QED  BY <1>1, <3>1, <4>2, <4>3, ValueAtOR
    <3> QED  BY <3>1, <3>3, <3>4
  <2>3. IsFiniteSet(K)
    BY FS_Subset DEF Kids
  <2>4. g \in [K -> Known]
    BY <2>2
  <2>5. \A k \in K \cap T : g[k] = Times(Exact(prob, k), LabelOn(prob, k))
    BY <2>2
  <2> HIDE DEF g, K
  <2>6. /\ m \in Known /\ \A q \in K : ~Greater(g[q], m)
        /\ m = ELEM_ZERO \/ \E q \in K : m = g[q]
    BY <2>3, <2>4, MaximumOf
  <2>7. ~Greater(m, x)
    BY <1>1, <2>2, <2>6, NeverGreater, TimesLaws
  <2>8. PICK k : k = Larger(known, m)
    OBVIOUS
  <2>9. k \in Known /\ ~Greater(k, x) /\ ~Greater(known, k) /\ ~Greater(m, k)
    BY <1>3, <2>6, <2>7, <2>8, LargerOf
  <2>10. p \in T => k = x
    <3> SUFFICES ASSUME p \in T PROVE k = x
      OBVIOUS
    <3>1. CASE x = ELEM_ZERO
      BY <2>9, <3>1, CostOrder
    <3>2. CASE node[p].value = x
      BY <1>1, <1>3, <2>9, <3>2, CostOrder
    <3>3. CASE \E q \in K \cap T : Times(Exact(prob, q), LabelOn(prob, q)) = x
      <4>1. PICK q \in K \cap T : g[q] = x
        BY <2>5, <3>3
      <4>2. ~Greater(x, m)
        BY <2>6, <4>1
      <4>3. m = x
        BY <1>1, <2>6, <2>7, <4>2, CostOrder
      <4> QED  BY <1>1, <2>9, <4>3, CostOrder
    <3> QED  BY <1>1, <1>2, <1>8, <3>1, <3>2, <3>3 DEF Kept
  <2> QED  BY <2>1, <2>8, <2>9, <2>10
<1> QED  BY <1>1, <1>5, <1>6, <1>7, <1>8

(* Without propHeuristic, what the search has found and can still find     *)
(* makes the optimum, also while propagate climbs.                         *)
LEMMA OptimumReachable ==
  ASSUME NEW O, SearchInv(O), CostInv(O), OptInv(O), IsFiniteSet(Live)
  PROVE  CompletesToOptimum(O)
<1> DEFINE R == Reachable(O)
<1>1. InSync(O) /\ NotLost(O)
  BY DEF OptInv
<1>2. PICK T \in SUBSET Live : Keeping(O, T)
  BY <1>1 DEF NotLost
<1>3. /\ RootNode \in Live /\ RootNode \in T /\ Exact(prob, RootNode) = Optimum(prob)
  <2>1. RootNode \in Live /\ ~node[RootNode].notOpt /\ IsOR(RootNode)
    BY <1>1, RootPath DEF InSync, RootKept
  <2> QED  BY <1>2, <2>1 DEF Keeping, Exact, Optimum
<1>4. Live \subseteq Path
  BY DEF SearchInv, SearchTypeOK
<1>5. \A p \in Live : R[p] = Found(O, p, R)
  BY <1>3, <1>4, ReachableIs
<1> DEFINE Good(p) == /\ R[p] \in Known /\ ~Greater(R[p], Exact(prob, p))
                      /\ p \in T => R[p] = Exact(prob, p)
           Bad == {p \in Live : ~Good(p)}
<1> HIDE DEF R
<1>6. ASSUME Bad # {} PROVE FALSE
  <2>1. Bad \in SUBSET Path /\ IsFiniteSet(Bad)
    BY <1>4, FS_Subset
  <2> HIDE DEF Bad
  <2>2. PICK p \in Bad : \A q \in Bad : Len(q) <= Len(p)
    BY <1>6, <2>1, LongestPath
  <2>3. p \in Live /\ ~Good(p)
    BY <2>2 DEF Bad
  <2>4. Len(p) \in Nat
    BY <1>4, <2>3, ParentPath
  <2>5. \A q \in Kids(p) : q \in Live /\ q \notin Bad
    BY <2>2, <2>4 DEF Kids
  <2>6. \A q \in Kids(p) : Good(q)
    BY <2>5 DEF Bad
  <2>7. Good(p)
    BY <1>1, <1>2, <1>5, <2>3, <2>6, FoundIsExact DEF Keeping
  <2> QED  BY <2>3, <2>7
<1>7. Good(RootNode)
  BY <1>3, <1>6
<1> QED  BY <1>3, <1>7 DEF CompletesToOptimum, R

-----------------------------------------------------------------------------
(* A search holds finitely many nodes at any time: it adds the children of *)
(* one node, and erases.                                                   *)
LEMMA FinitelyMany ==
  ASSUME NEW n, IsNodePath(n), IsFiniteSet(Live), NEW s,
         \/ ProcessCacheHit(n) \/ ProcessPrune(n) \/ ProcessLeafAND(n)
         \/ s \in Seqs!SetToSeqs(OrChildren(n)) /\ ProcessExpandAND(n, s)
         \/ s \in Seqs!SetToSeqs(AndChildren(n)) /\ ProcessExpandOR(n, s)
  PROVE  IsFiniteSet(Live')
<1>1. IsFiniteSet(OrChildren(n)) /\ IsFiniteSet(AndChildren(n))
  BY NodeVariable, FiniteOrChildren, FiniteAndChildren
<1>2. CASE ProcessCacheHit(n) \/ ProcessPrune(n) \/ ProcessLeafAND(n)
  <2>1. Live' = Live
    BY <1>2 DEF ProcessCacheHit, ProcessPrune, ProcessLeafAND, Live
  <2> QED  BY <2>1
<1>3. CASE ProcessExpandAND(n, s)
  <2>1. Live' = Live \cup OrChildren(n)
    BY <1>3 DEF ProcessExpandAND, Added, Live
  <2> QED  BY <1>1, <2>1, FS_Union
<1>4. CASE s \in Seqs!SetToSeqs(AndChildren(n)) /\ ProcessExpandOR(n, s)
  <2>1. Live' = Live \cup Elements(s)
    BY <1>4 DEF ProcessExpandOR, Added, Live, Elements
  <2>2. Elements(s) = AndChildren(n)
    BY <1>1, <1>4, ChildOrder
  <2> QED  BY <1>1, <2>1, <2>2, FS_Union
<1> QED  BY <1>2, <1>3, <1>4

(* propagate and propHeuristic add no node. *)
LEMMA FewerLeft ==
  ASSUME IsFiniteSet(Live), Climb
  PROVE  IsFiniteSet(Live')
<1>1. Live' \in SUBSET Live
  BY DEF Climb, PropHeurAND, PropHeurOR, PropHeurEnd, HeurUp, PropagateAND, PropagateOR,
         PropagateFinish, Erased, Live
<1> QED  BY <1>1, FS_Subset
=============================================================================
