------------------------------ MODULE AOSearch ------------------------------
(***************************************************************************)
(* The AND/OR search space and what every search scheme does with it:      *)
(* class Search (processing, caching, pruning and expanding one node),     *)
(* BoundPropagator::propagate, CacheTable and the best solution kept by    *)
(* Problem.  The order in which nodes are taken is left to the modules     *)
(* that extend this one.                                                   *)
(*                                                                         *)
(* The program is sequential.  Handling one node (doCompleteProcessing) is *)
(* one step; the two loops that climb the tree, propagate and              *)
(* propHeuristic, take one step per iteration.                             *)
(***************************************************************************)
EXTENDS AOModel

Seqs == INSTANCE SequencesExt

CONSTANTS
  DoCaching,       \* BoundPropagator::m_doCaching, and no UnCacheTable
  PropHeuristic,   \* the option prop_heuristic
  SubprobOrder     \* "static", "heur_inc" or "heur_dec"

ASSUME OptionsAssumption ==
  /\ DoCaching \in BOOLEAN /\ PropHeuristic \in BOOLEAN
  /\ SubprobOrder \in {"static", "heur_inc", "heur_dec"}

VARIABLES
  prob,        \* the problem being solved; never changes
  node,        \* the live search nodes: a function from paths to records
  assignment,  \* Search::m_assignment
  cache,       \* CacheTable::m_tables
  curCost,     \* Problem::m_curCost
  upper,       \* Problem::m_curUpperBound
  phase,       \* where the solver's loop is
  reg          \* the local variables of propagate and of propHeuristic

searchVars == <<prob, node, assignment, cache, curCost, upper, phase, reg>>

NONE    == -1
NoTable == [c \in {} |-> ELEM_NAN]
Idle    == [leaf |-> NULL, prev |-> NULL, prop |-> FALSE, del |-> FALSE,
            high |-> NULL, delta |-> ELEM_ONE]

Live    == DOMAIN node
Kids(p) == {q \in Live : Len(q) = Len(p) + 1 /\ Parent(q) = p}
Childless(p) == Kids(p) = {}
AnyKids(p) == TRUE                      \* del without a look at the siblings
AtMostOneKid(p) == \A q, r \in Kids(p) : q = r

-----------------------------------------------------------------------------
(* Creation of nodes. *)

(* assignCostsOR: labels and bounds of all values of x, under assignment a. *)
HeurCacheNoLabel(x, a) ==               \* the bound without the label
  [v \in Values(x) |->
     LET av == [a EXCEPT ![x] = v]
     IN  [label |-> Label(prob, x, av), heur |-> HeurOf(prob, x, av)]]

HeurCache(x, a) ==
  [v \in Values(x) |->
     LET av == [a EXCEPT ![x] = v]
         l  == Label(prob, x, av)
     IN  [label |-> l, heur |-> Times(l, HeurOf(prob, x, av))]]

NewOR(x, a) ==
  LET hc == HeurCache(x, a)
  IN  [value |-> ELEM_NAN, heur |-> Maximum([v \in Values(x) |-> hc[v].heur]),
       heurCache |-> hc, notOpt |-> FALSE, cachable |-> FALSE,
       pruned |-> FALSE, context |-> NoTable]

NewAND(costs) ==
  [value |-> ELEM_NAN, heur |-> costs.heur, label |-> costs.label,
   subSolved |-> ELEM_ONE, notOpt |-> FALSE, pruned |-> FALSE]

Added(S, new) == [q \in Live \cup S |-> IF q \in S THEN new[q] ELSE node[q]]

-----------------------------------------------------------------------------
(* doProcess and doCaching. *)

AssignmentAtOnce(n) ==                  \* written only the first time
  IF IsAND(n) /\ assignment[Var(n)] = NONE
  THEN [assignment EXCEPT ![Var(n)] = Val(n)] ELSE assignment
AssignmentAt(n) ==
  IF IsAND(n) THEN [assignment EXCEPT ![Var(n)] = Val(n)] ELSE assignment

CacheAtDropped(n) ==                    \* the table is deleted, not cleared
  IF IsAND(n) THEN [x \in Vars \ ResetList(Var(n)) |-> cache[x]] ELSE cache
CacheAt(n) ==
  IF IsAND(n) THEN [x \in Vars |-> IF x \in ResetList(Var(n)) THEN NoTable ELSE cache[x]]
  ELSE cache

LooksUp(n)      == IsOR(n) /\ HasCacheTable(Var(n))
CacheContextCut(n) == Restriction(assignment, {})     \* an empty key
CacheContext(n) == Restriction(assignment, CacheCtx(Var(n)))
CacheHit(n)     == LooksUp(n) /\ CacheContext(n) \in DOMAIN cache[Var(n)]

(* What doCaching leaves in the node when the search of the table fails. *)
AfterCaching(n) ==
  IF LooksUp(n)
  THEN [node EXCEPT ![n].context = CacheContext(n), ![n].cachable = TRUE]
  ELSE node

-----------------------------------------------------------------------------
(* canBePruned: climb from n, and compare with the value of every OR node  *)
(* on the way what the partial solution tree through n can still reach.    *)

OrLevel(n) == IF IsOR(n) THEN Len(n) ELSE Len(n) - 1

(* What the AND node of length j above n adds to the bound. *)
ContributionNoLabel(n, j) ==
  LET a == Prefix(n, j)
      siblings == Kids(a) \ {Prefix(n, j + 1)}
  IN  Times(node[a].subSolved, Product([q \in siblings |-> node[q].heur]))

ContributionNoSiblings(n, j) == Times(node[Prefix(n, j)].label, node[Prefix(n, j)].subSolved)

ContributionNoSubSolved(n, j) ==
  LET a == Prefix(n, j)
      siblings == Kids(a) \ {Prefix(n, j + 1)}
  IN  Times(node[a].label, Product([q \in siblings |-> node[q].heur]))

Contribution(n, j) ==
  LET a == Prefix(n, j)
      siblings == Kids(a) \ {Prefix(n, j + 1)}
  IN  Times(Times(node[a].label, node[a].subSolved),
            Product([q \in siblings |-> node[q].heur]))

AndLevels(n, k) == {j \in k .. OrLevel(n) : j % 2 = 0}

PSTBound(n, k) ==
  Times(node[n].heur, Product([j \in AndLevels(n, k) |-> Contribution(n, j)]))

PrunePoints(n) ==
  {k \in 1 .. OrLevel(n) : /\ k % 2 = 1
                           /\ GapClosed(PSTBound(n, k), node[Prefix(n, k)].value)}

CanBePruned(n) ==
  /\ Depth[Var(n)] >= 0
  /\ node[n].heur = ELEM_ZERO \/ PrunePoints(n) # {}

(* The OR nodes from n up to, but without, the one that allowed pruning. *)
MarkedNotOptNone(n) == {}               \* setNotOpt is forgotten
MarkedNotOpt(n) ==
  IF node[n].heur = ELEM_ZERO THEN {}
  ELSE {Prefix(n, l) : l \in {l \in 1 .. OrLevel(n) :
                                 l % 2 = 1 /\ \A k \in PrunePoints(n) : l > k}}

-----------------------------------------------------------------------------
(* Handling of one node: doCompleteProcessing.  A leaf goes to propagate.  *)

PropagateFrom(n) ==
  /\ phase' = "climb"
  /\ reg' = [Idle EXCEPT !.leaf = n, !.prev = n, !.prop = TRUE, !.del = TRUE]

ProcessCacheHit(n) ==
  /\ CacheHit(n)
  /\ node' = [node EXCEPT ![n].context = CacheContext(n),
                          ![n].value = cache[Var(n)][CacheContext(n)]]
  /\ PropagateFrom(n)
  /\ UNCHANGED <<prob, assignment, cache, curCost, upper>>

ProcessPrune(n) ==
  /\ ~CacheHit(n)
  /\ CanBePruned(n)
  /\ node' = [q \in Live |->
       IF q = n
       THEN [AfterCaching(n)[n] EXCEPT
               !.pruned = TRUE, !.notOpt = @ \/ n \in MarkedNotOpt(n),
               !.value = IF IsAND(n) \/ ISNAN(@) THEN ELEM_ZERO ELSE @]
       ELSE [node[q] EXCEPT !.notOpt = @ \/ q \in MarkedNotOpt(n)]]
  /\ assignment' = AssignmentAt(n)
  /\ cache' = CacheAt(n)
  /\ PropagateFrom(n)
  /\ UNCHANGED <<prob, curCost, upper>>

Expandable(n) == ~CacheHit(n) /\ ~CanBePruned(n)

Deliver == IF PropHeuristic THEN "heur" ELSE "next"
HeurFrom(n) == IF PropHeuristic THEN [Idle EXCEPT !.leaf = n, !.prev = n] ELSE Idle

(* generateChildrenAND: a child without any consistent value makes n a     *)
(* dead end; no children at all makes it a terminal node.                  *)
OrChildren(n)   == {Append(n, x) : x \in ChildSet(Var(n))}
DeadChild(n)    == \E x \in ChildSet(Var(n)) : NewOR(x, AssignmentAt(n)).heur = ELEM_ZERO

ProcessLeafAND(n) ==
  /\ IsAND(n) /\ Expandable(n)
  /\ DeadChild(n) \/ OrChildren(n) = {}
  /\ node' = [node EXCEPT ![n].value = IF DeadChild(n) THEN ELEM_ZERO ELSE ELEM_ONE]
  /\ assignment' = AssignmentAt(n)
  /\ cache' = CacheAt(n)
  /\ PropagateFrom(n)
  /\ UNCHANGED <<prob, curCost, upper>>

(* The orders in which children may be pushed.  generateChildrenAND takes   *)
(* the children of the pseudo tree in reverse or sorts by the bound, and   *)
(* generateChildrenOR sorts by the bound; ties may come out either way.    *)
InReverse(x, y, z) ==
  \E i, j \in DOMAIN PtChildren[x] : i > j /\ PtChildren[x][i] = y /\ PtChildren[x][j] = z

AndOrder(n, heur, s) ==
  \A i, j \in DOMAIN s : i < j =>
    CASE SubprobOrder = "static"   -> InReverse(Var(n), Var(s[i]), Var(s[j]))
      [] SubprobOrder = "heur_inc" -> ~Greater(heur[s[j]], heur[s[i]])
      [] SubprobOrder = "heur_dec" -> ~Greater(heur[s[i]], heur[s[j]])

OrOrder(n, heur, s) ==
  \A i, j \in DOMAIN s : i < j => ~Greater(heur[s[i]], heur[s[j]])

(* s is m_expand: the new children in the order in which they are pushed.  *)
ProcessExpandAND(n, s) ==
  /\ IsAND(n) /\ Expandable(n)
  /\ ~DeadChild(n) /\ OrChildren(n) # {}
  /\ LET new == [q \in OrChildren(n) |-> NewOR(Var(q), AssignmentAt(n))]
     IN  /\ node' = Added(OrChildren(n), new)
         /\ AndOrder(n, [q \in OrChildren(n) |-> new[q].heur], s)
  /\ assignment' = AssignmentAt(n)
  /\ cache' = CacheAt(n)
  /\ phase' = Deliver /\ reg' = HeurFrom(n)
  /\ UNCHANGED <<prob, curCost, upper>>

(* generateChildrenOR: one child for every value with a label.  There is   *)
(* always one ("should never happen"; the invariant NeverEmptyOR).         *)
AndChildren(n) ==
  {Append(n, v) : v \in {v \in Values(Var(n)) : node[n].heurCache[v].label # ELEM_ZERO}}

ProcessExpandOR(n, s) ==
  /\ IsOR(n) /\ Expandable(n)
  /\ s # <<>>
  /\ LET kids == {s[i] : i \in DOMAIN s}
         new  == [q \in kids |-> NewAND(node[n].heurCache[Val(q)])]
     IN  /\ node' = [Added(kids, new) EXCEPT ![n] = AfterCaching(n)[n]]
         /\ OrOrder(n, [q \in kids |-> new[q].heur], s)
  /\ phase' = Deliver /\ reg' = HeurFrom(n)
  /\ UNCHANGED <<prob, assignment, cache, curCost, upper>>

-----------------------------------------------------------------------------
(* propHeuristic: push a tightened bound up from a node just expanded.     *)
(* reg.prev is cur; an iteration that cannot go on moves to the last test. *)

HeurUp(h, delta, goOn) ==
  /\ node' = [node EXCEPT ![reg.prev].heur = h]
  /\ IF goOn
     THEN /\ phase' = IF reg.prev = RootNode THEN "heurEnd" ELSE "heur"
          /\ reg' = [reg EXCEPT !.prev = Parent(@), !.delta = delta]
     ELSE phase' = "heurEnd" /\ UNCHANGED reg
  /\ UNCHANGED <<prob, assignment, cache, curCost, upper>>

PropHeurAND ==
  /\ phase = "heur" /\ IsAND(reg.prev)
  /\ LET n == node[reg.prev]
         d == Times(Times(n.subSolved, n.label),
                    Product([q \in Kids(reg.prev) |-> node[q].heur]))
     IN  IF reg.prev = reg.leaf
         THEN HeurUp(IF Greater(d, n.heur) THEN n.heur ELSE d, reg.delta, TRUE)
         ELSE IF Greater(ELEM_ONE, reg.delta)
              THEN HeurUp(Times(n.heur, reg.delta), reg.delta, TRUE)
              ELSE HeurUp(n.heur, reg.delta, FALSE)

AnyKidHeur(p) == node[CHOOSE q \in Kids(p) : TRUE].heur     \* not the largest
MaxKidHeur(p) == Maximum([q \in Kids(p) |-> node[q].heur])

PropHeurOR ==
  /\ phase = "heur" /\ IsOR(reg.prev)
  /\ LET old  == node[reg.prev].heur
         maxH == MaxKidHeur(reg.prev)
     IN  IF Greater(old, maxH)
         THEN HeurUp(maxH, IF maxH = ELEM_ZERO THEN ELEM_ZERO ELSE maxH - old, TRUE)
         ELSE HeurUp(old, reg.delta, FALSE)

(* The root was reached: updateUpperBound.  Then stop if LB >= UB.         *)
UpperAfter ==
  LET h == node[RootNode].heur
  IN  IF reg.prev = NULL /\ (ISNAN(upper) \/ Greater(upper, h)) THEN h ELSE upper

PropHeurEnd ==
  /\ phase = "heurEnd"
  /\ upper' = UpperAfter
  /\ phase' = IF ~ISNAN(curCost) /\ ~ISNAN(UpperAfter) /\ ~Greater(UpperAfter, curCost)
              THEN "done" ELSE "next"
  /\ reg' = Idle
  /\ UNCHANGED <<prob, node, assignment, cache, curCost>>

-----------------------------------------------------------------------------
(* BoundPropagator::propagate, one iteration of its loop at a time.  The   *)
(* pair highestDelete is the child reg.high and that child's parent.       *)

cur   == Parent(reg.prev)
ClosesLate == reg.del /\ Childless(reg.prev)    \* the last child is still there
closes == reg.del /\ AtMostOneKid(reg.prev)

ClimbInPlace(prop) ==                   \* prev and cur do not move up
  /\ phase' = IF prop \/ closes THEN "climb" ELSE "finish"
  /\ reg' = [reg EXCEPT !.prop = prop, !.del = closes,
                        !.high = IF closes THEN reg.prev ELSE @]

ClimbOn(prop) ==
  /\ phase' = IF prop \/ closes THEN "climb" ELSE "finish"
  /\ reg' = [reg EXCEPT !.prop = prop, !.del = closes,
                        !.high = IF closes THEN reg.prev ELSE @,
                        !.prev = IF prop \/ closes THEN cur ELSE @]

(* cur is an AND node: combine the values of its children; a child that is *)
(* closed goes to the cache unless it may not have been solved optimally.  *)
(* (CacheTable::write would replace NaN: no NaN arrives, CacheWritesExact.)*)
CacheWrite(p) ==
  IF /\ closes /\ DoCaching /\ node[p].cachable /\ ~node[p].notOpt
     /\ node[p].context \notin DOMAIN cache[Var(p)]
  THEN LET table == cache[Var(p)]
           c == node[p].context
       IN  [cache EXCEPT ![Var(p)] =
              [k \in DOMAIN table \cup {c} |-> IF k = c THEN node[p].value ELSE table[k]]]
  ELSE cache

PropagateAND ==
  /\ phase = "climb" /\ IsAND(cur)
  /\ LET d == Times(node[cur].subSolved, Product([q \in Kids(cur) |-> node[q].value]))
     IN  /\ node' = IF reg.prop THEN [node EXCEPT ![cur].value = d] ELSE node
         /\ ClimbOn(reg.prop /\ ~ISNAN(d))
  /\ cache' = CacheWrite(reg.prev)
  /\ UNCHANGED <<prob, assignment, curCost, upper>>

(* cur is an OR node: keep the maximum. *)
Improves(d) ==
  /\ ISNAN(node[cur].value) \/ Greater(d, node[cur].value)
  /\ ~node[reg.prev].notOpt

PropagateOR ==
  /\ phase = "climb" /\ IsOR(cur)
  /\ LET d == Times(node[reg.prev].value, node[reg.prev].label)
         better == reg.prop /\ Improves(d)
     IN  /\ node' = IF better THEN [node EXCEPT ![cur].value = d] ELSE node
         /\ ClimbOn(better)
  /\ UNCHANGED <<prob, assignment, cache, curCost, upper>>

(* Problem::updateSolution *)
UpdateSolution(c) ==
  IF ISNAN(c) \/ Greater(curCost, c) THEN curCost ELSE c

(* Past the root (cur is NULL) or stopped: report, then erase the highest  *)
(* closed node, all that is below it included.                             *)
AtRoot == reg.prev = RootNode

Erased(p) ==
  LET parent == Parent(p)
  IN  [q \in {q \in Live : ~Above(p, q)} |->
         IF q = parent /\ IsAND(parent)
         THEN [node[q] EXCEPT !.subSolved = Times(@, node[p].value)]
         ELSE node[q]]

PropagateFinish ==
  /\ phase = "finish" \/ (phase = "climb" /\ AtRoot)
  /\ curCost' = IF AtRoot THEN UpdateSolution(node[RootNode].value) ELSE curCost
  /\ node' = IF reg.high = NULL THEN node ELSE Erased(reg.high)
  /\ phase' = "next" /\ reg' = Idle
  /\ UNCHANGED <<prob, assignment, cache, upper>>

-----------------------------------------------------------------------------
(* Search::initSearch and Main::finishPreproc: the root node, and a lower  *)
(* bound known beforehand, either as a solution (which Problem holds too)  *)
(* or as a mere value given on the command line.                           *)
SearchInit ==
  /\ prob \in Problems
  /\ assignment = [x \in Vars |-> NONE]
  /\ cache = [x \in Vars |-> NoTable]
  /\ \E known \in prob.known :
       /\ curCost \in {known, ELEM_NAN}
       /\ node = [p \in {RootNode} |-> [NewOR(Root, assignment) EXCEPT !.value = known]]
  /\ upper = ELEM_NAN
  /\ phase = "next" /\ reg = Idle

Climb ==
  \/ PropHeurAND \/ PropHeurOR \/ PropHeurEnd
  \/ PropagateAND \/ PropagateOR \/ PropagateFinish
=============================================================================
