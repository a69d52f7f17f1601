------------------------- MODULE LimitedDiscrepancy -------------------------
(***************************************************************************)
(* Limited discrepancy search (LimitedDiscrepancy.cpp), which Main::runLDS *)
(* runs before the real search to find a good solution: depth first like   *)
(* BranchAndBound, but an OR node only gets its best children, and each of *)
(* these carries the number of deviations that are left below it.  It runs *)
(* with an UnCacheTable and a propagator that does no caching.             *)
(***************************************************************************)
EXTENDS SearchProperties

CONSTANT MaxDiscs    \* the values of the option lds that are considered

ASSUME MaxDiscsAssumption == MaxDiscs \subseteq Nat

VARIABLES stack,     \* m_stack: pairs [node, disc], its top at the end
          maxDisc    \* m_maxDisc

ldsVars == <<prob, node, assignment, cache, curCost, upper, phase, reg, stack, maxDisc>>

Top     == stack[Len(stack)].node
Disc    == stack[Len(stack)].disc        \* m_discCache
Popped  == SubSeq(stack, 1, Len(stack) - 1)
OnStack == {stack[i].node : i \in DOMAIN stack}

Init ==
  /\ SearchInit
  /\ maxDisc \in MaxDiscs
  /\ stack = <<[node |-> RootNode, disc |-> maxDisc]>>

TakesNode == phase = "next" /\ stack # <<>>

Leaf ==
  /\ TakesNode
  /\ ProcessPrune(Top) \/ ProcessLeafAND(Top)
  /\ stack' = Popped
  /\ UNCHANGED maxDisc

(* The subproblems inherit the number of deviations.                       *)
ExpandAND ==
  /\ TakesNode /\ IsAND(Top)
  /\ \E s \in Seqs!SetToSeqs(OrChildren(Top)) :
       /\ ProcessExpandAND(Top, s)
       /\ stack' = Popped \o [i \in DOMAIN s |-> [node |-> s[i], disc |-> Disc]]
  /\ UNCHANGED maxDisc

(* The Disc + 1 best children by the bound; a tie may be broken either way. *)
AllowedWorst == {K \in SUBSET AndChildren(Top) :      \* the comparison turned round
  LET heur(q) == node[Top].heurCache[Val(q)].heur
  IN  /\ Cardinality(K) = Disc + 1 \/ (Cardinality(K) < Disc + 1 /\ K = AndChildren(Top))
      /\ \A q \in K, s \in AndChildren(Top) \ K : ~Greater(heur(q), heur(s))}

AllowedTooFew == {K \in SUBSET AndChildren(Top) :     \* Disc children, not Disc + 1
  LET heur(q) == node[Top].heurCache[Val(q)].heur
  IN  /\ Cardinality(K) = Disc \/ (Cardinality(K) < Disc /\ K = AndChildren(Top))
      /\ \A q \in K, s \in AndChildren(Top) \ K : ~Greater(heur(s), heur(q))}

Allowed == {K \in SUBSET AndChildren(Top) :
  LET heur(q) == node[Top].heurCache[Val(q)].heur
  IN  /\ Cardinality(K) = Disc + 1 \/ (Cardinality(K) < Disc + 1 /\ K = AndChildren(Top))
      /\ \A q \in K, s \in AndChildren(Top) \ K : ~Greater(heur(s), heur(q))}

(* The best child is pushed last and keeps all the deviations, the second  *)
(* best keeps all but one, and so on: what a child costs is its rank.      *)
ExpandOR ==
  /\ TakesNode /\ IsOR(Top)
  /\ \E K \in Allowed : \E s \in Seqs!SetToSeqs(K) :
       /\ ProcessExpandOR(Top, s)
       /\ stack' = Popped \o [i \in DOMAIN s |-> [node |-> s[i], disc |-> Disc - (Len(s) - i)]]
  /\ UNCHANGED maxDisc

Exhausted ==
  /\ phase = "next" /\ stack = <<>>
  /\ phase' = "done"
  /\ UNCHANGED <<prob, node, assignment, cache, curCost, upper, reg, stack, maxDisc>>

Propagation == Climb /\ UNCHANGED <<stack, maxDisc>>

Next == Leaf \/ ExpandAND \/ ExpandOR \/ Exhausted \/ Propagation

Spec == Init /\ [][Next]_ldsVars /\ WF_ldsVars(Next)

-----------------------------------------------------------------------------
(* The heuristic's estimate of value v at the OR node p.                   *)
Estimate(p, v) ==
  LET x == Var(p)
      at(S) == [y \in S |-> IF y = x THEN v ELSE PathValue(p, y)]
  IN  Times(prob.label[x][at(Ctx[x] \cup {x})],
            Product([y \in ChildSet(x) |-> prob.bound[y][at(Ctx[y])]]))

(* The rank of v among the values at p that are not infeasible, 0 for the  *)
(* best, when ties are broken against it.                                  *)
Rank(p, v) ==
  LET x        == Var(p)
      label(w) == prob.label[x][PathRestriction(p \o <<w, x>>, Ctx[x] \cup {x})]
  IN  Cardinality({w \in Values(x) \ {v} :
        label(w) # ELEM_ZERO /\ ~Greater(Estimate(p, v), Estimate(p, w))})

(* The best solution below p whose values have ranks that add up to at     *)
(* most k along every branch.                                              *)
BestWithin[p \in Path, k \in Nat] ==
  LET x == Var(p)
      label(v) == prob.label[x][PathRestriction(p \o <<v, x>>, Ctx[x] \cup {x})]
      below(v) == IF Rank(p, v) > k THEN ELEM_ZERO
                  ELSE Product([y \in ChildSet(x) |-> BestWithin[p \o <<v, y>>, k - Rank(p, v)]])
  IN  Maximum([v \in Values(x) |-> Times(label(v), below(v))])

(* What limited discrepancy search is run for: its result is at least as   *)
(* good as every solution whose deviations from the heuristic's preference *)
(* add up to at most maxDisc along every branch, although it prunes.  A    *)
(* value counts with its rank, as doExpand charges it: 2 for the third     *)
(* best.  (LimitedDiscrepancy.h:31 speaks of deviating "at most k times";  *)
(* from three values on that is more than the code explores.)              *)
FindsNearSolutions ==
  phase = "done" => ~Greater(BestWithin[RootNode, maxDisc], curCost) /\ ~ISNAN(curCost)

(* With an exact heuristic any limit is enough, 0 included, which is what  *)
(* compileHeuristic sets before it declares the problem solved             *)
(* (Main.cpp:832): the search finds an optimal solution, whichever way     *)
(* ties are broken and whatever bound it starts from.                      *)
OptimalIfExact ==
  phase = "done" /\ prob.bound = prob.opt => curCost = Optimum(prob)
=============================================================================
