--------------------------- MODULE BranchAndBound ---------------------------
(***************************************************************************)
(* AND/OR branch and bound (BranchAndBound.cpp): the nodes of AOSearch are *)
(* taken from one stack, depth first, and every leaf is propagated before  *)
(* the next node is taken.                                                 *)
(***************************************************************************)
EXTENDS SearchProperties

VARIABLE stack      \* m_stack, its top at the end

vars == <<prob, node, assignment, cache, curCost, upper, phase, reg, stack>>

Top     == stack[Len(stack)]
Popped  == SubSeq(stack, 1, Len(stack) - 1)
OnStack == {stack[i] : i \in DOMAIN stack}

Init == SearchInit /\ stack = <<RootNode>>

(* nextNode and doCompleteProcessing of the node it returns. *)
TakesNode == phase = "next" /\ stack # <<>>

HitCache  == TakesNode /\ ProcessCacheHit(Top) /\ stack' = Popped
Prune     == TakesNode /\ ProcessPrune(Top) /\ stack' = Popped
LeafAND   == TakesNode /\ ProcessLeafAND(Top) /\ stack' = Popped
ExpandAND == /\ TakesNode /\ IsAND(Top)
             /\ \E s \in Seqs!SetToSeqs(OrChildren(Top)) :
                  ProcessExpandAND(Top, s) /\ stack' = Popped \o s
ExpandOR  == /\ TakesNode /\ IsOR(Top)
             /\ \E s \in Seqs!SetToSeqs(AndChildren(Top)) :
                  ProcessExpandOR(Top, s) /\ stack' = Popped \o s

(* nextNode returns NULL: solve ends. *)
Exhausted ==
  /\ phase = "next" /\ stack = <<>>
  /\ phase' = "done"
  /\ UNCHANGED <<prob, node, assignment, cache, curCost, upper, reg, stack>>

Propagation == Climb /\ UNCHANGED stack

Next ==
  \/ HitCache \/ Prune \/ LeafAND \/ ExpandAND \/ ExpandOR
  \/ Exhausted \/ Propagation

Spec     == Init /\ [][Next]_vars
(* solve is a loop of one thread: it takes its next step.                  *)
FairSpec == Spec /\ WF_vars(Next)

-----------------------------------------------------------------------------
(* The type invariant: the shape of every variable.                        *)
TypeOK == SearchTypeOK /\ stack \in Seq(Path)

(* doExpand pushes pointers and eraseChild deletes nodes: nextNode never   *)
(* pops a deleted one.                                                     *)
NoDangling == NoneDangling(OnStack)

(* Every node generated is handled exactly once before it is erased.       *)
NothingLost ==
  /\ \A i, j \in DOMAIN stack : stack[i] = stack[j] => i = j
  /\ OpenNodesAreLeaves(OnStack)

(* The global assignment vector agrees with the path of the node that is   *)
(* processed next: labels, bounds and cache contexts are read from it.     *)
AssignmentOnPath ==
  TakesNode => \A y \in {Var(Prefix(Top, k)) : k \in {k \in 1 .. OrLevel(Top) - 1 : k % 2 = 1}} :
                 assignment[y] = PathValue(Top, y)

(* An OR node that is expanded has a child: "should never happen", says    *)
(* generateChildrenOR, since children are only made with a bound above 0.  *)
NeverEmptyOR ==
  TakesNode /\ IsOR(Top) /\ Expandable(Top) => AndChildren(Top) # {}

(* Pruning, the cache and the bounds never cut off the optimum.            *)
OptimumNotLost == CompletesToOptimum(OnStack)
=============================================================================
