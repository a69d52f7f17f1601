------------------------ MODULE BranchAndBoundRotate ------------------------
(***************************************************************************)
(* Branch and bound with stack rotation (BranchAndBoundRotate.cpp): every  *)
(* independent subproblem gets a stack of its own, the stacks wait in a    *)
(* queue, and the one at the front is left after StackLimit nodes.  So the *)
(* subproblems below an AND node are solved interleaved, not one after the *)
(* other.                                                                  *)
(*                                                                         *)
(* A stack is named by the OR node it was created for.                     *)
(***************************************************************************)
EXTENDS SearchProperties

CONSTANT StackLimit     \* m_stackLimit; 0 is no limit

ASSUME StackLimitAssumption == StackLimit \in Nat

VARIABLES
  stacks,      \* the MyStack objects: [nodes, children, parent]
  queue,       \* m_stacks, its front first
  stackCount   \* m_stackCount

rotateVars == <<prob, node, assignment, cache, curCost, upper, phase, reg,
                stacks, queue, stackCount>>

NewStack(p, parent) == [nodes |-> <<p>>, children |-> 0, parent |-> parent]

Init ==
  /\ SearchInit
  /\ stacks = [s \in {RootNode} |-> NewStack(RootNode, NULL)]
  /\ queue = <<RootNode>>
  /\ stackCount = 0

Front == Head(queue)
Top   == LET s == stacks[Front].nodes IN s[Len(s)]
Popped(s) == SubSeq(s, 1, Len(s) - 1)
OnStacks == UNION {{stacks[s].nodes[i] : i \in DOMAIN stacks[s].nodes} : s \in DOMAIN stacks}

-----------------------------------------------------------------------------
(* nextNode: the reasons to leave the stack at the front of the queue.     *)

WaitsNever == FALSE             \* a stack is used while its children are open
Waits     == stacks[Front].children > 0
Exhausts  == ~Waits /\ stacks[Front].nodes = <<>>
AtLimit   == StackLimit > 0 /\ stackCount = StackLimit
Choosing  == phase = "next" /\ queue # <<>>

Rotated == Append(Tail(queue), Front)

MoveOn ==
  /\ Choosing
  /\ Waits \/ (~Exhausts /\ AtLimit)
  /\ queue' = Rotated
  /\ stackCount' = 0
  /\ UNCHANGED <<stacks, searchVars>>

CleanUpKeepsCount ==            \* delChild is forgotten
  /\ Choosing /\ Exhausts
  /\ stacks' = [s \in DOMAIN stacks \ {Front} |-> stacks[s]]
  /\ queue' = Tail(queue)
  /\ stackCount' = 0
  /\ UNCHANGED searchVars

CleanUp ==
  /\ Choosing /\ Exhausts
  /\ LET parent == stacks[Front].parent
     IN  stacks' = [s \in DOMAIN stacks \ {Front} |->
           IF s = parent THEN [stacks[s] EXCEPT !.children = @ - 1] ELSE stacks[s]]
  /\ queue' = Tail(queue)
  /\ stackCount' = 0
  /\ UNCHANGED searchVars

(* Remain in the current stack: the node on its top is processed.          *)
Takes == Choosing /\ ~Waits /\ ~Exhausts /\ ~AtLimit
Count == stackCount' = IF StackLimit > 0 THEN stackCount + 1 ELSE stackCount

-----------------------------------------------------------------------------
(* doExpand.                                                               *)

Pushed(s) == [stacks EXCEPT ![Front].nodes = Popped(@) \o s]

(* decomposition: the first of s is the last to get its stack              *)
SplitsCountOne(s) ==            \* addChild once for all new stacks
  [c \in DOMAIN stacks \cup {s[i] : i \in DOMAIN s} |->
     IF c = Front THEN [stacks[c] EXCEPT !.nodes = Popped(@), !.children = @ + 1]
     ELSE IF c \in DOMAIN stacks THEN stacks[c]
     ELSE NewStack(c, Front)]

Splits(s) ==
  [c \in DOMAIN stacks \cup {s[i] : i \in DOMAIN s} |->
     IF c = Front THEN [stacks[c] EXCEPT !.nodes = Popped(@), !.children = @ + Len(s)]
     ELSE IF c \in DOMAIN stacks THEN stacks[c]
     ELSE NewStack(c, Front)]

Leaf ==
  /\ Takes /\ Count
  /\ ProcessCacheHit(Top) \/ ProcessPrune(Top) \/ ProcessLeafAND(Top)
  /\ stacks' = Pushed(<<>>)
  /\ UNCHANGED queue

ExpandAND ==
  /\ Takes /\ Count /\ IsAND(Top)
  /\ \E s \in Seqs!SetToSeqs(OrChildren(Top)) :
       /\ ProcessExpandAND(Top, s)
       /\ IF Len(s) = 1
          THEN stacks' = Pushed(s) /\ UNCHANGED queue
          ELSE stacks' = Splits(s) /\ queue' = queue \o Seqs!Reverse(s)

ExpandOR ==
  /\ Takes /\ Count /\ IsOR(Top)
  /\ \E s \in Seqs!SetToSeqs(AndChildren(Top)) :
       ProcessExpandOR(Top, s) /\ stacks' = Pushed(s)
  /\ UNCHANGED queue

Exhausted ==
  /\ phase = "next" /\ queue = <<>>
  /\ phase' = "done"
  /\ UNCHANGED <<prob, node, assignment, cache, curCost, upper, reg, stacks, queue, stackCount>>

Propagation == Climb /\ UNCHANGED <<stacks, queue, stackCount>>

Next == MoveOn \/ CleanUp \/ Leaf \/ ExpandAND \/ ExpandOR \/ Exhausted \/ Propagation

(* solve is a loop of one thread: it takes its next step.                  *)
Spec == Init /\ [][Next]_rotateVars /\ WF_rotateVars(Next)

-----------------------------------------------------------------------------
(* The bookkeeping of the stack tree: m_children counts the stacks whose   *)
(* m_parent points here, the queue holds every stack once, so no stack is  *)
(* deleted while another still points to it and none is forgotten.         *)
StackTree ==
  /\ DOMAIN stacks = {queue[i] : i \in DOMAIN queue}
  /\ \A i, j \in DOMAIN queue : queue[i] = queue[j] => i = j
  /\ \A s \in DOMAIN stacks :
       /\ stacks[s].children = Cardinality({c \in DOMAIN stacks : stacks[c].parent = s})
       /\ stacks[s].parent \in DOMAIN stacks \cup {NULL}

(* Every node generated is handled before it is erased.                    *)
NothingLost == OpenNodesAreLeaves(OnStacks)

(* Pruning with the half solved siblings never cuts off the optimum.       *)
OptimumNotLost == CompletesToOptimum(OnStacks)

(* m_assignment is not restored when the search moves to another stack:    *)
(* what is read of it is nevertheless the path of the node.                *)
ReadsOwnPath ==
  Takes /\ Depth[Var(Top)] >= 0 =>
    \A y \in Ctx[Var(Top)] : assignment[y] = PathValue(Top, y)
=============================================================================
