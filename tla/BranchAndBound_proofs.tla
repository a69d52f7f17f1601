----------------------- MODULE BranchAndBound_proofs -----------------------
(***************************************************************************)
(* For every pseudo tree, every problem and every choice of the options,   *)
(* branch and bound never touches an erased node, handles every node it    *)
(* generates exactly once before the node is erased, reads its global      *)
(* assignment vector only where it holds the path of the node, and never   *)
(* computes or reports a value better than the optimum.  Without           *)
(* propHeuristic, which lowers the bounds during the search, what it reads *)
(* from a cache table, and what it reports at the end, is the optimum.     *)
(*                                                                         *)
(* The invariant is an inductive one: the live nodes form a tree, its      *)
(* leaves are the nodes on the stack and the leaf being propagated, and    *)
(* propagate's highestDelete is a closed node above that leaf.  The parent *)
(* of each node on the stack lies above what has been pushed later, and    *)
(* the assignment agrees with the paths to all these parents.  For the     *)
(* values, an entry of a cache table is at most the optimum on every path  *)
(* that can find it before the table is reset; of the nodes that have been *)
(* handled and are not closed, no two part at a value, so these are few.   *)
(* For the optimum, see OptimumLemmas: values are in step with those of    *)
(* the children, and every node not marked as pruned still has its optimum *)
(* or can get it from children that have.                                  *)
(***************************************************************************)
EXTENDS BranchAndBound, OptimumLemmas

IInv == stack \in Seq(Path) /\ NoRepeat(stack) /\ SearchInv(OnStack)

DepthFirst == Nested(stack)
Assigned == \A i \in DOMAIN stack : Agrees(assignment, Parent(stack[i]))

-----------------------------------------------------------------------------
(* The node that nextNode takes, and the stack without it.                 *)
LEMMA TopOfStack ==
  ASSUME IInv, TakesNode
  PROVE  /\ Top \in OnStack /\ IsNodePath(Top) /\ Top \in Path /\ phase = "next"
         /\ Popped \in Seq(Path) /\ NoRepeat(Popped)
         /\ Elements(Popped) = OnStack \ {Top}
<1>1. stack \in Seq(Path) /\ stack # << >> /\ NoRepeat(stack) /\ phase = "next"
  BY DEF IInv, TakesNode
<1>2. OnStack = Elements(stack)
  BY DEF OnStack, Elements
<1>3. /\ Top \in Elements(stack)
      /\ Popped \in Seq(Path) /\ NoRepeat(Popped)
      /\ Elements(Popped) = Elements(stack) \ {Top}
  BY <1>1, PopStack DEF Top, Popped
<1> QED  BY <1>1, <1>2, <1>3, OpenNode DEF IInv

(* The children t of the node taken are pushed in its place.               *)
LEMMA StackAfter ==
  ASSUME IInv, TakesNode, NEW t \in Seq(Path), NoRepeat(t), Elements(t) \cap Live = {},
         stack' = Popped \o t
  PROVE  /\ stack' \in Seq(Path) /\ NoRepeat(stack')
         /\ OnStack' = (OnStack \ {Top}) \cup Elements(t)
<1>1. /\ Popped \in Seq(Path) /\ NoRepeat(Popped) /\ Elements(Popped) = OnStack \ {Top}
      /\ OnStack \subseteq Live
  BY TopOfStack, OpenNode DEF IInv
<1>2. Elements(Popped) \cap Elements(t) = {}
  BY <1>1
<1>3. /\ stack' \in Seq(Path) /\ NoRepeat(stack')
      /\ Elements(stack') = Elements(Popped) \cup Elements(t)
  BY <1>1, <1>2, PushStack
<1> QED  BY <1>1, <1>3 DEF OnStack, Elements

(* A leaf is taken: it leaves the stack, and propagate starts from it.     *)
LEMMA LeafTaken ==
  ASSUME IInv, HitCache \/ Prune \/ LeafAND
  PROVE  /\ TakesNode /\ phase = "next" /\ Top \in OnStack /\ IsNodePath(Top)
         /\ ProcessCacheHit(Top) \/ ProcessPrune(Top) \/ ProcessLeafAND(Top)
         /\ IInv' /\ OnStack' = OnStack \ {Top} /\ stack' = Popped
         /\ assignment' = AssignmentAt(Top)
<1>1. stack \in Seq(Path) /\ NoRepeat(stack) /\ SearchInv(OnStack)
  BY DEF IInv
<1>2. PICK O, n : O = OnStack /\ n = Top
  OBVIOUS
<1>3. /\ TakesNode /\ stack' = Popped
      /\ ProcessCacheHit(Top) \/ ProcessPrune(Top) \/ ProcessLeafAND(Top)
  BY DEF HitCache, Prune, LeafAND
<1>4. Top \in OnStack /\ phase = "next" /\ Popped \in Seq(Path) /\ IsNodePath(Top)
  BY <1>3, TopOfStack
<1>5. SearchInv(O \ {n})' /\ assignment' = AssignmentAt(n)
  BY <1>1, <1>2, <1>3, <1>4, LeafKeeps
<1> DEFINE t == << >>
<1>6. /\ t \in Seq(Path) /\ NoRepeat(t) /\ Elements(t) = {} /\ stack' = Popped \o t
  BY <1>3, <1>4, EmptySeq DEF NoRepeat, Elements
<1> HIDE DEF t
<1>7. /\ stack' \in Seq(Path) /\ NoRepeat(stack')
      /\ OnStack' = O \ {n}
  BY <1>2, <1>3, <1>6, StackAfter
<1>8. IInv'
  BY <1>5, <1>7 DEF IInv
<1> QED  BY <1>2, <1>3, <1>4, <1>5, <1>7, <1>8

(* A node is expanded: its children s are on the stack in its place.       *)
Expansion(s) ==
  /\ stack' = Popped \o s
  /\ \/ s \in Seqs!SetToSeqs(OrChildren(Top)) /\ ProcessExpandAND(Top, s)
     \/ s \in Seqs!SetToSeqs(AndChildren(Top)) /\ ProcessExpandOR(Top, s)

(* ... and that is what ExpandAND and ExpandOR do.                         *)
LEMMA NodeExpanded ==
  ASSUME IInv, ExpandAND \/ ExpandOR
  PROVE  /\ TakesNode /\ phase = "next" /\ Top \in OnStack /\ IsNodePath(Top)
         /\ IInv' /\ assignment' = AssignmentAt(Top)
         /\ \E s \in Seq(Path) :
              /\ Expansion(s) /\ Elements(s) # {} /\ Elements(s) \cap Live = {}
              /\ \A q \in Elements(s) : IsNodePath(q) /\ Parent(q) = Top
              /\ OnStack' = (OnStack \ {Top}) \cup Elements(s)
<1>1. stack \in Seq(Path) /\ NoRepeat(stack) /\ SearchInv(OnStack)
  BY DEF IInv
<1>2. PICK O, n : O = OnStack /\ n = Top
  OBVIOUS
<1>3. TakesNode /\ \E s : Expansion(s)
  BY DEF ExpandAND, ExpandOR, Expansion
<1>4. PICK s : Expansion(s)
  BY <1>3
<1>5. Top \in OnStack /\ phase = "next" /\ IsNodePath(Top)
  BY <1>3, TopOfStack
<1>6. /\ SearchInv((O \ {n}) \cup Elements(s))' /\ Elements(s) \cap Live = {}
      /\ assignment' = AssignmentAt(n) /\ s \in Seq(Path) /\ NoRepeat(s) /\ Elements(s) # {}
      /\ \A q \in Elements(s) : IsNodePath(q) /\ Parent(q) = n
  BY <1>1, <1>2, <1>4, <1>5, ExpandKeeps DEF Expansion
<1>7. /\ stack' \in Seq(Path) /\ NoRepeat(stack')
      /\ OnStack' = (O \ {n}) \cup Elements(s)
  BY <1>2, <1>3, <1>4, <1>6, StackAfter DEF Expansion
<1>8. IInv'
  BY <1>6, <1>7 DEF IInv
<1> QED  BY <1>2, <1>3, <1>4, <1>5, <1>6, <1>7, <1>8

(* Every step that takes a node puts its children t in its place, none for *)
(* a leaf, and writes the assignment if it is an AND node; the other steps *)
(* leave the stack and the assignment alone.                               *)
LEMMA Steps ==
  ASSUME IInv, [Next]_vars
  PROVE  /\ IInv'
         /\ \/ /\ TakesNode /\ assignment' = AssignmentAt(Top)
               /\ \E t \in Seq(Path) : /\ \A i \in DOMAIN t : Parent(t[i]) = Top
                                     /\ stack' = Popped \o t
            \/ stack' = stack /\ assignment' = assignment
<1>1. stack \in Seq(Path) /\ NoRepeat(stack) /\ SearchInv(OnStack)
  BY DEF IInv
<1>2. PICK O, n : O = OnStack /\ n = Top
  OBVIOUS
<1>3. CASE HitCache \/ Prune \/ LeafAND
  <2>1. /\ TakesNode /\ stack' = Popped /\ IInv' /\ assignment' = AssignmentAt(Top)
    BY <1>3, LeafTaken
  <2> DEFINE t == << >>
  <2>2. /\ t \in Seq(Path) /\ DOMAIN t = {} /\ stack' = Popped \o t
    BY <2>1, TopOfStack, EmptySeq
  <2> HIDE DEF t
  <2> QED  BY <2>1, <2>2
<1>4. CASE ExpandAND \/ ExpandOR
  <2>1. /\ TakesNode /\ IInv' /\ assignment' = AssignmentAt(Top)
        /\ \E s \in Seq(Path) : /\ Expansion(s)
                                /\ \A q \in Elements(s) : Parent(q) = Top
    BY <1>4, NodeExpanded
  <2>2. PICK s \in Seq(Path) : Expansion(s) /\ \A q \in Elements(s) : Parent(q) = Top
    BY <2>1
  <2>3. \A i \in DOMAIN s : Parent(s[i]) = Top
    BY <2>2 DEF Elements
  <2> QED  BY <2>1, <2>2, <2>3 DEF Expansion
<1>5. ASSUME stack' = stack, SearchInv(O)' PROVE IInv'
  <2>1. OnStack' = O
    BY <1>2, <1>5 DEF OnStack
  <2> QED  BY <1>1, <1>5, <2>1 DEF IInv
<1>6. CASE Exhausted
  <2>1. /\ ~Climbing /\ ~Climbing' /\ phase' = "done"
        /\ Live' = Live /\ reg' = reg /\ stack' = stack
        /\ assignment' = assignment /\ cache' = cache
    BY <1>6 DEF Exhausted, Climbing, Live
  <2>2. SearchInv(O)'
    BY <1>1, <1>2, <2>1, QuietStep DEF SearchInv, SearchTypeOK
  <2> QED  BY <1>5, <2>1, <2>2
<1>7. CASE Propagation
  <2>1. Climb /\ stack' = stack /\ assignment' = assignment
    BY <1>7, ClimbReads DEF Propagation
  <2>2. SearchInv(O)'
    BY <1>1, <1>2, <2>1, ClimbKeeps
  <2> QED  BY <1>5, <2>1, <2>2
<1>8. CASE UNCHANGED vars
  <2>1. stack' = stack /\ assignment' = assignment
    BY <1>8 DEF vars
  <2>2. SearchInv(O)'
    BY <1>1, <1>2, <1>8 DEF vars, SearchInv, SearchTypeOK, Live, Pointers, Climbing
  <2> QED  BY <1>5, <2>1, <2>2
<1> QED  BY <1>3, <1>4, <1>6, <1>7, <1>8 DEF Next

(* A search begins with the root on the stack.                            *)
LEMMA InitIInv == Init => IInv
<1> SUFFICES ASSUME Init PROVE IInv
  OBVIOUS
<1>1. RootNode \in Path /\ stack = << RootNode >>
  BY InitSearch, OpenNode DEF Init, SearchInit
<1>2. OnStack = {RootNode} /\ NoRepeat(stack) /\ stack \in Seq(Path)
  BY <1>1 DEF OnStack, NoRepeat
<1> QED  BY <1>2, InitSearch DEF Init, IInv

(* The children pushed in a step have the node taken as their parent, and  *)
(* that node lies below the parents of all that stays on the stack.        *)
LEMMA PathsStep ==
  ASSUME IInv, DepthFirst, Assigned, [Next]_vars
  PROVE  DepthFirst' /\ Assigned'
<1>1. CASE stack' = stack /\ assignment' = assignment
  BY <1>1 DEF DepthFirst, Assigned, Nested
<1>2. CASE /\ TakesNode /\ assignment' = AssignmentAt(Top)
           /\ \E t \in Seq(Path) : /\ \A i \in DOMAIN t : Parent(t[i]) = Top
                                 /\ stack' = Popped \o t
  <2>1. PICK t \in Seq(Path) : /\ \A i \in DOMAIN t : Parent(t[i]) = Top
                              /\ stack' = Popped \o t
    BY <1>2
  <2> DEFINE m == Len(stack) - 1
             n == Top
             a == AssignmentAt(Top)
  <2>2. /\ IsNodePath(n) /\ n \in Path /\ Len(n) >= 1
        /\ stack \in Seq(Path) /\ stack # << >> /\ n = stack[Len(stack)]
        /\ \A e \in Elements(t) : Parent(e) = n
    BY <1>2, <2>1, TopOfStack DEF IInv, TakesNode, Elements, IsNodePath, Top
  <2>3. /\ m \in Nat /\ DOMAIN stack = 1 .. m + 1
        /\ \A i \in 1 .. m : i \in DOMAIN stack' /\ stack'[i] = stack[i]
        /\ \A i \in DOMAIN stack' : i \notin 1 .. m => stack'[i] \in Elements(t) /\ i > m
    BY <2>1, <2>2, ReplaceTop DEF Popped
  <2>4. /\ Nested(stack')
        /\ \A i \in DOMAIN stack : i # Len(stack) => Above(Parent(stack[i]), n)
    BY <2>1, <2>2, NestedReplace DEF Popped, DepthFirst
  <2>5. Len(stack) = m + 1 /\ m + 1 \in DOMAIN stack
    BY <2>2, <2>3
  <2>6. Agrees(a, n)
    <3>1. Agrees(assignment, Parent(n))
      BY <2>2, <2>5 DEF Assigned
    <3> QED  BY <2>2, <3>1, AgreesNow DEF IInv, SearchInv, SearchTypeOK
  <2> HIDE DEF m, n, a
  <2>7. ASSUME NEW i \in DOMAIN stack' PROVE Agrees(a, Parent(stack'[i]))
    <3>1. CASE i \in 1 .. m
      <4>1. i \in DOMAIN stack /\ i # Len(stack) /\ stack'[i] = stack[i]
        BY <2>3, <2>5, <3>1
      <4>2. stack[i] \in Path
        BY <2>2, <4>1, InQueue DEF Elements
      <4>3. Parent(stack[i]) \in Path /\ Above(Parent(stack[i]), n)
        BY <2>4, <4>1, <4>2, ParentPath
      <4> QED  BY <2>2, <2>6, <4>1, <4>3, AgreesAbove
    <3>2. CASE i \notin 1 .. m
      BY <2>2, <2>3, <2>6, <3>2
    <3> QED  BY <3>1, <3>2
  <2> QED  BY <1>2, <2>4, <2>7 DEF DepthFirst, Assigned, a
<1> QED  BY <1>1, <1>2, Steps

-----------------------------------------------------------------------------
(* The nodes handled and not yet erased lie above the next one to be taken, *)
(* since each has an open node below it.                                   *)
LEMMA OpenPath ==
  ASSUME IInv, DepthFirst, Handled(OnStack), ~Climbing, stack # << >>
  PROVE  \A q \in Live \ OnStack : Above(q, Top)
<1> SUFFICES ASSUME NEW q \in Live, q \notin OnStack PROVE Above(q, Top)
  OBVIOUS
<1>1. /\ stack \in Seq(Path) /\ Len(stack) \in DOMAIN stack /\ Top \in OnStack
      /\ DOMAIN stack = 1 .. Len(stack) /\ Len(stack) \in Nat
  <2>1. stack \in Seq(Path)
    BY DEF IInv
  <2>2. Len(stack) \in Nat /\ DOMAIN stack = 1 .. Len(stack) /\ Len(stack) # 0
    BY <2>1, LenProperties, EmptySeq
  <2>3. Len(stack) \in DOMAIN stack
    BY <2>2
  <2> QED  BY <2>1, <2>2, <2>3 DEF Top, OnStack
<1>2. OnStack \subseteq Live /\ Tree(Live)
  BY NothingDangles DEF IInv, SearchInv, NoneDangling
<1>3. IsNodePath(q) /\ IsNodePath(Top) /\ q \in Path /\ Top \in Path /\ Len(Top) >= 1
  BY <1>1, <1>2 DEF Tree, IsNodePath
<1>4. CASE q = RootNode
  BY <1>3, <1>4, RootAbove
<1>5. CASE q # RootNode
  <2>1. PICK o \in OnStack : Above(q, o)
    BY <1>5 DEF Handled, Covers, Pending
  <2>2. PICK i \in DOMAIN stack : o = stack[i]
    BY DEF OnStack
  <2>3. o \in Path /\ Len(o) >= 1 /\ q # o
    BY <1>2 DEF Tree, IsNodePath
  <2>4. Above(q, Parent(o))
    BY <1>3, <2>1, <2>3, AboveOfParent
  <2>5. Above(Parent(o), Parent(Top))
    <3>1. CASE i = Len(stack)
      <4>1. o = Top /\ Parent(o) \in Path
        BY <2>2, <2>3, <3>1, ParentPath DEF Top
      <4> QED  BY <4>1, AbovePrefix
    <3>2. CASE i # Len(stack)
      <4>1. i < Len(stack)
        BY <1>1, <3>2
      <4> QED  BY <1>1, <2>2, <4>1 DEF DepthFirst, Nested, Top
    <3> QED  BY <3>1, <3>2
  <2>6. Above(q, Parent(Top))
    BY <1>3, <2>3, <2>4, <2>5, ParentPath, AboveTransitive
  <2> QED  BY <1>3, <2>6, BelowParent
<1> QED  BY <1>4, <1>5

(* Every step keeps the handled nodes where they are.                      *)
LEMMA HandledKept ==
  ASSUME IInv, DepthFirst, Handled(OnStack), [Next]_vars
  PROVE  Handled(OnStack)'
<1>1. SearchInv(OnStack)
  BY DEF IInv
<1>2. PICK O, n : O = OnStack /\ n = Top
  OBVIOUS
<1>3. TakesNode => \A a \in Live \ O : Above(a, n)
  BY <1>2, OpenPath DEF TakesNode, Climbing
<1>4. CASE HitCache \/ Prune \/ LeafAND
  <2>1. /\ TakesNode /\ n \in O /\ phase = "next" /\ OnStack' = O \ {n}
        /\ ProcessCacheHit(n) \/ ProcessPrune(n) \/ ProcessLeafAND(n)
    BY <1>2, <1>4, LeafTaken
  <2>2. Handled(O \ {n})'
    BY <1>1, <1>2, <1>3, <2>1, HandledLeaf
  <2> QED  BY <2>1, <2>2
<1>5. CASE ExpandAND \/ ExpandOR
  <2>1. /\ TakesNode /\ n \in O /\ phase = "next"
        /\ \E s \in Seq(Path) : Expansion(s) /\ OnStack' = (O \ {n}) \cup Elements(s)
    BY <1>2, <1>5, NodeExpanded
  <2>2. PICK s : Expansion(s) /\ OnStack' = (O \ {n}) \cup Elements(s)
    BY <2>1
  <2>3. \/ s \in Seqs!SetToSeqs(OrChildren(n)) /\ ProcessExpandAND(n, s)
        \/ s \in Seqs!SetToSeqs(AndChildren(n)) /\ ProcessExpandOR(n, s)
    BY <1>2, <2>2 DEF Expansion
  <2>4. Handled((O \ {n}) \cup Elements(s))'
    BY <1>1, <1>2, <1>3, <2>1, <2>3, HandledExpand
  <2> QED  BY <2>2, <2>4
<1>6. CASE Exhausted \/ UNCHANGED vars
  <2>1. OnStack' = O /\ Live' = Live /\ (Climbing' <=> Climbing) /\ (Climbing => reg' = reg)
    BY <1>2, <1>6 DEF Exhausted, vars, OnStack, Live, Climbing
  <2>2. Handled(O)'
    BY <1>2, <2>1, HandledSame
  <2> QED  BY <2>1, <2>2
<1>7. CASE Propagation
  <2>1. Climb /\ OnStack' = O
    BY <1>2, <1>7 DEF Propagation, OnStack
  <2>2. Handled(O)'
    BY <1>1, <1>2, <2>1, HandledClimb
  <2> QED  BY <2>1, <2>2
<1> QED  BY <1>4, <1>5, <1>6, <1>7 DEF Next

(* The parent of the node taken is on the path that the assignment holds.  *)
LEMMA TakenOnPath == ASSUME IInv, Assigned, TakesNode PROVE Agrees(assignment, Parent(Top))
<1>1. stack \in Seq(Path) /\ stack # << >>
  BY DEF IInv, TakesNode
<1>2. Len(stack) \in Nat /\ DOMAIN stack = 1 .. Len(stack) /\ Len(stack) # 0
  BY <1>1, LenProperties, EmptySeq
<1>3. Len(stack) \in DOMAIN stack
  BY <1>2
<1> QED  BY <1>3 DEF Assigned, Top

(* Every step leaves values and cache entries at most what they stand for. *)
LEMMA CostStep ==
  ASSUME IInv, DepthFirst, Assigned, Handled(OnStack), CostInv(OnStack), [Next]_vars
  PROVE  CostInv(OnStack)'
<1>1. SearchInv(OnStack) /\ stack \in Seq(Path)
  BY DEF IInv
<1>2. PICK O, n : O = OnStack /\ n = Top
  OBVIOUS
<1>3. TakesNode => Agrees(assignment, Parent(n))
  BY <1>2, TakenOnPath
<1>4. CASE HitCache \/ Prune \/ LeafAND
  <2>1. /\ TakesNode /\ n \in O /\ phase = "next" /\ OnStack' = O \ {n}
        /\ ProcessCacheHit(n) \/ ProcessPrune(n) \/ ProcessLeafAND(n)
    BY <1>2, <1>4, LeafTaken
  <2>2. CostInv(O \ {n})'
    BY <1>1, <1>2, <1>3, <2>1, HitFits, PruneFits, LeafANDFits
  <2> QED  BY <2>1, <2>2
<1>5. CASE ExpandAND \/ ExpandOR
  <2>1. /\ TakesNode /\ n \in O /\ phase = "next"
        /\ \E s \in Seq(Path) : Expansion(s) /\ OnStack' = (O \ {n}) \cup Elements(s)
    BY <1>2, <1>5, NodeExpanded
  <2>2. PICK s : Expansion(s) /\ OnStack' = (O \ {n}) \cup Elements(s)
    BY <2>1
  <2>3. CASE s \in Seqs!SetToSeqs(OrChildren(n)) /\ ProcessExpandAND(n, s)
    <3>1. CostInv((O \ {n}) \cup Elements(s))'
      BY <1>1, <1>2, <1>3, <2>1, <2>3, ExpandANDFits
    <3> QED  BY <2>2, <3>1
  <2>4. CASE s \in Seqs!SetToSeqs(AndChildren(n)) /\ ProcessExpandOR(n, s)
    <3>1. CostInv((O \ {n}) \cup Elements(s))'
      BY <1>1, <1>2, <1>3, <2>1, <2>4, ExpandORFits
    <3> QED  BY <2>2, <3>1
  <2> QED  BY <1>2, <2>2, <2>3, <2>4 DEF Expansion
<1>6. CASE Exhausted \/ UNCHANGED vars
  <2>1. /\ OnStack' = O /\ prob' = prob /\ curCost' = curCost /\ cache' = cache
        /\ Live' = Live /\ node' = node
    BY <1>2, <1>6 DEF Exhausted, vars, OnStack, Live
  <2>2. CostInv(O)'
    BY <1>2, <2>1, BoundsOnly
  <2> QED  BY <2>1, <2>2
<1>7. CASE Propagation
  <2>1. Climb /\ OnStack' = O
    BY <1>2, <1>7 DEF Propagation, OnStack
  <2>2. OneValued(Live \ O)
    BY <1>2 DEF Handled
  <2>3. CostInv(O)'
    BY <1>1, <1>2, <2>1, <2>2, HeurFits, PropagateANDFits, PropagateORFits, FinishFits DEF Climb
  <2> QED  BY <2>1, <2>3
<1> QED  BY <1>4, <1>5, <1>6, <1>7 DEF Next

(* Every step leaves the OR nodes with a value that the functions allow.   *)
LEMMA FeasibleAlways ==
  ASSUME IInv, Assigned, CostInv(OnStack), AllFeasible, [Next]_vars
  PROVE  AllFeasible'
<1>1. PICK O, n : O = OnStack /\ n = Top
  OBVIOUS
<1>2. SearchInv(O)
  BY <1>1 DEF IInv
<1>3. CASE HitCache \/ Prune \/ LeafAND
  <2>1. /\ phase = "next" /\ n \in O
        /\ ProcessCacheHit(n) \/ ProcessPrune(n) \/ ProcessLeafAND(n)
    BY <1>1, <1>3, LeafTaken
  <2> QED  BY <1>1, <1>2, <2>1, FeasibleStep
<1>4. CASE ExpandAND \/ ExpandOR
  <2>1. TakesNode /\ phase = "next" /\ n \in O /\ \E s \in Seq(Path) : Expansion(s)
    BY <1>1, <1>4, NodeExpanded
  <2>2. Agrees(assignment, Parent(n))
    BY <1>1, <2>1, TakenOnPath
  <2>3. \/ \E s \in Seqs!SetToSeqs(OrChildren(n)) : ProcessExpandAND(n, s)
        \/ \E s \in Seqs!SetToSeqs(AndChildren(n)) : ProcessExpandOR(n, s)
    BY <1>1, <2>1 DEF Expansion
  <2> QED  BY <1>1, <1>2, <2>1, <2>2, <2>3, FeasibleStep
<1>5. CASE Exhausted \/ UNCHANGED vars
  <2>1. Live' = Live /\ prob' = prob
    BY <1>5 DEF Exhausted, vars, Live
  <2> QED  BY <2>1 DEF AllFeasible
<1>6. CASE Propagation
  BY <1>1, <1>2, <1>6, FeasibleStep DEF Propagation
<1> QED  BY <1>3, <1>4, <1>5, <1>6 DEF Next

(* Every step keeps all that makes the result the optimum; the bounds of   *)
(* the nodes do not change, since propHeuristic is not used.               *)
LEMMA OptStep ==
  ASSUME ~PropHeuristic, IInv, Assigned, Handled(OnStack), CostInv(OnStack), OptInv(OnStack),
         [Next]_vars
  PROVE  OptInv(OnStack)'
<1>1. SearchInv(OnStack) /\ stack \in Seq(Path)
  BY DEF IInv
<1>2. PICK O, n : O = OnStack /\ n = Top
  OBVIOUS
<1>3. TakesNode => Agrees(assignment, Parent(n))
  BY <1>2, TakenOnPath
<1>4. CASE HitCache \/ Prune \/ LeafAND
  <2>1. /\ TakesNode /\ n \in O /\ phase = "next" /\ OnStack' = O \ {n}
        /\ ProcessCacheHit(n) \/ ProcessPrune(n) \/ ProcessLeafAND(n)
    BY <1>2, <1>4, LeafTaken
  <2>2. OptInv(O \ {n})'
    BY <1>1, <1>2, <1>3, <2>1, OptLeaf
  <2> QED  BY <2>1, <2>2
<1>5. CASE ExpandAND \/ ExpandOR
  <2>1. /\ TakesNode /\ n \in O /\ phase = "next"
        /\ \E s \in Seq(Path) : Expansion(s) /\ OnStack' = (O \ {n}) \cup Elements(s)
    BY <1>2, <1>5, NodeExpanded
  <2>2. PICK s : Expansion(s) /\ OnStack' = (O \ {n}) \cup Elements(s)
    BY <2>1
  <2>3. \/ s \in Seqs!SetToSeqs(OrChildren(n)) /\ ProcessExpandAND(n, s)
        \/ s \in Seqs!SetToSeqs(AndChildren(n)) /\ ProcessExpandOR(n, s)
    BY <1>2, <2>2 DEF Expansion
  <2>4. OptInv((O \ {n}) \cup Elements(s))'
    BY <1>1, <1>2, <1>3, <2>1, <2>3, OptExpand
  <2> QED  BY <2>2, <2>4
<1>6. CASE Exhausted \/ UNCHANGED vars
  <2>1. /\ OnStack' = O /\ prob' = prob /\ curCost' = curCost /\ cache' = cache
        /\ Live' = Live /\ node' = node /\ reg' = reg
        /\ phase' = phase \/ (phase = "next" /\ phase' = "done")
    BY <1>2, <1>6 DEF Exhausted, vars, OnStack, Live
  <2>2. OptInv(O)'
    BY <1>2, <2>1, OptRest
  <2> QED  BY <2>1, <2>2
<1>7. CASE Propagation
  <2>1. Climb /\ OnStack' = O
    BY <1>2, <1>7 DEF Propagation, OnStack
  <2>2. OneValued(Live \ O)
    BY <1>2 DEF Handled
  <2>3. OptInv(O)'
    BY <1>1, <1>2, <2>1, <2>2, OptClimb
  <2> QED  BY <2>1, <2>3
<1> QED  BY <1>4, <1>5, <1>6, <1>7 DEF Next

-----------------------------------------------------------------------------
(* The inductive invariant holds in every reachable state.                 *)
THEOREM Invariance == Spec => [](IInv /\ DepthFirst /\ Assigned)
<1>1. Init => IInv /\ DepthFirst /\ Assigned
  <2> SUFFICES ASSUME Init PROVE DepthFirst /\ Assigned
    BY InitIInv
  <2>1. stack = << RootNode >> /\ DOMAIN stack = {1} /\ Parent(stack[1]) = << >>
    <3>1. stack = << RootNode >> /\ RootNode \in Path /\ Len(RootNode) = 1
      BY InitSearch, OpenNode DEF Init, SearchInit, RootNode
    <3>2. Parent(RootNode) \in Path /\ Len(Parent(RootNode)) = 0
      <4>1. PICK p \in Path : p = RootNode
        BY <3>1
      <4>2. Len(p) = 1 /\ Parent(p) \in Path /\ Len(p) >= 1
        BY <3>1, <4>1, ParentPath
      <4>3. Len(Parent(p)) = Len(p) - 1
        BY <4>2, ParentPath
      <4> QED  BY <4>1, <4>2, <4>3
    <3>3. Parent(RootNode) = << >>
      BY <3>2, EmptySeq DEF Path
    <3> QED  BY <3>1, <3>3
  <2> QED  BY <2>1 DEF DepthFirst, Nested, Assigned, Agrees
<1>2. IInv /\ DepthFirst /\ Assigned /\ [Next]_vars => (IInv /\ DepthFirst /\ Assigned)'
  BY Steps, PathsStep
<1> QED  BY <1>1, <1>2, PTL DEF Spec

(* TypeOK: every variable of the search keeps its shape; in particular the *)
(* nodes stay paths and the cache keeps one table for each variable.       *)
THEOREM TypeCorrect == Spec => []TypeOK
<1>1. IInv => TypeOK
  BY DEF IInv, SearchInv, TypeOK
<1> QED  BY <1>1, Invariance, PTL

(* NoDangling: whatever the stack holds and propagate points to has not    *)
(* been deleted by eraseChild, nor has any ancestor of a live node.        *)
THEOREM NoDanglingHolds == Spec => []NoDangling
<1>1. IInv => NoDangling
  BY NothingDangles DEF IInv, NoDangling
<1> QED  BY <1>1, Invariance, PTL

(* NothingLost: no node is on the stack twice, and the childless nodes are *)
(* exactly those still to be handled and the leaf being propagated: none   *)
(* is dropped without being handled, none stays behind after it is closed. *)
THEOREM NothingLostHolds == Spec => []NothingLost
<1>1. IInv => NothingLost
  BY LeavesAreOpen DEF IInv, NoRepeat, NothingLost
<1> QED  BY <1>1, Invariance, PTL

(* AssignmentOnPath: when a node is taken, m_assignment holds the values   *)
(* of its ancestors, although nothing ever restores what other branches    *)
(* have written: labels, bounds and cache contexts are those of its path.  *)
THEOREM AssignmentOnPathHolds == Spec => []AssignmentOnPath
<1>1. IInv /\ Assigned => AssignmentOnPath
  <2> SUFFICES ASSUME IInv, Assigned, TakesNode,
                      NEW k \in 1 .. OrLevel(Top) - 1, k % 2 = 1
               PROVE  assignment[Var(Prefix(Top, k))] = PathValue(Top, Var(Prefix(Top, k)))
    BY DEF AssignmentOnPath
  <2>1. /\ IsNodePath(Top) /\ Top \in Path /\ Len(Top) \in Nat
        /\ Len(stack) \in DOMAIN stack
    BY TopOfStack, ParentPath, EmptySeq, LenProperties DEF IInv, TakesNode
  <2>2. Agrees(assignment, Parent(Top))
    BY <2>1 DEF Assigned, Top
  <2>3. assignment[Top[k]] = PathValue(Top, Top[k])
    BY <2>1, <2>2, ReadsPath
  <2>4. k \in 0 .. Len(Top) /\ k >= 1
    BY <2>1 DEF OrLevel
  <2>5. Len(Prefix(Top, k)) = k /\ Prefix(Top, k)[k] = Top[k]
    BY <2>1, <2>4, PrefixPath
  <2>6. Var(Prefix(Top, k)) = Top[k]
    BY <2>5 DEF Var, IsOR
  <2> QED  BY <2>3, <2>6
<1> QED  BY <1>1, Invariance, PTL

-----------------------------------------------------------------------------
(* The costs in the nodes and in the tables, and the places of the nodes   *)
(* that make a table entry belong to every node that finds it, are         *)
(* invariant.                                                              *)
THEOREM CostInvariance ==
  Spec => [](IInv /\ DepthFirst /\ Assigned /\ Handled(OnStack) /\ CostInv(OnStack))
<1>1. Init => Handled(OnStack) /\ CostInv(OnStack)
  <2> SUFFICES ASSUME Init PROVE Handled(OnStack) /\ CostInv(OnStack)
    OBVIOUS
  <2>1. OnStack = {RootNode}
    BY DEF Init, OnStack
  <2> QED  BY <2>1, InitHandled, InitFits DEF Init
<1>2. IInv /\ DepthFirst /\ Assigned /\ Handled(OnStack) /\ CostInv(OnStack) /\ [Next]_vars
      => (Handled(OnStack) /\ CostInv(OnStack))'
  BY HandledKept, CostStep
<1> QED  BY <1>1, <1>2, Invariance, PTL DEF Spec

(* ValuesAreLowerBounds: whatever has been pruned, found in a table or put *)
(* together from erased children, a value that propagate computes or the   *)
(* cache delivers is never better than the optimum of its subproblem.      *)
THEOREM ValuesAreLowerBoundsHold == Spec => []ValuesAreLowerBounds
<1>1. CostInv(OnStack) => ValuesAreLowerBounds
  BY DEF CostInv, NodesFit, NodeOK, Exact, ValuesAreLowerBounds
<1> QED  BY <1>1, CostInvariance, PTL

(* NeverEmptyOR: generateChildrenOR never finds itself without a child to  *)
(* push, which would leave the node open for ever: an OR node is only made *)
(* with a bound above zero, and that takes a value its functions allow.    *)
THEOREM NeverEmptyORHolds == Spec => []NeverEmptyOR
<1>1. Init => AllFeasible
  <2> SUFFICES ASSUME Init PROVE AllFeasible
    OBVIOUS
  <2>1. Live = {RootNode} /\ prob \in Problems
    BY DEF Init, SearchInit, Live
  <2> QED  BY <2>1, RootFeasible DEF AllFeasible
<1>2. /\ IInv /\ DepthFirst /\ Assigned /\ Handled(OnStack) /\ CostInv(OnStack)
      /\ AllFeasible /\ [Next]_vars
      => AllFeasible'
  BY FeasibleAlways
<1>3. IInv /\ CostInv(OnStack) /\ AllFeasible => NeverEmptyOR
  <2> SUFFICES ASSUME IInv, CostInv(OnStack), AllFeasible, TakesNode, IsOR(Top)
               PROVE  AndChildren(Top) # {}
    BY DEF NeverEmptyOR
  <2>1. Top \in Live
    BY TopOfStack, OpenNode DEF IInv
  <2>2. PICK O, n : O = OnStack /\ n = Top
    OBVIOUS
  <2> QED  BY <2>1, <2>2, FeasibleHasChild
<1> QED  BY <1>1, <1>2, <1>3, CostInvariance, PTL DEF Spec

(* The solution cost that Problem::updateSolution reports while the search *)
(* runs, and keeps when it is stopped, is never better than the optimum.   *)
THEOREM ReportedCostReachable == Spec => [](~Greater(curCost, Optimum(prob)))
<1>1. CostInv(OnStack) => ~Greater(curCost, Optimum(prob))
  BY DEF CostInv
<1> QED  BY <1>1, CostInvariance, PTL

-----------------------------------------------------------------------------
(* solve returns when no node is left to be taken. *)
Emptied == phase = "done" => stack = << >>

(* Without propHeuristic, all that makes the result the optimum is kept.   *)
THEOREM OptInvariance ==
  ASSUME ~PropHeuristic
  PROVE  Spec => [](OptInv(OnStack) /\ Emptied)
<1>1. Init => OptInv(OnStack) /\ Emptied
  <2> SUFFICES ASSUME Init PROVE OptInv(OnStack) /\ Emptied
    OBVIOUS
  <2>1. OnStack = {RootNode} /\ phase = "next"
    BY DEF Init, OnStack, SearchInit
  <2>2. OptInv({RootNode})
    BY OptInit DEF Init
  <2> QED  BY <2>1, <2>2 DEF Emptied
<1>2. /\ IInv /\ DepthFirst /\ Assigned /\ Handled(OnStack) /\ CostInv(OnStack)
      /\ OptInv(OnStack) /\ Emptied /\ [Next]_vars
      => (OptInv(OnStack) /\ Emptied)'
  <2> SUFFICES ASSUME IInv, Assigned, Handled(OnStack), CostInv(OnStack),
                      OptInv(OnStack), Emptied, [Next]_vars
               PROVE  OptInv(OnStack)' /\ Emptied'
    OBVIOUS
  <2>1. OptInv(OnStack)'
    BY OptStep
  <2>2. phase \notin {"heur", "heurEnd"}
    BY DEF OptInv, InSync
  <2>3. phase' = "done" => stack' = << >>
    <3>1. CASE HitCache \/ Prune \/ LeafAND
      BY <3>1 DEF HitCache, Prune, LeafAND, ProcessCacheHit, ProcessPrune, ProcessLeafAND,
                  PropagateFrom
    <3>2. CASE ExpandAND \/ ExpandOR
      BY <3>2 DEF ExpandAND, ExpandOR, ProcessExpandAND, ProcessExpandOR, Deliver
    <3>3. CASE Exhausted \/ UNCHANGED vars
      BY <3>3 DEF Exhausted, vars, Emptied
    <3>4. CASE Propagation
      BY <2>2, <3>4 DEF Propagation, Climb, PropHeurAND, PropHeurOR, PropHeurEnd, PropagateAND,
                        PropagateOR, PropagateFinish, ClimbOn
    <3> QED  BY <3>1, <3>2, <3>3, <3>4 DEF Next
  <2> QED  BY <2>1, <2>3 DEF Emptied
<1> QED  BY <1>1, <1>2, CostInvariance, PTL DEF Spec

(* CacheHitsExact: whatever other branches have written to it, and when, a *)
(* table delivers the optimum of the subproblem to every node that looks   *)
(* itself up, also when its adaptive context leaves variables out.         *)
THEOREM CacheHitsExactHolds ==
  ASSUME ~PropHeuristic
  PROVE  Spec => []CacheHitsExact
<1>1. OptInv(OnStack) => CacheHitsExact
  BY DEF OptInv
<1> QED  BY <1>1, OptInvariance, PTL

(* Only propagate enters anything in a table.                              *)
LEMMA StepWritesExact ==
  ASSUME IInv, CostInv(OnStack), OptInv(OnStack), [Next]_vars
  PROVE  NewEntriesExact
<1>1. SearchInv(OnStack)
  BY DEF IInv
<1>2. CASE Propagation
  BY <1>1, <1>2, ExactEntered DEF Propagation
<1>3. CASE ~Propagation
  <2>1. cache' = cache \/ \E n : cache' = CacheAt(n)
    BY <1>3 DEF Next, HitCache, Prune, LeafAND, ExpandAND, ExpandOR, ProcessCacheHit,
                ProcessPrune, ProcessLeafAND, ProcessExpandAND, ProcessExpandOR, Exhausted, vars
  <2> QED  BY <2>1, NothingEntered
<1> QED  BY <1>2, <1>3

(* CacheWritesExact: although parts of a subproblem may have been pruned   *)
(* against solutions found elsewhere, what propagate writes to a table is  *)
(* the optimum: a node that lost its optimum to pruning is marked, and a   *)
(* marked node is not written.                                             *)
THEOREM CacheWritesExactHolds ==
  ASSUME ~PropHeuristic
  PROVE  Spec => CacheWritesExact
<1>1. IInv /\ CostInv(OnStack) /\ OptInv(OnStack) /\ [Next]_vars
      => [NewEntriesExact]_searchVars
  BY StepWritesExact
<1>2. Spec => [][NewEntriesExact]_searchVars
  BY <1>1, CostInvariance, OptInvariance, PTL DEF Spec
<1> QED  BY <1>2 DEF CacheWritesExact, NewEntriesExact

(* ResultOptimal: when solve returns, the value of the root and the cost   *)
(* that Problem holds are the optimum.                                     *)
THEOREM ResultOptimalHolds ==
  ASSUME ~PropHeuristic
  PROVE  Spec => []ResultOptimal
<1>1. Handled(OnStack) /\ CostInv(OnStack) /\ OptInv(OnStack) /\ Emptied => ResultOptimal
  <2> SUFFICES ASSUME Handled(OnStack), CostInv(OnStack), OptInv(OnStack), Emptied, phase = "done"
               PROVE  node[RootNode].value = Optimum(prob) /\ curCost = Optimum(prob)
    BY DEF ResultOptimal
  <2>1. OnStack = {} /\ ~Climbing
    BY EmptySeq DEF Emptied, OnStack, Climbing
  <2>2. Live = {RootNode}
    BY <2>1, OnlyRootLeft DEF OptInv, InSync, RootKept
  <2>3. CostInv({}) /\ OptInv({})
    BY <2>1
  <2> QED  BY <2>2, <2>3, OptDone
<1> QED  BY <1>1, CostInvariance, OptInvariance, PTL

(* A step improves the cost reported, or ends the search, or does neither. *)
LEMMA AnytimeStep ==
  ASSUME IInv, Handled(OnStack), CostInv(OnStack), OptInv(OnStack), [Next]_vars,
         CostInv(OnStack)'
  PROVE  [Anytime!Improve \/ Anytime!Finish]_Progress
<1>1. PICK O : O = OnStack
  OBVIOUS
<1>2. CASE Exhausted
  <2>1. /\ stack = << >> /\ phase = "next" /\ phase' = "done"
        /\ curCost' = curCost /\ prob' = prob
    BY <1>2 DEF Exhausted
  <2>2. O = {}
    BY <1>1, <2>1, EmptySeq DEF OnStack
  <2> QED  BY <1>1, <2>1, <2>2, AnytimeEnd
<1>3. CASE Propagation
  <2>1. Climb /\ OnStack' = O
    BY <1>1, <1>3 DEF Propagation, OnStack
  <2>2. CostInv(O)'
    BY <2>1
  <2> QED  BY <1>1, <2>1, <2>2, AnytimeClimb
<1>4. CASE ~Exhausted /\ ~Propagation
  <2>1. curCost' = curCost /\ prob' = prob /\ ((phase = "done") <=> (phase' = "done"))
    BY <1>4 DEF Next, vars, HitCache, Prune, LeafAND, ProcessCacheHit, ProcessPrune,
                ProcessLeafAND, PropagateFrom, TakesNode, ExpandAND, ExpandOR,
                ProcessExpandAND, ProcessExpandOR, Deliver
  <2> QED  BY <2>1, AnytimeRest
<1> QED  BY <1>2, <1>3, <1>4

(* ImplementsAnytime: the cost that Problem::updateSolution reports gets   *)
(* better with every report, is always that of a solution, and is the      *)
(* optimum when the search says that it is done.                           *)
THEOREM ImplementsAnytimeHolds ==
  ASSUME ~PropHeuristic
  PROVE  Spec => ImplementsAnytime
<1>1. Init => Anytime!Init
  BY AnytimeInit DEF Init
<1>2. /\ IInv /\ Handled(OnStack) /\ CostInv(OnStack) /\ OptInv(OnStack) /\ [Next]_vars
      /\ CostInv(OnStack)'
      => [Anytime!Improve \/ Anytime!Finish]_<<curCost, phase = "done", Optimum(prob)>>
  BY AnytimeStep DEF Progress
<1> QED  BY <1>1, <1>2, CostInvariance, OptInvariance, PTL DEF Spec, ImplementsAnytime, Anytime!Spec

(* A search holds finitely many nodes: what can still be found below a     *)
(* node is computed from its children upwards.                             *)
LEMMA FiniteAlways == Spec => []IsFiniteSet(Live)
<1>1. Init => IsFiniteSet(Live)
  <2> SUFFICES ASSUME Init PROVE IsFiniteSet(Live)
    OBVIOUS
  <2>1. Live = {RootNode}
    BY DEF Init, SearchInit, Live
  <2> QED  BY <2>1, FS_Singleton
<1>2. IInv /\ IsFiniteSet(Live) /\ [Next]_vars => IsFiniteSet(Live)'
  <2> SUFFICES ASSUME IInv, IsFiniteSet(Live), [Next]_vars PROVE IsFiniteSet(Live')
    OBVIOUS
  <2>1. TakesNode => IsNodePath(Top)
    BY TopOfStack
  <2>2. CASE HitCache \/ Prune \/ LeafAND
    BY <2>1, <2>2, FinitelyMany DEF HitCache, Prune, LeafAND
  <2>3. CASE ExpandAND \/ ExpandOR
    BY <2>1, <2>3, FinitelyMany DEF ExpandAND, ExpandOR
  <2>4. CASE Exhausted \/ UNCHANGED vars
    BY <2>4 DEF Exhausted, vars, Live
  <2>5. CASE Propagation
    BY <2>5, FewerLeft DEF Propagation
  <2> QED  BY <2>2, <2>3, <2>4, <2>5 DEF Next
<1> QED  BY <1>1, <1>2, Invariance, PTL DEF Spec

(* OptimumNotLost: whatever has been pruned, taken from a table or erased, *)
(* the value of the root is the optimum, or it can still be put together   *)
(* from the values of the nodes left and the subproblems of the open ones. *)
THEOREM OptimumNotLostHolds ==
  ASSUME ~PropHeuristic
  PROVE  Spec => []OptimumNotLost
<1>1. IInv /\ CostInv(OnStack) /\ OptInv(OnStack) /\ IsFiniteSet(Live) => OptimumNotLost
  BY OptimumReachable DEF IInv, OptimumNotLost
<1> QED  BY <1>1, Invariance, CostInvariance, OptInvariance, FiniteAlways, PTL
=============================================================================
