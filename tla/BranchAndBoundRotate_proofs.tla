--------------------- MODULE BranchAndBoundRotate_proofs ---------------------
(***************************************************************************)
(* For every pseudo tree, problem and stack limit: the stacks of the       *)
(* rotating search form a tree that their counts describe, no node is lost *)
(* or handled twice, and although the search leaves a subproblem in the    *)
(* middle and the assignment is never restored, a node always finds the    *)
(* values of its context there.                                            *)
(*                                                                         *)
(* What makes the last point hold is where the stacks lie: two of them     *)
(* part at a variable, or one is above the other; and then the upper one   *)
(* waits for a stack that is above the lower one too.  So the stack in use *)
(* has none below it, and a value written there is on the path of all that *)
(* stays open above it, and on no path of the stacks beside it.            *)
(*                                                                         *)
(* For the same reason the nodes handled and not erased are those of one   *)
(* path for each way of decomposing the problem: no two of them part at a  *)
(* value.  That is all that the costs and the tables ask of a scheme, so   *)
(* without propHeuristic this one, too, reports the optimum.               *)
(***************************************************************************)
EXTENDS BranchAndBoundRotate, OptimumLemmas

Stacks   == DOMAIN stacks
Nodes(s) == Elements(stacks[s].nodes)

StackTypes ==
  /\ stacks \in [Stacks -> [nodes : Seq(Path), children : Nat, parent : Path]]
  /\ queue \in Seq(Path)
  /\ \A s \in Stacks : IsNodePath(s)

(* No node is twice on the stacks. *)
NodesOnce ==
  \A s \in Stacks :
    /\ NoRepeat(stacks[s].nodes)
    /\ \A t \in Stacks : s # t => Nodes(s) \cap Nodes(t) = {}

(* A stack holds nodes of its subproblem only, the deeper ones later, and  *)
(* the assignment agrees with the paths to them.                           *)
Placed ==
  \A s \in Stacks :
    /\ Nested(stacks[s].nodes)
    /\ \A e \in Nodes(s) : Above(s, e) /\ Agrees(assignment, Parent(e))

(* Of two stacks on one path, the upper one waits for a stack in between,  *)
(* or for the lower one itself, and its nodes branch off above the other's.*)
Hierarchy ==
  \A s, t \in Stacks : s # t =>
    /\ Above(t, s) \/ Above(s, t) \/ Parts(t, s)
    /\ Above(t, s) =>
         /\ \E c \in Stacks : stacks[c].parent = t /\ Above(c, s)
         /\ \A e \in Nodes(s), f \in Nodes(t) : Above(Parent(f), Parent(e))

RInv == /\ StackTypes /\ StackTree /\ NodesOnce /\ Placed /\ Hierarchy
        /\ SearchInv(OnStacks)

-----------------------------------------------------------------------------
(* The stacks that wait for others are those with a stack below them.      *)
LEMMA NoneBelow ==
  ASSUME RInv, NEW s \in Stacks, stacks[s].children = 0
  PROVE  /\ \A c \in Stacks : stacks[c].parent # s
         /\ \A t \in Stacks : Above(s, t) => t = s
<1> DEFINE P == {c \in DOMAIN stacks : stacks[c].parent = s}
<1>1. Cardinality(P) = 0
  BY DEF RInv, StackTree, Stacks
<1>2. IsFiniteSet(DOMAIN stacks)
  BY FiniteElements DEF RInv, StackTypes, StackTree, Elements
<1>3. P \in SUBSET DOMAIN stacks
  OBVIOUS
<1> HIDE DEF P
<1>4. P = {}
  BY <1>1, <1>2, <1>3, FS_Subset, FS_EmptySet
<1>5. \A c \in Stacks : stacks[c].parent # s
  BY <1>4 DEF P, Stacks
<1>6. \A t \in Stacks : Above(s, t) => t = s
  BY <1>5 DEF RInv, Hierarchy
<1> QED  BY <1>5, <1>6

(* What the stacks hold is what they hold together.                        *)
LEMMA OnStacksAre ==
  /\ OnStacks = UNION {Nodes(s) : s \in Stacks}
  /\ \A e : e \in OnStacks <=> \E s \in Stacks : e \in Nodes(s)
BY DEF OnStacks, Nodes, Stacks, Elements

(* The types of the stacks, one by one.                                    *)
LEMMA StackOf ==
  ASSUME RInv, NEW s \in Stacks
  PROVE  /\ stacks[s].nodes \in Seq(Path) /\ stacks[s].children \in Nat
         /\ stacks[s].parent \in Path
         /\ Nodes(s) \subseteq OnStacks /\ Nodes(s) \subseteq Path
         /\ IsNodePath(s) /\ s \in Path /\ Len(s) \in Nat /\ Len(s) >= 1
<1>1. stacks[s] \in [nodes : Seq(Path), children : Nat, parent : Path]
  BY DEF RInv, StackTypes
<1>2. stacks[s].nodes \in Seq(Path) /\ stacks[s].children \in Nat /\ stacks[s].parent \in Path
  BY <1>1
<1>3. Nodes(s) \subseteq Path
  BY <1>2, InQueue DEF Nodes
<1>4. IsNodePath(s) /\ s \in Path /\ Len(s) \in Nat /\ Len(s) >= 1
  BY ParentPath DEF RInv, StackTypes, IsNodePath
<1> QED  BY <1>2, <1>3, <1>4, OnStacksAre

(* The stack at the front of the queue.                                    *)
LEMMA FrontStack ==
  ASSUME RInv, queue # << >>
  PROVE  Front \in Stacks /\ NoRepeat(queue) /\ Elements(queue) = Stacks
<1>1. queue \in Seq(Path) /\ NoRepeat(queue) /\ Elements(queue) = Stacks
  BY DEF RInv, StackTypes, StackTree, NoRepeat, Elements, Stacks
<1>2. Front \in Elements(queue)
  BY <1>1, PopQueue DEF Front
<1> QED  BY <1>1, <1>2

(* The node that nextNode takes from it.                                   *)
LEMMA TopOfFront ==
  ASSUME RInv, Takes
  PROVE  /\ phase = "next" /\ Front \in Stacks
         /\ stacks[Front].children = 0
         /\ \A t \in Stacks : Above(Front, t) => t = Front
         /\ \A c \in Stacks : stacks[c].parent # Front
         /\ stacks[Front].nodes \in Seq(Path) /\ stacks[Front].nodes # << >>
         /\ NoRepeat(stacks[Front].nodes) /\ Nested(stacks[Front].nodes)
         /\ Top = stacks[Front].nodes[Len(stacks[Front].nodes)]
         /\ Top \in Nodes(Front) /\ Top \in OnStacks
         /\ IsNodePath(Top) /\ Top \in Path /\ Len(Top) >= 1 /\ Above(Front, Top)
         /\ Agrees(assignment, Parent(Top))
<1>1. phase = "next" /\ queue # << >> /\ ~Waits /\ ~Exhausts
  BY DEF Takes, Choosing
<1>2. Front \in Stacks
  BY <1>1, FrontStack
<1>3. stacks[Front].children = 0 /\ stacks[Front].nodes \in Seq(Path)
  BY <1>1, <1>2, StackOf DEF Waits
<1>4. stacks[Front].nodes # << >>
  BY <1>1 DEF Exhausts
<1>5. NoRepeat(stacks[Front].nodes) /\ Nested(stacks[Front].nodes)
  BY <1>2 DEF RInv, NodesOnce, Placed
<1>6. Top = stacks[Front].nodes[Len(stacks[Front].nodes)]
  BY DEF Top
<1>7. Top \in Nodes(Front)
  BY <1>3, <1>4, <1>5, <1>6, PopStack DEF Nodes
<1>8. Top \in OnStacks
  BY <1>2, <1>7, StackOf
<1>9. IsNodePath(Top)
  BY <1>1, <1>8, OpenNode DEF RInv
<1>10. Top \in Path /\ Len(Top) >= 1
  BY <1>9 DEF IsNodePath
<1>11. Above(Front, Top) /\ Agrees(assignment, Parent(Top))
  BY <1>2, <1>7 DEF RInv, Placed
<1> QED
  BY <1>1, <1>2, <1>3, <1>4, <1>5, <1>6, <1>7, <1>8, <1>9, <1>10, <1>11, NoneBelow

(* The parents of the other open nodes of this stack and of the stacks     *)
(* above lie above the node taken; the other stacks part from it.  So the  *)
(* assignment agrees with the paths to all of them when it is written.     *)
LEMMA OthersAgree ==
  ASSUME RInv, Takes, NEW s \in Stacks, NEW f \in Nodes(s), f # Top
  PROVE  /\ Agrees(AssignmentAt(Top), Parent(f))
         /\ Above(s, Front) => Above(Parent(f), Top)
<1> DEFINE n == Top
           w == stacks[Front].nodes
<1>1. /\ IsNodePath(n) /\ n \in Path /\ Len(n) >= 1 /\ n \in Nodes(Front)
      /\ Front \in Stacks /\ Above(Front, n)
      /\ w \in Seq(Path) /\ w # << >> /\ Nested(w) /\ n = w[Len(w)]
      /\ \A t \in Stacks : Above(Front, t) => t = Front
      /\ Agrees(assignment, Parent(n))
  BY TopOfFront
<1>2. /\ assignment \in [Vars -> Int] /\ f \in Path /\ Parent(f) \in Path
      /\ Front \in Path /\ s \in Path
      /\ Above(s, f) /\ Agrees(assignment, Parent(f))
      /\ f \in OnStacks
  BY <1>1, StackOf, ParentPath DEF RInv, SearchInv, SearchTypeOK, Placed
<1>3. Agrees(AssignmentAt(n), n)
  BY <1>1, <1>2, AgreesNow
<1>4. IsNodePath(f)
  <2>1. phase = "next"
    BY TopOfFront
  <2> QED  BY <1>2, <2>1, OpenNode DEF RInv
<1> HIDE DEF n
<1>5. CASE s = Front
  <2>1. PICK i \in DOMAIN w : f = w[i]
    BY <1>5 DEF Nodes, Elements
  <2>2. i # Len(w)
    BY <1>1, <2>1 DEF n
  <2>3. << >> \in Seq(Path) /\ Elements(<< >>) = {}
    BY EmptySeq DEF Elements
  <2>4. Above(Parent(f), n)
    BY <1>1, <2>1, <2>2, <2>3, NestedReplace
  <2> QED  BY <1>1, <1>2, <1>3, <2>4, AgreesAbove DEF n
<1>6. CASE s # Front /\ Above(s, Front)
  <2>1. Above(Parent(f), Parent(n))
    BY <1>1, <1>6 DEF RInv, Hierarchy
  <2>2. Above(Parent(f), n)
    BY <1>1, <1>2, <2>1, BelowParent
  <2> QED  BY <1>1, <1>2, <1>3, <2>2, AgreesAbove DEF n
<1>7. CASE s # Front /\ ~Above(s, Front)
  <2>1. Parts(s, Front)
    BY <1>1, <1>7 DEF RInv, Hierarchy
  <2>2. Parts(n, f)
    BY <1>1, <1>2, <2>1, PartsBelow
  <2> QED  BY <1>1, <1>2, <1>4, <1>7, <2>2, AgreesElsewhere DEF n
<1> QED  BY <1>5, <1>6, <1>7

-----------------------------------------------------------------------------
(* The stack in use after its top has made room for the nodes of t.        *)
LEMMA TopReplaced ==
  ASSUME RInv, Takes, NEW t \in Seq(Path), NoRepeat(t), Elements(t) \cap Live = {},
         \A e \in Elements(t) : Parent(e) = Top,
         NEW u, u = Popped(stacks[Front].nodes) \o t
  PROVE  /\ u \in Seq(Path) /\ NoRepeat(u) /\ Nested(u)
         /\ Elements(u) = (Nodes(Front) \ {Top}) \cup Elements(t)
         /\ \A e \in Elements(u) :
              Above(Front, e) /\ Agrees(AssignmentAt(Top), Parent(e))
<1> DEFINE n == Top
           w == stacks[Front].nodes
           p == SubSeq(w, 1, Len(w) - 1)
<1>1. /\ IsNodePath(n) /\ n \in Path /\ Len(n) >= 1 /\ Front \in Stacks /\ Above(Front, n)
      /\ w \in Seq(Path) /\ w # << >> /\ NoRepeat(w) /\ Nested(w) /\ n = w[Len(w)]
      /\ Agrees(assignment, Parent(n)) /\ phase = "next"
  BY TopOfFront
<1>2. Nodes(Front) \subseteq Live
  <2>1. \A e \in OnStacks : e \in Live
    BY <1>1, OpenNode DEF RInv
  <2> QED  BY <1>1, <2>1, StackOf
<1>3. u = p \o t
  BY DEF Popped
<1>4. /\ p \in Seq(Path) /\ NoRepeat(p)
      /\ Elements(p) = Nodes(Front) \ {n}
  BY <1>1, PopStack DEF Nodes
<1>5. \A e \in Elements(t) : Parent(e) = n
  OBVIOUS
<1>6. Nested(u)
  BY <1>1, <1>3, <1>5, NestedReplace
<1> HIDE DEF n, p, w
<1>7. Elements(p) \cap Elements(t) = {}
  BY <1>2, <1>4
<1>8. /\ u \in Seq(Path) /\ NoRepeat(u)
      /\ Elements(u) = (Nodes(Front) \ {n}) \cup Elements(t)
  BY <1>3, <1>4, <1>7, PushStack
<1>9. ASSUME NEW e \in Nodes(Front), e # n
      PROVE  Above(Front, e) /\ Agrees(AssignmentAt(n), Parent(e))
  BY <1>1, <1>9, OthersAgree DEF RInv, Placed, n
<1>10. ASSUME NEW e \in Elements(t)
       PROVE  Above(Front, e) /\ Agrees(AssignmentAt(n), Parent(e))
  <2>1. Parent(e) = n /\ e \in Path
    BY <1>5, InQueue
  <2>2. Len(e) >= 1
    <3> SUFFICES ASSUME Len(e) = 0 PROVE FALSE
      BY <2>1, ParentPath
    <3>1. e = << >>
      BY <2>1, EmptySeq DEF Path
    <3>2. Len(Parent(e)) = 0
      BY <3>1, SubSeqEmpty DEF Parent
    <3> QED  BY <1>1, <2>1, <3>2
  <2>3. Front \in Path
    BY <1>1, StackOf
  <2>4. Above(Front, e)
    BY <1>1, <2>1, <2>2, <2>3, BelowParent
  <2>5. Agrees(AssignmentAt(n), n)
    BY <1>1, AgreesNow DEF RInv, SearchInv, SearchTypeOK
  <2> QED  BY <2>1, <2>4, <2>5
<1> QED  BY <1>6, <1>8, <1>9, <1>10 DEF n

(* The nodes of t are pushed on the stack in use; for a leaf there are none.*)
LEMMA PushStep ==
  ASSUME RInv, Takes, NEW t \in Seq(Path), NoRepeat(t), Elements(t) \cap Live = {},
         \A e \in Elements(t) : Parent(e) = Top,
         stacks' = Pushed(t), queue' = queue, assignment' = AssignmentAt(Top)
  PROVE  /\ StackTypes' /\ StackTree' /\ NodesOnce' /\ Placed' /\ Hierarchy'
         /\ OnStacks' = (OnStacks \ {Top}) \cup Elements(t)
<1> DEFINE n == Top
           F == Front
           u == Popped(stacks[F].nodes) \o t
           N(s) == Elements(stacks'[s].nodes)
<1>1. /\ IsNodePath(n) /\ n \in Path /\ n \in Nodes(F) /\ F \in Stacks
      /\ \A s \in Stacks : Above(F, s) => s = F
      /\ phase = "next"
  BY TopOfFront
<1>2. /\ u \in Seq(Path) /\ NoRepeat(u) /\ Nested(u)
      /\ Elements(u) = (Nodes(F) \ {n}) \cup Elements(t)
      /\ \A e \in Elements(u) : Above(F, e) /\ Agrees(AssignmentAt(n), Parent(e))
  BY TopReplaced
<1>3. /\ Stacks' = Stacks
      /\ stacks'[F].nodes = u
      /\ \A s \in Stacks : s # F => stacks'[s] = stacks[s]
      /\ \A s \in Stacks : /\ stacks'[s].children = stacks[s].children
                            /\ stacks'[s].parent = stacks[s].parent
      /\ stacks' \in [Stacks -> [nodes : Seq(Path), children : Nat, parent : Path]]
  <2>1. stacks \in [Stacks -> [nodes : Seq(Path), children : Nat, parent : Path]]
    BY DEF RInv, StackTypes
  <2>2. stacks' = [stacks EXCEPT ![F].nodes = u]
    BY DEF Pushed
  <2> HIDE DEF u, F
  <2>3. /\ Stacks' = Stacks /\ F \in Stacks
        /\ \A s \in Stacks : s # F => stacks'[s] = stacks[s]
    BY <1>1, <2>1, <2>2 DEF Stacks
  <2>4. stacks[F] \in [nodes : Seq(Path), children : Nat, parent : Path]
    BY <2>1, <2>3
  <2>5. stacks'[F] = [stacks[F] EXCEPT !.nodes = u]
    BY <2>1, <2>2, <2>3
  <2>6. /\ stacks'[F].nodes = u /\ stacks'[F].children = stacks[F].children
        /\ stacks'[F].parent = stacks[F].parent
        /\ stacks'[F] \in [nodes : Seq(Path), children : Nat, parent : Path]
    BY <1>2, <2>4, <2>5
  <2>7. stacks' \in [Stacks -> [nodes : Seq(Path), children : Nat, parent : Path]]
    BY <2>1, <2>2, <2>6
  <2> QED  BY <2>3, <2>6, <2>7
<1>4. \A e \in Elements(t) : Parent(e) = n /\ e \notin OnStacks
  BY <1>1, OpenNode DEF RInv
<1> HIDE DEF n, F, u
<1>5. /\ N(F) = (Nodes(F) \ {n}) \cup Elements(t)
      /\ \A s \in Stacks : s # F => N(s) = Nodes(s)
  BY <1>2, <1>3 DEF Nodes
<1>6. StackTypes'
  BY <1>3 DEF RInv, StackTypes
<1>7. StackTree'
  <2>1. DOMAIN stacks' = DOMAIN stacks /\ queue' = queue
    BY <1>3 DEF Stacks
  <2>2. \A s \in DOMAIN stacks :
          {c \in DOMAIN stacks : stacks'[c].parent = s} = {c \in DOMAIN stacks : stacks[c].parent = s}
    BY <1>3 DEF Stacks
  <2>3. ASSUME NEW s \in DOMAIN stacks
        PROVE  /\ stacks'[s].children = Cardinality({c \in DOMAIN stacks' : stacks'[c].parent = s})
               /\ stacks'[s].parent \in DOMAIN stacks' \cup {NULL}
    <3>1. /\ stacks[s].children = Cardinality({c \in DOMAIN stacks : stacks[c].parent = s})
          /\ stacks[s].parent \in DOMAIN stacks \cup {NULL}
      BY DEF RInv, StackTree
    <3>2. {c \in DOMAIN stacks' : stacks'[c].parent = s} = {c \in DOMAIN stacks : stacks[c].parent = s}
      BY <2>1, <2>2
    <3> QED  BY <1>3, <2>1, <3>1, <3>2 DEF Stacks
  <2> QED  BY <2>1, <2>3 DEF RInv, StackTree
<1>8. /\ n \in Nodes(F) /\ \A s \in Stacks : Nodes(s) \subseteq OnStacks
      /\ \A s \in Stacks : s # F => n \notin Nodes(s)
  BY <1>1, StackOf DEF RInv, NodesOnce
<1>9. NodesOnce'
  <2>1. ASSUME NEW s \in Stacks PROVE NoRepeat(stacks'[s].nodes)
    BY <1>2, <1>3, <2>1 DEF RInv, NodesOnce
  <2>2. ASSUME NEW s \in Stacks, NEW r \in Stacks, s # r PROVE N(s) \cap N(r) = {}
    BY <1>4, <1>5, <1>8, <2>2 DEF RInv, NodesOnce
  <2> QED  BY <1>3, <2>1, <2>2 DEF NodesOnce, Nodes
<1>10. Placed'
  <2>1. ASSUME NEW s \in Stacks
        PROVE  /\ Nested(stacks'[s].nodes)
               /\ \A e \in N(s) : Above(s, e) /\ Agrees(AssignmentAt(n), Parent(e))
    <3>1. CASE s = F
      BY <1>2, <1>3, <3>1
    <3>2. CASE s # F
      <4>1. Nested(stacks'[s].nodes) /\ N(s) = Nodes(s)
        BY <1>3, <1>5, <3>2 DEF RInv, Placed
      <4>2. ASSUME NEW e \in Nodes(s) PROVE Above(s, e) /\ Agrees(AssignmentAt(n), Parent(e))
        BY <1>8, <3>2, OthersAgree DEF RInv, Placed, n
      <4> QED  BY <4>1, <4>2
    <3> QED  BY <3>1, <3>2
  <2> QED  BY <1>3, <2>1 DEF Placed, Nodes, n
<1>11. Hierarchy'
  <2>1. ASSUME NEW s \in Stacks, NEW r \in Stacks, s # r, Above(r, s),
               NEW e \in N(s), NEW f \in N(r)
        PROVE  Above(Parent(f), Parent(e))
    <3>1. r # F /\ N(r) = Nodes(r) /\ f # n
      BY <1>1, <1>5, <1>8, <2>1
    <3>2. CASE e \in Nodes(s)
      BY <2>1, <3>1, <3>2 DEF RInv, Hierarchy
    <3>3. CASE e \notin Nodes(s)
      <4>1. s = F /\ Parent(e) = n
        BY <1>4, <1>5, <2>1, <3>3
      <4> QED  BY <2>1, <3>1, <4>1, OthersAgree DEF n, F
    <3> QED  BY <3>2, <3>3
  <2>2. \A s, r \in Stacks : s # r /\ Above(r, s) => \E c \in Stacks : stacks'[c].parent = r /\ Above(c, s)
    BY <1>3 DEF RInv, Hierarchy
  <2>3. \A s, r \in Stacks : s # r => Above(r, s) \/ Above(s, r) \/ Parts(r, s)
    BY DEF RInv, Hierarchy
  <2> QED  BY <1>3, <2>1, <2>2, <2>3 DEF Hierarchy, Nodes
<1>12. OnStacks' = (OnStacks \ {n}) \cup Elements(t)
  <2>1. OnStacks' = UNION {N(s) : s \in Stacks}
    BY <1>3 DEF OnStacks, Stacks, Elements
  <2>2. OnStacks = UNION {Nodes(s) : s \in Stacks}
    BY OnStacksAre
  <2> QED  BY <1>1, <1>5, <1>8, <2>1, <2>2
<1> QED  BY <1>6, <1>7, <1>9, <1>10, <1>11, <1>12 DEF n

(* The children t of an AND node get a stack each, below the one in use.   *)
LEMMA SplitStep ==
  ASSUME RInv, Takes, IsAND(Top),
         NEW t \in Seq(Path), NoRepeat(t), Len(t) = Cardinality(Elements(t)),
         Elements(t) \cap Live = {},
         \A e \in Elements(t) : IsNodePath(e) /\ Len(e) = Len(Top) + 1 /\ Parent(e) = Top,
         stacks' = Splits(t), queue' = queue \o Seqs!Reverse(t),
         assignment' = AssignmentAt(Top)
  PROVE  /\ StackTypes' /\ StackTree' /\ NodesOnce' /\ Placed' /\ Hierarchy'
         /\ OnStacks' = (OnStacks \ {Top}) \cup Elements(t)
<1> DEFINE n == Top
           F == Front
           K == Elements(t)
           u == Popped(stacks[F].nodes)
           N(s) == Elements(stacks'[s].nodes)
<1>1. /\ IsNodePath(n) /\ n \in Path /\ Len(n) \in Nat /\ Len(n) >= 1 /\ Len(n) % 2 = 0
      /\ n \in Nodes(F) /\ F \in Stacks /\ F \in Path /\ Above(F, n)
      /\ \A s \in Stacks : Above(F, s) => s = F
      /\ \A s \in Stacks : stacks[s].parent # F
      /\ stacks[F].children = 0 /\ phase = "next"
  BY TopOfFront, StackOf, ParentPath DEF IsAND
<1>2. /\ u \in Seq(Path) /\ NoRepeat(u) /\ Nested(u)
      /\ Elements(u) = Nodes(F) \ {n}
      /\ \A e \in Elements(u) : Above(F, e) /\ Agrees(AssignmentAt(n), Parent(e))
  <2> DEFINE z == << >>
  <2>1. z \in Seq(Path) /\ NoRepeat(z) /\ Elements(z) = {}
    BY EmptySeq DEF NoRepeat, Elements
  <2>2. u \in Seq(Path) /\ u = u \o z
    <3>1. u \in Seq(Path)
      BY TopOfFront, PopStack DEF Popped
    <3> HIDE DEF u
    <3> QED  BY <3>1, ConcatEmptySeq
  <2> HIDE DEF z
  <2>3. /\ u \in Seq(Path) /\ NoRepeat(u) /\ Nested(u)
        /\ Elements(u) = (Nodes(Front) \ {Top}) \cup Elements(z)
        /\ \A e \in Elements(u) : Above(Front, e) /\ Agrees(AssignmentAt(Top), Parent(e))
    BY <2>1, <2>2, TopReplaced
  <2> QED  BY <2>1, <2>3
<1>3. /\ \A c \in K : /\ IsNodePath(c) /\ c \in Path /\ Len(c) = Len(n) + 1 /\ Parent(c) = n
                      /\ c \notin Live /\ Above(n, c) /\ Above(F, c)
      /\ Len(t) \in Nat /\ \A i \in DOMAIN t : t[i] \in K
      /\ K = {t[i] : i \in DOMAIN t}
  <2>1. ASSUME NEW c \in K
        PROVE  /\ IsNodePath(c) /\ c \in Path /\ Len(c) = Len(n) + 1 /\ Parent(c) = n
               /\ c \notin Live /\ Above(n, c) /\ Above(F, c)
    <3>1. IsNodePath(c) /\ c \in Path /\ Len(c) = Len(n) + 1 /\ Parent(c) = n /\ c \notin Live
      BY DEF IsNodePath
    <3>2. Above(n, Parent(c)) /\ Len(c) >= 1
      BY <1>1, <3>1, AbovePrefix
    <3>3. Above(n, c)
      BY <1>1, <3>1, <3>2, BelowParent
    <3> QED  BY <1>1, <3>1, <3>3, AboveTransitive
  <2> QED  BY <2>1, LenProperties DEF Elements
<1>4. K \cap Stacks = {} /\ Len(F) \in Nat /\ \A c \in K : Len(c) > Len(F)
  <2>1. Len(F) \in Nat /\ Len(F) <= Len(n)
    BY <1>1, AboveElements
  <2>2. \A c \in K : Len(c) = Len(n) + 1
    BY <1>3
  <2> HIDE DEF n, F, K
  <2>3. \A c \in K : Len(c) > Len(F)
    BY <1>1, <2>1, <2>2
  <2>4. \A c \in K : c # F
    BY <2>1, <2>3
  <2> QED  BY <1>1, <1>3, <2>1, <2>3, <2>4
<1>5. /\ Stacks' = Stacks \cup K
      /\ stacks'[F].nodes = u /\ stacks'[F].children = Len(t)
      /\ \A s \in Stacks : s # F => stacks'[s] = stacks[s]
      /\ \A s \in Stacks : stacks'[s].parent = stacks[s].parent
      /\ \A c \in K : stacks'[c] = NewStack(c, F)
      /\ stacks' \in [Stacks \cup K -> [nodes : Seq(Path), children : Nat, parent : Path]]
  <2>1. stacks \in [Stacks -> [nodes : Seq(Path), children : Nat, parent : Path]]
    BY DEF RInv, StackTypes
  <2>2. stacks' = [c \in Stacks \cup K |->
           IF c = F THEN [stacks[c] EXCEPT !.nodes = u, !.children = stacks[F].children + Len(t)]
           ELSE IF c \in Stacks THEN stacks[c] ELSE NewStack(c, F)]
    BY <1>3 DEF Splits, Stacks
  <2>3. /\ Len(t) \in Nat /\ stacks[F].children + Len(t) = Len(t)
        /\ \A c \in K : NewStack(c, F) \in [nodes : Seq(Path), children : Nat, parent : Path]
    BY <1>1, <1>3 DEF NewStack
  <2> HIDE DEF u, F, K
  <2>4. Stacks' = Stacks \cup K
    BY <2>2 DEF Stacks
  <2>5. /\ stacks'[F] = [stacks[F] EXCEPT !.nodes = u, !.children = stacks[F].children + Len(t)]
        /\ stacks[F] \in [nodes : Seq(Path), children : Nat, parent : Path]
    BY <1>1, <2>1, <2>2
  <2>6. /\ stacks'[F].nodes = u /\ stacks'[F].children = Len(t)
        /\ stacks'[F].parent = stacks[F].parent
        /\ stacks'[F] \in [nodes : Seq(Path), children : Nat, parent : Path]
    BY <1>2, <2>3, <2>5
  <2>7. \A s \in Stacks : s # F => stacks'[s] = stacks[s]
    BY <2>2
  <2>8. \A c \in K : stacks'[c] = NewStack(c, F)
    BY <1>1, <1>4, <2>2
  <2>9. \A s \in Stacks \cup K : stacks'[s] \in [nodes : Seq(Path), children : Nat, parent : Path]
    BY <2>1, <2>3, <2>6, <2>7, <2>8
  <2>10. stacks' \in [Stacks \cup K -> [nodes : Seq(Path), children : Nat, parent : Path]]
    BY <2>2, <2>9
  <2> QED  BY <2>4, <2>6, <2>7, <2>8, <2>10
<1>6. \A c \in K : /\ stacks'[c].nodes = << c >> /\ stacks'[c].children = 0
                   /\ stacks'[c].parent = F /\ N(c) = {c} /\ c \notin OnStacks
  <2>1. \A c \in OnStacks : c \in Live
    BY <1>1, OpenNode DEF RInv
  <2>2. ASSUME NEW c \in K
        PROVE  /\ stacks'[c].nodes = << c >> /\ stacks'[c].children = 0
               /\ stacks'[c].parent = F
    <3>1. stacks'[c] = [nodes |-> << c >>, children |-> 0, parent |-> F]
      BY <1>5 DEF NewStack
    <3> HIDE DEF F, K
    <3> QED  BY <3>1
  <2>3. \A c : Elements(<< c >>) = {c}
    BY DEF Elements
  <2> HIDE DEF K
  <2> QED  BY <1>3, <2>1, <2>2, <2>3
<1> HIDE DEF n, F, u, K
<1>7. /\ N(F) = Nodes(F) \ {n}
      /\ \A s \in Stacks : s # F => N(s) = Nodes(s)
      /\ \A s \in Stacks : N(s) \subseteq Nodes(s) /\ Nodes(s) \subseteq OnStacks
  BY <1>2, <1>5, StackOf DEF Nodes
<1>8. /\ queue' \in Seq(Path) /\ NoRepeat(queue') /\ Elements(queue') = Stacks \cup K
  <2> DEFINE r == Seqs!Reverse(t)
  <2>1. r = [i \in 1 .. Len(t) |-> t[(Len(t) - i) + 1]]
    BY DEF Seqs!Reverse
  <2> HIDE DEF r
  <2>2. r \in Seq(Path) /\ NoRepeat(r) /\ Elements(r) = K
    BY <2>1, ReverseOrder DEF K
  <2>3. queue \in Seq(Path) /\ NoRepeat(queue) /\ Elements(queue) = Stacks
    BY FrontStack DEF RInv, StackTypes, Takes, Choosing
  <2>4. queue' = queue \o r
    BY DEF r
  <2> QED  BY <1>4, <2>2, <2>3, <2>4, PushStack
<1>9. StackTypes'
  BY <1>3, <1>5, <1>8 DEF RInv, StackTypes
<1>10. StackTree'
  <2> DEFINE W(s) == {c \in DOMAIN stacks' : stacks'[c].parent = s}
  <2>1. ASSUME NEW s \in Stacks \cup K
        PROVE  stacks'[s].children = Cardinality(W(s)) /\ stacks'[s].parent \in Stacks \cup K \cup {NULL}
    <3>1. CASE s = F
      <4>1. W(s) = K
        BY <1>1, <1>5, <1>6, <3>1 DEF Stacks
      <4>2. stacks'[s].children = Cardinality(K)
        BY <1>5, <3>1 DEF K
      <4> QED  BY <1>1, <1>5, <3>1, <4>1, <4>2 DEF RInv, StackTree, Stacks
    <3>2. CASE s \in Stacks /\ s # F
      <4>1. W(s) = {c \in DOMAIN stacks : stacks[c].parent = s}
        BY <1>4, <1>5, <1>6, <3>2 DEF Stacks
      <4>2. /\ stacks[s].children = Cardinality({c \in DOMAIN stacks : stacks[c].parent = s})
            /\ stacks[s].parent \in Stacks \cup {NULL}
        BY <3>2 DEF RInv, StackTree, Stacks
      <4> QED  BY <1>5, <3>2, <4>1, <4>2
    <3>3. CASE s \in K
      <4>1. s # NULL /\ s # F /\ s \notin Stacks
        <5>1. s # F /\ s \notin Stacks
          BY <1>1, <1>4, <3>3
        <5>2. s # NULL
          BY <1>4, <3>3 DEF NULL
        <5> QED  BY <5>1, <5>2
      <4>2. \A c \in Stacks : stacks'[c].parent # s
        BY <1>5, <4>1 DEF RInv, StackTree, Stacks
      <4>3. W(s) = {}
        BY <1>5, <1>6, <4>1, <4>2 DEF Stacks
      <4> QED  BY <1>1, <1>6, <3>3, <4>3, FS_EmptySet
    <3> QED  BY <3>1, <3>2, <3>3
  <2>2. DOMAIN stacks' = Stacks \cup K
    BY <1>5 DEF Stacks
  <2>3. /\ DOMAIN stacks' = {queue'[i] : i \in DOMAIN queue'}
        /\ \A i, j \in DOMAIN queue' : queue'[i] = queue'[j] => i = j
    BY <1>8, <2>2 DEF Elements, NoRepeat
  <2> QED  BY <2>1, <2>2, <2>3 DEF StackTree
<1>11. \A s \in Stacks : s # F => n \notin Nodes(s)
  BY <1>1 DEF RInv, NodesOnce
<1>12. NodesOnce'
  <2>1. ASSUME NEW s \in Stacks \cup K PROVE NoRepeat(stacks'[s].nodes)
    <3>1. CASE s \in Stacks
      BY <1>2, <1>5, <3>1 DEF RInv, NodesOnce
    <3>2. CASE s \in K
      BY <1>6, <3>2 DEF NoRepeat
    <3> QED  BY <3>1, <3>2
  <2>2. ASSUME NEW s \in Stacks \cup K, NEW r \in Stacks \cup K, s # r PROVE N(s) \cap N(r) = {}
    <3>1. CASE s \in Stacks /\ r \in Stacks
      BY <1>7, <2>2, <3>1 DEF RInv, NodesOnce
    <3>2. CASE s \in K /\ r \in K
      BY <1>6, <2>2, <3>2
    <3>3. CASE s \in K /\ r \in Stacks
      <4>1. N(s) = {s} /\ s \notin OnStacks /\ N(r) \subseteq OnStacks
        BY <1>6, <1>7, <3>3
      <4> QED  BY <4>1
    <3>4. CASE s \in Stacks /\ r \in K
      <4>1. N(r) = {r} /\ r \notin OnStacks /\ N(s) \subseteq OnStacks
        BY <1>6, <1>7, <3>4
      <4> QED  BY <4>1
    <3> QED  BY <3>1, <3>2, <3>3, <3>4
  <2> QED  BY <1>5, <2>1, <2>2 DEF NodesOnce, Nodes
<1>13. Placed'
  <2>1. ASSUME NEW s \in Stacks \cup K
        PROVE  /\ Nested(stacks'[s].nodes)
               /\ \A e \in N(s) : Above(s, e) /\ Agrees(AssignmentAt(n), Parent(e))
    <3>1. CASE s = F
      BY <1>2, <1>5, <3>1
    <3>2. CASE s \in Stacks /\ s # F
      <4>1. Nested(stacks'[s].nodes) /\ N(s) = Nodes(s)
        BY <1>5, <1>7, <3>2 DEF RInv, Placed
      <4>2. ASSUME NEW e \in Nodes(s) PROVE Above(s, e) /\ Agrees(AssignmentAt(n), Parent(e))
        BY <1>11, <3>2, OthersAgree DEF RInv, Placed, n
      <4> QED  BY <4>1, <4>2
    <3>3. CASE s \in K
      <4>1. stacks'[s].nodes = << s >> /\ N(s) = {s} /\ Parent(s) = n /\ s \in Path
        BY <1>3, <1>6, <3>3
      <4>2. Nested(<< s >>)
        BY DEF Nested
      <4>3. Agrees(AssignmentAt(n), n)
        BY <1>1, TopOfFront, AgreesNow DEF RInv, SearchInv, SearchTypeOK, n
      <4>4. Above(s, s)
        BY <4>1, AbovePrefix
      <4> QED  BY <4>1, <4>2, <4>3, <4>4
    <3> QED  BY <3>1, <3>2, <3>3
  <2> QED  BY <1>5, <2>1 DEF Placed, Nodes, n
<1>14. ASSUME NEW s \in Stacks, NEW c \in K
       PROVE  /\ ~Above(c, s)
              /\ Above(s, c) <=> Above(s, F)
              /\ Above(s, c) \/ Parts(s, c)
              /\ ~Above(s, c) => Parts(c, s)
  <2>1. s \in Path /\ c \in Path /\ Above(s, s) /\ F \in Path /\ Above(F, c)
    BY <1>1, <1>3, StackOf, AbovePrefix
  <2>2. ~Above(c, s)
    <3> SUFFICES ASSUME Above(c, s) PROVE FALSE
      OBVIOUS
    <3>1. s = F
      BY <1>1, <2>1, AboveTransitive
    <3>2. Len(c) <= Len(F) /\ Len(c) \in Nat
      BY <2>1, <3>1, AboveElements
    <3> QED  BY <1>4, <3>2
  <2>3. CASE Above(s, F)
    BY <2>1, <2>2, <2>3, AboveTransitive
  <2>4. CASE ~Above(s, F)
    <3>1. Parts(s, F)
      BY <1>1, <2>1, <2>4 DEF RInv, Hierarchy
    <3> QED  BY <2>1, <2>4, <3>1, PartsBelow
  <2> QED  BY <2>2, <2>3, <2>4
<1>15. ASSUME NEW s \in K, NEW c \in K, s # c PROVE Parts(s, c) /\ ~Above(s, c)
  <2>1. /\ s \in Path /\ c \in Path /\ Len(s) = Len(c) /\ Len(s) >= 1 /\ Len(s) % 2 = 1
        /\ Parent(s) = Parent(c)
    <3> DEFINE l == Len(n)
    <3>0. l \in Nat /\ l % 2 = 0
      BY <1>1
    <3> HIDE DEF l
    <3>1. (l + 1) % 2 = 1 /\ l + 1 >= 1
      BY <3>0
    <3> USE DEF l
    <3> QED  BY <1>3, <3>1
  <2>2. Parts(s, c) /\ Above(s, s) /\ Above(c, c)
    BY <1>15, <2>1, SiblingsPart, AbovePrefix
  <2> QED  BY <2>1, <2>2, PartsBelow
<1>16. ASSUME NEW s \in Stacks, NEW c \in K, Above(s, F), NEW f \in N(s)
       PROVE  Above(Parent(f), Parent(c))
  <2>1. f \in Nodes(s) /\ f # n /\ Parent(c) = n
    BY <1>3, <1>7, <1>11, <1>16
  <2> QED  BY <1>16, <2>1, OthersAgree DEF n, F
<1>17. Hierarchy'
  <2>1. ASSUME NEW s \in Stacks \cup K, NEW r \in Stacks \cup K, s # r
        PROVE  Above(r, s) \/ Above(s, r) \/ Parts(r, s)
    BY <1>14, <1>15, <2>1 DEF RInv, Hierarchy
  <2>2. ASSUME NEW s \in Stacks \cup K, NEW r \in Stacks \cup K, s # r, Above(r, s)
        PROVE  /\ \E c \in Stacks \cup K : stacks'[c].parent = r /\ Above(c, s)
               /\ \A e \in N(s), f \in N(r) : Above(Parent(f), Parent(e))
    <3>1. CASE s \in Stacks /\ r \in Stacks
      <4>1. PICK c \in Stacks : stacks[c].parent = r /\ Above(c, s)
        BY <2>2, <3>1 DEF RInv, Hierarchy
      <4>2. \A e \in Nodes(s), f \in Nodes(r) : Above(Parent(f), Parent(e))
        BY <2>2, <3>1 DEF RInv, Hierarchy
      <4> QED  BY <1>5, <1>7, <3>1, <4>1, <4>2
    <3>2. CASE s \in K /\ r \in Stacks
      <4>1. Above(r, F)
        BY <1>14, <2>2, <3>2
      <4>2. \A e \in N(s), f \in N(r) : Above(Parent(f), Parent(e))
        BY <1>6, <1>16, <3>2, <4>1
      <4>3. \E c \in Stacks \cup K : stacks'[c].parent = r /\ Above(c, s)
        <5>1. CASE r = F
          <6>1. stacks'[s].parent = r /\ Above(s, s)
            BY <1>3, <1>6, <3>2, <5>1, AbovePrefix
          <6> QED  BY <6>1
        <5>2. CASE r # F
          <6>1. PICK c \in Stacks : stacks[c].parent = r /\ Above(c, F)
            BY <1>1, <3>2, <4>1, <5>2 DEF RInv, Hierarchy
          <6>2. c \in Path /\ s \in Path /\ F \in Path /\ Above(F, s)
            BY <1>1, <1>3, <3>2, StackOf
          <6>3. Above(c, s)
            BY <6>1, <6>2, AboveTransitive
          <6> QED  BY <1>5, <6>1, <6>3
        <5> QED  BY <5>1, <5>2
      <4> QED  BY <4>2, <4>3
    <3>3. CASE r \in K
      BY <1>14, <1>15, <2>2, <3>3
    <3> QED  BY <3>1, <3>2, <3>3
  <2> QED  BY <1>5, <2>1, <2>2 DEF Hierarchy, Nodes
<1>18. OnStacks' = (OnStacks \ {n}) \cup K
  <2>1. OnStacks' = UNION {N(s) : s \in Stacks \cup K}
    BY <1>5 DEF OnStacks, Stacks, Elements
  <2>2. OnStacks = UNION {Nodes(s) : s \in Stacks}
    BY OnStacksAre
  <2>3. UNION {N(s) : s \in K} = K
    <3>1. \A s \in K : N(s) = {s}
      BY <1>6
    <3> HIDE DEF N
    <3> QED  BY <3>1
  <2>4. UNION {N(s) : s \in Stacks} = OnStacks \ {n}
    <3>1. ASSUME NEW s \in Stacks PROVE N(s) = Nodes(s) \ {n}
      BY <1>7, <1>11
    <3> HIDE DEF N
    <3> QED  BY <2>2, <3>1
  <2> HIDE DEF N
  <2>5. UNION {N(s) : s \in Stacks \cup K} = (UNION {N(s) : s \in Stacks}) \cup (UNION {N(s) : s \in K})
    OBVIOUS
  <2> QED  BY <2>1, <2>3, <2>4, <2>5
<1> QED  BY <1>9, <1>10, <1>12, <1>13, <1>17, <1>18 DEF n, K

-----------------------------------------------------------------------------
(* A stack that is empty and waits for none is deleted, and the stack it   *)
(* was split from waits for one less.                                      *)
LEMMA CleanUpStep ==
  ASSUME RInv, CleanUp
  PROVE  /\ StackTypes' /\ StackTree' /\ NodesOnce' /\ Placed' /\ Hierarchy'
         /\ OnStacks' = OnStacks
<1> DEFINE F == Front
           m == stacks[F].parent
           D == Stacks \ {F}
           N(s) == Elements(stacks'[s].nodes)
           W(s) == {c \in Stacks : stacks[c].parent = s}
<1>1. /\ queue # << >> /\ queue \in Seq(Path)
      /\ NoRepeat(queue) /\ Elements(queue) = Stacks /\ F \in Stacks
      /\ stacks[F].nodes = << >> /\ ~(stacks[F].children > 0)
  BY FrontStack DEF CleanUp, Choosing, Exhausts, Waits, RInv, StackTypes
<1>2. stacks[F].children = 0
  BY <1>1, StackOf
<1>3. /\ \A t \in Stacks : Above(F, t) => t = F
      /\ \A c \in Stacks : stacks[c].parent # F
  BY <1>1, <1>2, NoneBelow
<1>4. \A s \in Stacks : /\ stacks[s].children = Cardinality(W(s))
                        /\ stacks[s].parent \in Stacks \cup {NULL}
  BY DEF RInv, StackTree, Stacks
<1>5. \A s \in Stacks : IsFiniteSet(W(s)) /\ Cardinality(W(s)) \in Nat
  <2>1. IsFiniteSet(Stacks)
    BY <1>1, FiniteElements
  <2>2. \A s \in Stacks : W(s) \in SUBSET Stacks
    OBVIOUS
  <2> HIDE DEF W
  <2> QED  BY <2>1, <2>2, FS_Subset, FS_CardinalityType
<1>6. m \in Stacks => stacks[m].children - 1 \in Nat
  <2> SUFFICES ASSUME m \in Stacks PROVE stacks[m].children - 1 \in Nat
    OBVIOUS
  <2>1. W(m) # {} /\ IsFiniteSet(W(m))
    BY <1>1, <1>5
  <2>2. Cardinality(W(m)) # 0
    BY <2>1, FS_EmptySet
  <2>3. stacks[m].children = Cardinality(W(m)) /\ Cardinality(W(m)) \in Nat
    BY <1>4, <1>5
  <2> HIDE DEF W, m
  <2> QED  BY <2>2, <2>3
<1>7. /\ Stacks' = D
      /\ \A s \in D : /\ stacks'[s].nodes = stacks[s].nodes
                      /\ stacks'[s].parent = stacks[s].parent
                      /\ stacks'[s].children = IF s = m THEN stacks[s].children - 1 ELSE stacks[s].children
      /\ stacks' \in [D -> [nodes : Seq(Path), children : Nat, parent : Path]]
  <2>1. stacks \in [Stacks -> [nodes : Seq(Path), children : Nat, parent : Path]]
    BY DEF RInv, StackTypes
  <2>2. stacks' = [s \in D |-> IF s = m THEN [stacks[s] EXCEPT !.children = stacks[s].children - 1]
                              ELSE stacks[s]]
    BY DEF CleanUp, Stacks
  <2>3. m \in D => stacks[m].children - 1 \in Nat
    BY <1>6
  <2> HIDE DEF m, F
  <2>4. \A s \in D : stacks[s] \in [nodes : Seq(Path), children : Nat, parent : Path]
    BY <2>1
  <2>5. ASSUME NEW s \in D
        PROVE  /\ stacks'[s].nodes = stacks[s].nodes
               /\ stacks'[s].parent = stacks[s].parent
               /\ stacks'[s].children = IF s = m THEN stacks[s].children - 1 ELSE stacks[s].children
               /\ stacks'[s] \in [nodes : Seq(Path), children : Nat, parent : Path]
    BY <2>2, <2>3, <2>4
  <2>6. DOMAIN stacks' = D
    BY <2>2
  <2>7. stacks' \in [D -> [nodes : Seq(Path), children : Nat, parent : Path]]
    BY <2>2, <2>5
  <2> QED  BY <2>5, <2>6, <2>7 DEF Stacks
<1>8. queue' \in Seq(Path) /\ NoRepeat(queue') /\ Elements(queue') = D
  <2>1. queue' = Tail(queue)
    BY DEF CleanUp
  <2> QED  BY <1>1, <2>1, PopQueue DEF Front
<1> HIDE DEF F, m
<1>9. \A s \in D : N(s) = Nodes(s)
  BY <1>7 DEF Nodes
<1>10. StackTypes'
  BY <1>7, <1>8 DEF RInv, StackTypes
<1>11. StackTree'
  <2>1. ASSUME NEW s \in D
        PROVE  /\ stacks'[s].children = Cardinality({c \in D : stacks'[c].parent = s})
               /\ stacks'[s].parent \in D \cup {NULL}
    <3>1. {c \in D : stacks'[c].parent = s} = W(s) \ {F}
      BY <1>7
    <3>2. F \in W(s) <=> s = m
      BY <1>1 DEF m
    <3>3. IsFiniteSet(W(s)) /\ stacks[s].children = Cardinality(W(s))
      BY <1>4, <1>5
    <3> DEFINE w == W(s)
    <3> HIDE DEF W, w
    <3>4. Cardinality(W(s) \ {F}) = IF s = m THEN stacks[s].children - 1 ELSE stacks[s].children
      BY <3>2, <3>3, FS_RemoveElement
    <3>5. stacks'[s].parent \in D \cup {NULL}
      BY <1>3, <1>4, <1>7
    <3> QED  BY <1>7, <3>1, <3>4, <3>5
  <2>2. DOMAIN stacks' = D
    BY <1>7 DEF Stacks
  <2>3. /\ DOMAIN stacks' = {queue'[i] : i \in DOMAIN queue'}
        /\ \A i, j \in DOMAIN queue' : queue'[i] = queue'[j] => i = j
    BY <1>8, <2>2 DEF Elements, NoRepeat
  <2> QED  BY <2>1, <2>2, <2>3 DEF StackTree
<1>12. NodesOnce'
  BY <1>7, <1>9 DEF RInv, NodesOnce, Nodes
<1>13. assignment' = assignment
  BY DEF CleanUp, searchVars
<1>14. Placed'
  BY <1>7, <1>9, <1>13 DEF RInv, Placed, Nodes
<1>15. Hierarchy'
  <2>1. ASSUME NEW s \in D, NEW r \in D, s # r
        PROVE  /\ Above(r, s) \/ Above(s, r) \/ Parts(r, s)
               /\ Above(r, s) =>
                    /\ \E c \in D : stacks'[c].parent = r /\ Above(c, s)
                    /\ \A e \in N(s), f \in N(r) : Above(Parent(f), Parent(e))
    <3>1. /\ Above(r, s) \/ Above(s, r) \/ Parts(r, s)
          /\ Above(r, s) =>
               /\ \E c \in Stacks : stacks[c].parent = r /\ Above(c, s)
               /\ \A e \in Nodes(s), f \in Nodes(r) : Above(Parent(f), Parent(e))
      BY <2>1 DEF RInv, Hierarchy
    <3> QED  BY <1>3, <1>7, <1>9, <3>1
  <2> QED  BY <1>7, <2>1 DEF Hierarchy, Nodes
<1>16. OnStacks' = OnStacks
  <2>1. OnStacks' = UNION {N(s) : s \in D}
    BY <1>7 DEF OnStacks, Stacks, Elements
  <2>2. OnStacks = UNION {Nodes(s) : s \in Stacks}
    BY OnStacksAre
  <2>3. Nodes(F) = {}
    BY <1>1 DEF Nodes, Elements
  <2> HIDE DEF N
  <2> QED  BY <1>1, <1>9, <2>1, <2>2, <2>3
<1> QED  BY <1>10, <1>11, <1>12, <1>14, <1>15, <1>16

(* A step that leaves the stacks and the assignment as they are, whatever  *)
(* happens to the order of the queue.                                      *)
LEMMA StacksKept ==
  ASSUME RInv, stacks' = stacks, assignment' = assignment,
         queue' \in Seq(Path), NoRepeat(queue'), Elements(queue') = Elements(queue)
  PROVE  /\ StackTypes' /\ StackTree' /\ NodesOnce' /\ Placed' /\ Hierarchy'
         /\ OnStacks' = OnStacks
<1>1. Stacks' = Stacks /\ OnStacks' = OnStacks
  BY DEF Stacks, OnStacks
<1>2. StackTypes' /\ NodesOnce'
  BY <1>1 DEF RInv, StackTypes, NodesOnce, Nodes
<1>3. Placed'
  BY <1>1 DEF RInv, Placed, Nodes
<1>4. Hierarchy'
  BY <1>1 DEF RInv, Hierarchy, Nodes
<1>5. StackTree'
  BY DEF RInv, StackTree, NoRepeat, Elements
<1> QED  BY <1>1, <1>2, <1>3, <1>4, <1>5

-----------------------------------------------------------------------------
(* What a step does to the search space: a leaf is handled, a node gets    *)
(* children, one of the loops goes on, or only the stacks change.          *)
HandlesLeaf ==
  /\ Takes /\ OnStacks' = OnStacks \ {Top}
  /\ ProcessCacheHit(Top) \/ ProcessPrune(Top) \/ ProcessLeafAND(Top)

Expands ==
  /\ Takes
  /\ \E s : /\ OnStacks' = (OnStacks \ {Top}) \cup Elements(s)
            /\ \/ s \in Seqs!SetToSeqs(OrChildren(Top)) /\ ProcessExpandAND(Top, s)
               \/ s \in Seqs!SetToSeqs(AndChildren(Top)) /\ ProcessExpandOR(Top, s)

Climbs == Climb /\ OnStacks' = OnStacks

Rests ==
  /\ UNCHANGED <<prob, node, assignment, cache, curCost, reg>> /\ OnStacks' = OnStacks
  /\ phase' = phase \/ (phase = "next" /\ phase' = "done" /\ queue = << >>)

(* Every step is one of these, and keeps the invariant.                    *)
LEMMA RotateStep ==
  RInv /\ [Next]_rotateVars => RInv' /\ (HandlesLeaf \/ Expands \/ Climbs \/ Rests)
<1> SUFFICES ASSUME RInv, [Next]_rotateVars
             PROVE  RInv' /\ (HandlesLeaf \/ Expands \/ Climbs \/ Rests)
  OBVIOUS
<1>1. PICK O, n : O = OnStacks /\ n = Top
  OBVIOUS
<1>2. SearchInv(O)
  BY <1>1 DEF RInv
<1>3. queue \in Seq(Path) /\ NoRepeat(queue)
  BY DEF RInv, StackTypes, StackTree, NoRepeat
<1>4. CASE MoveOn
  <2>1. queue # << >> /\ queue' = Append(Tail(queue), Head(queue)) /\ stacks' = stacks
    BY <1>4 DEF MoveOn, Choosing, Rotated, Front
  <2>2. queue' \in Seq(Path) /\ NoRepeat(queue') /\ Elements(queue') = Elements(queue)
    BY <1>3, <2>1, RotateQueue
  <2>3. UNCHANGED searchVars
    BY <1>4 DEF MoveOn
  <2>4. SearchInv(O)'
    BY <1>2, <2>3 DEF searchVars, SearchInv, SearchTypeOK, Live, Pointers, Climbing
  <2>5. /\ StackTypes' /\ StackTree' /\ NodesOnce' /\ Placed' /\ Hierarchy'
        /\ OnStacks' = O
    BY <1>1, <2>1, <2>2, <2>3, StacksKept DEF searchVars
  <2> QED  BY <1>1, <2>3, <2>4, <2>5 DEF RInv, Rests, searchVars
<1>5. CASE CleanUp
  <2>1. UNCHANGED searchVars
    BY <1>5 DEF CleanUp
  <2>2. SearchInv(O)'
    BY <1>2, <2>1 DEF searchVars, SearchInv, SearchTypeOK, Live, Pointers, Climbing
  <2>3. /\ StackTypes' /\ StackTree' /\ NodesOnce' /\ Placed' /\ Hierarchy'
        /\ OnStacks' = O
    BY <1>1, <1>5, CleanUpStep
  <2> QED  BY <1>1, <2>1, <2>2, <2>3 DEF RInv, Rests, searchVars
<1>6. CASE Leaf
  <2>1. /\ Takes /\ stacks' = Pushed(<< >>) /\ queue' = queue
        /\ ProcessCacheHit(Top) \/ ProcessPrune(Top) \/ ProcessLeafAND(Top)
    BY <1>6 DEF Leaf
  <2>2. Top \in OnStacks /\ phase = "next"
    BY <2>1, TopOfFront
  <2>3. SearchInv(O \ {n})' /\ assignment' = AssignmentAt(n)
    BY <1>1, <1>2, <2>1, <2>2, LeafKeeps
  <2> DEFINE t == << >>
  <2>4. t \in Seq(Path) /\ NoRepeat(t) /\ Elements(t) = {} /\ stacks' = Pushed(t)
    BY <2>1, EmptySeq DEF NoRepeat, Elements
  <2> HIDE DEF t
  <2>5. /\ StackTypes' /\ StackTree' /\ NodesOnce' /\ Placed' /\ Hierarchy'
        /\ OnStacks' = (O \ {n}) \cup Elements(t)
    BY <1>1, <2>1, <2>3, <2>4, PushStep
  <2>6. OnStacks' = O \ {n}
    BY <2>4, <2>5
  <2> QED  BY <1>1, <2>1, <2>3, <2>5, <2>6 DEF RInv, HandlesLeaf
<1>7. CASE ExpandAND \/ ExpandOR
  <2>1. Takes
    BY <1>7 DEF ExpandAND, ExpandOR
  <2>2. PICK s : /\ \/ s \in Seqs!SetToSeqs(OrChildren(Top)) /\ ProcessExpandAND(Top, s)
                    \/ s \in Seqs!SetToSeqs(AndChildren(Top)) /\ ProcessExpandOR(Top, s)
                 /\ \/ stacks' = Pushed(s) /\ queue' = queue
                    \/ /\ IsAND(Top)
                       /\ stacks' = Splits(s) /\ queue' = queue \o Seqs!Reverse(s)
    BY <1>7 DEF ExpandAND, ExpandOR
  <2>3. Top \in OnStacks /\ phase = "next"
    BY <2>1, TopOfFront
  <2>4. /\ SearchInv((O \ {n}) \cup Elements(s))' /\ Elements(s) \cap Live = {}
        /\ assignment' = AssignmentAt(n) /\ s \in Seq(Path) /\ NoRepeat(s)
        /\ Len(s) = Cardinality(Elements(s))
        /\ \A q \in Elements(s) : IsNodePath(q) /\ Len(q) = Len(n) + 1 /\ Parent(q) = n
    BY <1>1, <1>2, <2>2, <2>3, ExpandKeeps
  <2>5. /\ StackTypes' /\ StackTree' /\ NodesOnce' /\ Placed' /\ Hierarchy'
        /\ OnStacks' = (O \ {n}) \cup Elements(s)
    <3>1. CASE stacks' = Pushed(s) /\ queue' = queue
      BY <1>1, <2>1, <2>4, <3>1, PushStep
    <3>2. CASE IsAND(Top) /\ stacks' = Splits(s) /\ queue' = queue \o Seqs!Reverse(s)
      BY <1>1, <2>1, <2>4, <3>2, SplitStep
    <3> QED  BY <2>2, <3>1, <3>2
  <2> QED  BY <1>1, <2>1, <2>2, <2>4, <2>5 DEF RInv, Expands
<1>8. ASSUME SearchInv(O)', stacks' = stacks, queue' = queue, assignment' = assignment
      PROVE  RInv' /\ OnStacks' = OnStacks
  <2>1. /\ StackTypes' /\ StackTree' /\ NodesOnce' /\ Placed' /\ Hierarchy'
        /\ OnStacks' = O
    BY <1>1, <1>3, <1>8, StacksKept
  <2> QED  BY <1>1, <1>8, <2>1 DEF RInv
<1>9. CASE Exhausted
  <2>1. /\ ~Climbing /\ ~Climbing' /\ phase' = "done"
        /\ Live' = Live /\ reg' = reg /\ stacks' = stacks /\ queue' = queue
        /\ assignment' = assignment /\ cache' = cache
    BY <1>9 DEF Exhausted, Climbing, Live
  <2>2. SearchInv(O)'
    BY <1>2, <2>1, QuietStep DEF SearchInv, SearchTypeOK
  <2>3. UNCHANGED <<prob, node, curCost>> /\ phase = "next" /\ queue = << >>
    BY <1>9 DEF Exhausted
  <2> QED  BY <1>8, <2>1, <2>2, <2>3 DEF Rests
<1>10. CASE Propagation
  <2>1. Climb /\ stacks' = stacks /\ queue' = queue /\ assignment' = assignment
    BY <1>10, ClimbReads DEF Propagation
  <2>2. SearchInv(O)'
    BY <1>2, <2>1, ClimbKeeps
  <2> QED  BY <1>8, <2>1, <2>2 DEF Climbs
<1>11. CASE UNCHANGED rotateVars
  <2>1. stacks' = stacks /\ queue' = queue /\ assignment' = assignment
    BY <1>11 DEF rotateVars
  <2>2. SearchInv(O)'
    BY <1>2, <1>11 DEF rotateVars, SearchInv, SearchTypeOK, Live, Pointers, Climbing
  <2> QED  BY <1>8, <1>11, <2>1, <2>2 DEF rotateVars, Rests
<1> QED  BY <1>4, <1>5, <1>6, <1>7, <1>9, <1>10, <1>11 DEF Next

(* A search begins with one stack that holds the root.                     *)
LEMMA InitRotate == Init => RInv
<1> SUFFICES ASSUME Init PROVE RInv
  OBVIOUS
<1>0. IsNodePath(RootNode) /\ RootNode \in Path /\ Len(RootNode) = 1 /\ SearchInv({RootNode})
  BY InitSearch, OpenNode DEF Init, SearchInit, RootNode
<1> PICK r \in Path : r = RootNode
  BY <1>0
<1>1. IsNodePath(r) /\ r \in Path /\ Len(r) = 1 /\ SearchInv({r})
  BY <1>0
<1>2. stacks = [s \in {r} |-> NewStack(r, NULL)] /\ queue = << r >>
  BY DEF Init
<1>3. Parent(r) \in Path /\ Len(Parent(r)) = 0 /\ NULL \in Path /\ Above(r, r)
  <2>1. Len(r) >= 1 /\ Parent(r) \in Path /\ Above(r, r)
    BY <1>1, ParentPath, AbovePrefix
  <2>2. Len(Parent(r)) = Len(r) - 1
    BY <2>1, ParentPath
  <2> QED  BY <1>1, <2>1, <2>2, EmptySeq DEF NULL, Path
<1>4. /\ Stacks = {r} /\ stacks[r] = [nodes |-> << r >>, children |-> 0, parent |-> NULL]
  BY <1>2 DEF Stacks, NewStack
<1>5. /\ stacks[r].nodes = << r >> /\ stacks[r].children = 0 /\ stacks[r].parent = NULL
  BY <1>4
<1>6. \A e : Elements(<< e >>) = {e} /\ NoRepeat(<< e >>) /\ Nested(<< e >>)
  BY DEF Elements, NoRepeat, Nested
<1>7. Nodes(r) = {r}
  BY <1>5, <1>6 DEF Nodes
<1>8. StackTypes
  BY <1>1, <1>2, <1>3, <1>4 DEF StackTypes, NewStack, Stacks
<1>9. StackTree
  <2>1. NULL # r
    BY <1>1 DEF NULL
  <2>2. {c \in DOMAIN stacks : stacks[c].parent = r} = {}
    BY <1>4, <1>5, <2>1 DEF Stacks
  <2>3. /\ DOMAIN stacks = {queue[i] : i \in DOMAIN queue}
        /\ \A i, j \in DOMAIN queue : queue[i] = queue[j] => i = j
    BY <1>2, <1>4, <1>6 DEF Elements, NoRepeat, Stacks
  <2> QED  BY <1>4, <1>5, <2>2, <2>3, FS_EmptySet DEF StackTree, Stacks
<1>10. NodesOnce
  BY <1>4, <1>5, <1>6 DEF NodesOnce
<1>11. Placed
  <2>1. Agrees(assignment, Parent(r))
    BY <1>3 DEF Agrees
  <2> QED  BY <1>3, <1>4, <1>5, <1>6, <1>7, <2>1 DEF Placed
<1>12. Hierarchy
  BY <1>4 DEF Hierarchy
<1>13. OnStacks = {r}
  BY <1>4, <1>7, OnStacksAre
<1> QED  BY <1>1, <1>8, <1>9, <1>10, <1>11, <1>12, <1>13 DEF RInv

(* The inductive invariant holds in every reachable state.                 *)
THEOREM RotateInvariance == Spec => []RInv
BY InitRotate, RotateStep, PTL DEF Spec

(* StackTree: each stack is in the queue once and counts the stacks split  *)
(* from it that are not yet solved: none is deleted while another points   *)
(* to it, and none waits for a stack that is gone.                         *)
THEOREM StackTreeHolds == Spec => []StackTree
<1>1. RInv => StackTree
  BY DEF RInv
<1> QED  BY <1>1, RotateInvariance, PTL

(* NothingLost: however the stacks are left and taken up again, each node  *)
(* that was generated is handled before it is erased.                      *)
THEOREM RotateNothingLost == Spec => []NothingLost
<1>1. RInv => NothingLost
  BY LeavesAreOpen DEF RInv, NothingLost
<1> QED  BY <1>1, RotateInvariance, PTL

(* ReadsOwnPath: m_assignment is not restored when nextNode moves on to    *)
(* another stack; the context of the node taken is on its path all the same.*)
THEOREM ReadsOwnPathHolds == Spec => []ReadsOwnPath
<1>1. RInv => ReadsOwnPath
  <2> SUFFICES ASSUME RInv, Takes, NEW y \in Ctx[Var(Top)]
               PROVE  assignment[y] = PathValue(Top, y)
    BY DEF ReadsOwnPath
  <2> DEFINE n == Top
             k == OrLevel(Top)
  <2>1. IsNodePath(n) /\ Agrees(assignment, Parent(n))
    BY TopOfFront
  <2>2. k \in 1 .. Len(n) /\ k % 2 = 1 /\ Var(n) = n[k]
    BY <2>1, OrLevelOf
  <2> HIDE DEF n, k
  <2>3. PICK j \in 1 .. k - 1 : j % 2 = 1 /\ n[j] = y
    <3>1. y \in Ctx[Var(n)]
      BY DEF n
    <3> QED  BY <2>1, <2>2, <3>1, ContextAbove
  <2>4. assignment[n[j]] = PathValue(n, n[j])
    BY <2>1, <2>3, ReadsPath DEF k, n
  <2> QED  BY <2>3, <2>4 DEF n
<1> QED  BY <1>1, RotateInvariance, PTL

-----------------------------------------------------------------------------
(* What the schedule means for costs and tables: a node that is handled    *)
(* has an open node below it, on some stack; that stack is above the one   *)
(* in use, and so are the parents of its nodes, or it parts from it.  So   *)
(* of the nodes handled and not erased, no two part at a value.            *)
LEMMA HandledBeside ==
  ASSUME RInv, Takes, Handled(OnStacks)
  PROVE  \A a \in Live \ OnStacks : Above(a, Top) \/ Parts(a, Top)
<1> SUFFICES ASSUME NEW a \in Live, a \notin OnStacks
             PROVE  Above(a, Top) \/ Parts(a, Top)
  OBVIOUS
<1>1. /\ phase = "next" /\ Front \in Stacks /\ IsNodePath(Top) /\ Top \in Path /\ Len(Top) >= 1
      /\ Above(Front, Top) /\ \A t \in Stacks : Above(Front, t) => t = Front
      /\ Front \in Path
  BY TopOfFront, StackOf
<1>2. OnStacks \subseteq Live /\ Tree(Live)
  BY NothingDangles DEF RInv, SearchInv, NoneDangling
<1>3. IsNodePath(a) /\ a \in Path /\ Len(a) >= 1
  BY <1>2 DEF Tree, IsNodePath
<1>4. CASE a = RootNode
  BY <1>1, <1>4, RootAbove
<1>5. CASE a # RootNode
  <2>1. Pending(OnStacks) = OnStacks
    BY <1>1 DEF Pending, Climbing
  <2>2. PICK o \in OnStacks : Above(a, o)
    BY <1>5, <2>1 DEF Handled, Covers
  <2>3. PICK s \in Stacks : o \in Nodes(s)
    BY OnStacksAre
  <2>4. o \in Path /\ Len(o) >= 1 /\ a # o
    BY <1>2 DEF Tree, IsNodePath
  <2>5. CASE o = Top
    BY <2>2, <2>5
  <2>6. CASE o # Top /\ Above(s, Front)
    <3>1. Above(Parent(o), Top)
      BY <2>3, <2>6, OthersAgree
    <3>2. Above(a, Parent(o)) /\ Parent(o) \in Path
      BY <1>3, <2>2, <2>4, AboveOfParent, ParentPath
    <3> QED  BY <1>1, <1>3, <3>1, <3>2, AboveTransitive
  <2>7. CASE ~Above(s, Front)
    <3>1. s # Front
      BY <1>1, <2>7, AbovePrefix
    <3>2. Parts(s, Front)
      BY <1>1, <2>7, <3>1 DEF RInv, Hierarchy
    <3>3. s \in Path /\ Above(s, o)
      BY <2>3, StackOf DEF RInv, Placed
    <3>4. Parts(o, Top)
      BY <1>1, <2>4, <3>2, <3>3, PartsBelow
    <3> QED  BY <1>1, <1>3, <2>2, <2>4, <3>4, AboveOrParts
  <2> QED  BY <2>5, <2>6, <2>7
<1> QED  BY <1>4, <1>5

(* Every step keeps the handled nodes where they are.                      *)
LEMMA HandledKept ==
  ASSUME RInv, Handled(OnStacks), [Next]_rotateVars
  PROVE  Handled(OnStacks)'
<1>1. PICK O, n : O = OnStacks /\ n = Top
  OBVIOUS
<1>2. SearchInv(O) /\ Handled(O)
  BY <1>1 DEF RInv
<1>3. Takes => /\ n \in O /\ phase = "next"
               /\ \A a \in Live \ O : Above(a, n) \/ Parts(a, n)
  BY <1>1, TopOfFront, HandledBeside
<1>4. CASE HandlesLeaf
  <2>1. Handled(O \ {n})'
    BY <1>1, <1>2, <1>3, <1>4, HandledLeaf DEF HandlesLeaf
  <2> QED  BY <1>1, <1>4, <2>1 DEF HandlesLeaf
<1>5. CASE Expands
  <2>1. PICK s : /\ OnStacks' = (O \ {n}) \cup Elements(s)
                 /\ \/ s \in Seqs!SetToSeqs(OrChildren(n)) /\ ProcessExpandAND(n, s)
                    \/ s \in Seqs!SetToSeqs(AndChildren(n)) /\ ProcessExpandOR(n, s)
    BY <1>1, <1>5 DEF Expands
  <2>2. Handled((O \ {n}) \cup Elements(s))'
    BY <1>2, <1>3, <1>5, <2>1, HandledExpand DEF Expands
  <2> QED  BY <2>1, <2>2
<1>6. CASE Climbs
  <2>1. Handled(O)'
    BY <1>2, <1>6, HandledClimb DEF Climbs
  <2> QED  BY <1>1, <1>6, <2>1 DEF Climbs
<1>7. CASE Rests
  <2>1. Live' = Live /\ (Climbing' <=> Climbing) /\ reg' = reg
    BY <1>7 DEF Rests, Live, Climbing
  <2>2. Handled(O)'
    BY <1>2, <2>1, HandledSame
  <2> QED  BY <1>1, <1>7, <2>2 DEF Rests
<1> QED  BY <1>4, <1>5, <1>6, <1>7, RotateStep

(* Every step leaves values and cache entries at most what they stand for. *)
LEMMA CostStep ==
  ASSUME RInv, Handled(OnStacks), CostInv(OnStacks), [Next]_rotateVars
  PROVE  CostInv(OnStacks)'
<1>1. PICK O, n : O = OnStacks /\ n = Top
  OBVIOUS
<1>2. SearchInv(O) /\ CostInv(O) /\ OneValued(Live \ O)
  BY <1>1 DEF RInv, Handled
<1>3. Takes => n \in O /\ phase = "next" /\ Agrees(assignment, Parent(n))
  BY <1>1, TopOfFront
<1>4. CASE HandlesLeaf
  <2>1. CostInv(O \ {n})'
    BY <1>1, <1>2, <1>3, <1>4, HitFits, PruneFits, LeafANDFits DEF HandlesLeaf
  <2> QED  BY <1>1, <1>4, <2>1 DEF HandlesLeaf
<1>5. CASE Expands
  <2>1. PICK s : /\ OnStacks' = (O \ {n}) \cup Elements(s)
                 /\ \/ s \in Seqs!SetToSeqs(OrChildren(n)) /\ ProcessExpandAND(n, s)
                    \/ s \in Seqs!SetToSeqs(AndChildren(n)) /\ ProcessExpandOR(n, s)
    BY <1>1, <1>5 DEF Expands
  <2>2. CostInv((O \ {n}) \cup Elements(s))'
    BY <1>2, <1>3, <1>5, <2>1, ExpandANDFits, ExpandORFits DEF Expands
  <2> QED  BY <2>1, <2>2
<1>6. CASE Climbs
  <2>1. CostInv(O)'
    BY <1>2, <1>6, HeurFits, PropagateANDFits, PropagateORFits, FinishFits DEF Climbs, Climb
  <2> QED  BY <1>1, <1>6, <2>1 DEF Climbs
<1>7. CASE Rests
  <2>1. /\ prob' = prob /\ curCost' = curCost /\ cache' = cache /\ Live' = Live /\ node' = node
    BY <1>7 DEF Rests, Live
  <2>2. CostInv(O)'
    BY <1>2, <2>1, BoundsOnly
  <2> QED  BY <1>1, <1>7, <2>2 DEF Rests
<1> QED  BY <1>4, <1>5, <1>6, <1>7, RotateStep

(* Every step keeps all that makes the result the optimum.                 *)
LEMMA OptStep ==
  ASSUME ~PropHeuristic, RInv, Handled(OnStacks), CostInv(OnStacks), OptInv(OnStacks),
         [Next]_rotateVars
  PROVE  OptInv(OnStacks)'
<1>1. PICK O, n : O = OnStacks /\ n = Top
  OBVIOUS
<1>2. SearchInv(O) /\ CostInv(O) /\ OptInv(O) /\ OneValued(Live \ O)
  BY <1>1 DEF RInv, Handled
<1>3. Takes => n \in O /\ phase = "next" /\ Agrees(assignment, Parent(n))
  BY <1>1, TopOfFront
<1>4. CASE HandlesLeaf
  <2>1. OptInv(O \ {n})'
    BY <1>1, <1>2, <1>3, <1>4, OptLeaf DEF HandlesLeaf
  <2> QED  BY <1>1, <1>4, <2>1 DEF HandlesLeaf
<1>5. CASE Expands
  <2>1. PICK s : /\ OnStacks' = (O \ {n}) \cup Elements(s)
                 /\ \/ s \in Seqs!SetToSeqs(OrChildren(n)) /\ ProcessExpandAND(n, s)
                    \/ s \in Seqs!SetToSeqs(AndChildren(n)) /\ ProcessExpandOR(n, s)
    BY <1>1, <1>5 DEF Expands
  <2>2. OptInv((O \ {n}) \cup Elements(s))'
    BY <1>2, <1>3, <1>5, <2>1, OptExpand DEF Expands
  <2> QED  BY <2>1, <2>2
<1>6. CASE Climbs
  <2>1. OptInv(O)'
    BY <1>2, <1>6, OptClimb DEF Climbs
  <2> QED  BY <1>1, <1>6, <2>1 DEF Climbs
<1>7. CASE Rests
  <2>1. /\ prob' = prob /\ curCost' = curCost /\ cache' = cache /\ Live' = Live
        /\ node' = node /\ reg' = reg
        /\ phase' = phase \/ (phase = "next" /\ phase' = "done")
    BY <1>7 DEF Rests, Live
  <2>2. OptInv(O)'
    BY <1>2, <2>1, OptRest
  <2> QED  BY <1>1, <1>7, <2>2 DEF Rests
<1> QED  BY <1>4, <1>5, <1>6, <1>7, RotateStep

(* No stack is left, so nothing is open.                                   *)
LEMMA NoStackLeft == ASSUME RInv, queue = << >> PROVE OnStacks = {}
<1>1. DOMAIN queue = {}
  BY EmptySeq
<1>2. DOMAIN stacks = {}
  BY <1>1 DEF RInv, StackTree
<1> QED  BY <1>2 DEF OnStacks

(* The costs in the nodes and in the tables are sound although the         *)
(* subproblems below an AND node are solved interleaved.                   *)
THEOREM RotateCostInvariance == Spec => [](RInv /\ Handled(OnStacks) /\ CostInv(OnStacks))
<1>1. Init => Handled(OnStacks) /\ CostInv(OnStacks)
  <2> SUFFICES ASSUME Init PROVE Handled(OnStacks) /\ CostInv(OnStacks)
    OBVIOUS
  <2>1. OnStacks = {RootNode}
    BY DEF Init, OnStacks, NewStack
  <2> QED  BY <2>1, InitHandled, InitFits DEF Init
<1>2. RInv /\ Handled(OnStacks) /\ CostInv(OnStacks) /\ [Next]_rotateVars
      => (Handled(OnStacks) /\ CostInv(OnStacks))'
  BY HandledKept, CostStep
<1> QED  BY <1>1, <1>2, RotateInvariance, PTL DEF Spec

(* ValuesAreLowerBounds: a value computed while other subproblems are half *)
(* solved, or found in a table that they have written, is never better     *)
(* than the optimum of its subproblem.                                     *)
THEOREM RotateValuesAreLowerBounds == Spec => []ValuesAreLowerBounds
<1>1. CostInv(OnStacks) => ValuesAreLowerBounds
  BY DEF CostInv, NodesFit, NodeOK, Exact, ValuesAreLowerBounds
<1> QED  BY <1>1, RotateCostInvariance, PTL

(* solve returns when no stack is left. *)
Emptied == phase = "done" => queue = << >>

(* Without propHeuristic, all that makes the result the optimum is kept.   *)
THEOREM RotateOptInvariance ==
  ASSUME ~PropHeuristic
  PROVE  Spec => [](OptInv(OnStacks) /\ Emptied)
<1>1. Init => OptInv(OnStacks) /\ Emptied
  <2> SUFFICES ASSUME Init PROVE OptInv(OnStacks) /\ Emptied
    OBVIOUS
  <2>1. OnStacks = {RootNode} /\ phase = "next"
    BY DEF Init, OnStacks, NewStack, SearchInit
  <2> QED  BY <2>1, OptInit DEF Init, Emptied
<1>2. /\ RInv /\ Handled(OnStacks) /\ CostInv(OnStacks) /\ OptInv(OnStacks) /\ Emptied
      /\ [Next]_rotateVars
      => (OptInv(OnStacks) /\ Emptied)'
  <2> SUFFICES ASSUME RInv, Handled(OnStacks), CostInv(OnStacks), OptInv(OnStacks), Emptied,
                      [Next]_rotateVars
               PROVE  OptInv(OnStacks)' /\ Emptied'
    OBVIOUS
  <2>1. OptInv(OnStacks)'
    BY OptStep
  <2>2. phase \notin {"heur", "heurEnd"}
    BY DEF OptInv, InSync
  <2>3. Emptied'
    <3>1. CASE Climb
      BY <2>2, <3>1 DEF Climb, PropHeurAND, PropHeurOR, PropHeurEnd, PropagateAND,
                        PropagateOR, PropagateFinish, ClimbOn, Emptied
    <3>2. CASE ~Climb
      BY <3>2 DEF Next, MoveOn, CleanUp, Leaf, ExpandAND, ExpandOR, Exhausted, Propagation,
                  rotateVars, searchVars, Choosing, Takes, ProcessCacheHit, ProcessPrune,
                  ProcessLeafAND, ProcessExpandAND, ProcessExpandOR, PropagateFrom, Deliver, Emptied
    <3> QED  BY <3>1, <3>2
  <2> QED  BY <2>1, <2>3
<1> QED  BY <1>1, <1>2, RotateCostInvariance, PTL DEF Spec

(* CacheHitsExact: the stacks write to the same tables, in an order that   *)
(* the limit on a stack decides.  What a node finds there is its optimum.  *)
THEOREM RotateCacheHitsExact ==
  ASSUME ~PropHeuristic
  PROVE  Spec => []CacheHitsExact
<1>1. OptInv(OnStacks) => CacheHitsExact
  BY DEF OptInv
<1> QED  BY <1>1, RotateOptInvariance, PTL

(* CacheWritesExact: a subproblem may be pruned against the half solved    *)
(* ones beside it; nothing that lost its optimum by that is written.       *)
THEOREM RotateCacheWritesExact ==
  ASSUME ~PropHeuristic
  PROVE  Spec => CacheWritesExact
<1>1. RInv /\ CostInv(OnStacks) /\ OptInv(OnStacks) /\ [Next]_rotateVars => NewEntriesExact
  <2> SUFFICES ASSUME RInv, CostInv(OnStacks), OptInv(OnStacks), [Next]_rotateVars
               PROVE  NewEntriesExact
    OBVIOUS
  <2>1. CASE Climb
    BY <2>1, ExactEntered DEF RInv
  <2>2. CASE ~Climb
    <3>1. cache' = cache \/ \E n : cache' = CacheAt(n)
      BY <2>2, RotateStep DEF HandlesLeaf, Expands, Climbs, Rests, ProcessCacheHit,
                              ProcessPrune, ProcessLeafAND, ProcessExpandAND, ProcessExpandOR
    <3> QED  BY <3>1, NothingEntered
  <2> QED  BY <2>1, <2>2
<1>2. Spec => [][NewEntriesExact]_searchVars
  BY <1>1, RotateCostInvariance, RotateOptInvariance, PTL DEF Spec
<1> QED  BY <1>2 DEF CacheWritesExact, NewEntriesExact

(* ResultOptimal: when the last stack is gone, the value of the root and   *)
(* the cost that Problem holds are the optimum.                            *)
THEOREM RotateResultOptimal ==
  ASSUME ~PropHeuristic
  PROVE  Spec => []ResultOptimal
<1>1. RInv /\ Handled(OnStacks) /\ CostInv(OnStacks) /\ OptInv(OnStacks) /\ Emptied
      => ResultOptimal
  <2> SUFFICES ASSUME RInv, Handled(OnStacks), CostInv(OnStacks), OptInv(OnStacks),
                      Emptied, phase = "done"
               PROVE  node[RootNode].value = Optimum(prob) /\ curCost = Optimum(prob)
    BY DEF ResultOptimal
  <2>1. OnStacks = {} /\ ~Climbing
    BY NoStackLeft DEF Emptied, Climbing
  <2>2. Live = {RootNode}
    BY <2>1, OnlyRootLeft DEF OptInv, InSync, RootKept
  <2>3. CostInv({}) /\ OptInv({})
    BY <2>1
  <2> QED  BY <2>2, <2>3, OptDone
<1> QED  BY <1>1, RotateCostInvariance, RotateOptInvariance, PTL

(* ImplementsAnytime: with rotation, too, the cost that is reported gets   *)
(* better step by step and is the optimum when the search says it is done. *)
THEOREM RotateImplementsAnytime ==
  ASSUME ~PropHeuristic
  PROVE  Spec => ImplementsAnytime
<1>1. Init => Anytime!Init
  BY AnytimeInit DEF Init
<1>2. /\ RInv /\ Handled(OnStacks) /\ CostInv(OnStacks) /\ OptInv(OnStacks)
      /\ [Next]_rotateVars /\ CostInv(OnStacks)'
      => [Anytime!Improve \/ Anytime!Finish]_<<curCost, phase = "done", Optimum(prob)>>
  <2> SUFFICES ASSUME RInv, Handled(OnStacks), CostInv(OnStacks), OptInv(OnStacks),
                      [Next]_rotateVars, CostInv(OnStacks)'
               PROVE  [Anytime!Improve \/ Anytime!Finish]_Progress
    BY DEF Progress
  <2>1. PICK O : O = OnStacks
    OBVIOUS
  <2>2. CASE HandlesLeaf \/ Expands
    <3>1. curCost' = curCost /\ prob' = prob /\ phase # "done" /\ phase' # "done"
      BY <2>2 DEF HandlesLeaf, Expands, Takes, Choosing, ProcessCacheHit, ProcessPrune,
                  ProcessLeafAND, ProcessExpandAND, ProcessExpandOR, PropagateFrom, Deliver
    <3> QED  BY <3>1, AnytimeRest
  <2>3. CASE Climbs
    <3>1. CostInv(O)'
      BY <2>1, <2>3 DEF Climbs
    <3> QED  BY <2>1, <2>3, <3>1, AnytimeClimb DEF Climbs
  <2>4. CASE Rests /\ phase' = phase
    BY <2>4, AnytimeRest DEF Rests
  <2>5. CASE Rests /\ phase' # phase
    <3>1. phase = "next" /\ phase' = "done" /\ curCost' = curCost /\ prob' = prob /\ O = {}
      BY <2>1, <2>5, NoStackLeft DEF Rests
    <3> QED  BY <2>1, <3>1, AnytimeEnd
  <2> QED  BY <2>2, <2>3, <2>4, <2>5, RotateStep
<1> QED  BY <1>1, <1>2, RotateCostInvariance, RotateOptInvariance, PTL
         DEF Spec, ImplementsAnytime, Anytime!Spec

(* A search holds finitely many nodes, on however many stacks.             *)
LEMMA FiniteAlways == Spec => []IsFiniteSet(Live)
<1>1. Init => IsFiniteSet(Live)
  <2> SUFFICES ASSUME Init PROVE IsFiniteSet(Live)
    OBVIOUS
  <2>1. Live = {RootNode}
    BY DEF Init, SearchInit, Live
  <2> QED  BY <2>1, FS_Singleton
<1>2. RInv /\ IsFiniteSet(Live) /\ [Next]_rotateVars => IsFiniteSet(Live)'
  <2> SUFFICES ASSUME RInv, IsFiniteSet(Live), [Next]_rotateVars PROVE IsFiniteSet(Live')
    OBVIOUS
  <2>1. Takes => IsNodePath(Top)
    BY TopOfFront
  <2>2. CASE HandlesLeaf \/ Expands
    BY <2>1, <2>2, FinitelyMany DEF HandlesLeaf, Expands
  <2>3. CASE Climbs
    BY <2>3, FewerLeft DEF Climbs
  <2>4. CASE Rests
    BY <2>4 DEF Rests, Live
  <2> QED  BY <2>2, <2>3, <2>4, RotateStep
<1> QED  BY <1>1, <1>2, RotateInvariance, PTL DEF Spec

(* OptimumNotLost: pruning against what the half solved subproblems have   *)
(* found, and leaving a stack in the middle, cut nothing off that the root *)
(* still needs to reach the optimum.                                       *)
THEOREM RotateOptimumNotLost ==
  ASSUME ~PropHeuristic
  PROVE  Spec => []OptimumNotLost
<1>1. RInv /\ CostInv(OnStacks) /\ OptInv(OnStacks) /\ IsFiniteSet(Live) => OptimumNotLost
  BY OptimumReachable DEF RInv, OptimumNotLost
<1> QED  BY <1>1, RotateInvariance, RotateCostInvariance, RotateOptInvariance, FiniteAlways, PTL
=============================================================================
