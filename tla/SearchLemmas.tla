---------------------------- MODULE SearchLemmas ----------------------------
(***************************************************************************)
(* The part of the proofs that all search schemes share.  The first half   *)
(* is about the paths that name the nodes, and how a set L of live nodes   *)
(* and a set O of open nodes stay in step when a node is taken, expanded,  *)
(* propagated and erased; its operators take the sets as parameters, so    *)
(* that a lemma relates two states by plain set theory.  The second half   *)
(* applies it to the search: O is the set of nodes that the scheme still   *)
(* holds in its stack or stacks, and taking a node of O, expanding it, and *)
(* the loops of propagate and propHeuristic keep the live nodes a tree     *)
(* whose leaves are O and the leaf being propagated.  The last part says   *)
(* where the nodes lie that have been handled and are not erased.          *)
(***************************************************************************)
EXTENDS SearchProperties, CommonLemmas

Element == Vars \cup Int

(* The first k elements of a path are a path, and two such cuts in a row   *)
(* amount to the shorter one.                                              *)
LEMMA PrefixPath ==
  ASSUME NEW p \in Path, NEW k \in 0 .. Len(p)
  PROVE  /\ Prefix(p, k) \in Path
         /\ Len(Prefix(p, k)) = k
         /\ \A i \in 1 .. k : Prefix(p, k)[i] = p[i]
         /\ \A j \in 0 .. k : Prefix(Prefix(p, k), j) = Prefix(p, j)
         /\ Prefix(p, Len(p)) = p
<1> DEFINE q == Prefix(p, k)
<1>1. p \in Seq(Element) /\ Len(p) \in Nat
  BY LenProperties DEF Path, Element
<1>2. \A i \in 1 .. k : p[i] \in Element
  BY <1>1, ElementOfSeq
<1>3. q \in Path /\ Len(q) = k /\ \A i \in 1 .. k : q[i] = p[i]
  <2>1. /\ q \in Seq(Element)
        /\ Len(q) = IF 1 <= k THEN k - 1 + 1 ELSE 0
        /\ \A i \in 1 .. k - 1 + 1 : q[i] = p[1 + i - 1]
    BY <1>1, <1>2, SubSeqProperties DEF Prefix
  <2> QED  BY <2>1, <1>1 DEF Path, Element
<1>4. ASSUME NEW j \in 0 .. k PROVE Prefix(q, j) = Prefix(p, j)
  <2> DEFINE a == Prefix(q, j)
             b == Prefix(p, j)
  <2>1. /\ a \in Seq(Element) /\ Len(a) = j
        /\ \A i \in 1 .. j : a[i] = q[i]
    <3>1. j \in Nat /\ j <= k /\ q \in Seq(Element)
      BY <1>3 DEF Path, Element
    <3>2. \A i \in 1 .. j : q[i] \in Element
      BY <1>2, <1>3, <3>1
    <3>3. /\ a \in Seq(Element)
          /\ Len(a) = IF 1 <= j THEN j - 1 + 1 ELSE 0
          /\ \A i \in 1 .. j - 1 + 1 : a[i] = q[1 + i - 1]
      BY ONLY <3>1, <3>2, SubSeqProperties DEF Prefix
    <3> HIDE DEF a, q
    <3> QED  BY <3>1, <3>3
  <2>2. /\ b \in Seq(Element) /\ Len(b) = j
        /\ \A i \in 1 .. j : b[i] = p[i]
    <3>1. j \in Nat /\ \A i \in 1 .. j : p[i] \in Element
      BY <1>2
    <3>2. /\ b \in Seq(Element)
          /\ Len(b) = IF 1 <= j THEN j - 1 + 1 ELSE 0
          /\ \A i \in 1 .. j - 1 + 1 : b[i] = p[1 + i - 1]
      BY ONLY <3>1, SubSeqProperties DEF Prefix
    <3> HIDE DEF b
    <3> QED  BY <3>1, <3>2
  <2>3. \A i \in 1 .. Len(a) : a[i] = b[i]
    BY <2>1, <2>2, <1>3
  <2> HIDE DEF a, b
  <2>4. a = b
    BY <2>1, <2>2, <2>3, SeqEqual
  <2> QED  BY <2>4 DEF a, b
<1>5. Prefix(p, Len(p)) = p
  BY <1>1, SubSeqFull DEF Prefix
<1> QED  BY <1>3, <1>4, <1>5

(* The parent of a path is the path without its last element.              *)
LEMMA ParentPath ==
  ASSUME NEW p \in Path
  PROVE  /\ Len(p) \in Nat
         /\ Parent(p) \in Path
         /\ Len(p) >= 1 => /\ Parent(p) = Prefix(p, Len(p) - 1)
                           /\ Len(Parent(p)) = Len(p) - 1
<1>1. p \in Seq(Element) /\ Len(p) \in Nat
  BY LenProperties DEF Path, Element
<1>2. CASE Len(p) = 0
  <2>1. Parent(p) = << >>
    BY <1>1, <1>2, SubSeqEmpty DEF Parent
  <2> QED  BY <1>1, <1>2, <2>1, EmptySeq DEF Path
<1>3. CASE Len(p) >= 1
  <2>1. Parent(p) = Prefix(p, Len(p) - 1)
    BY DEF Parent, Prefix
  <2>2. Len(p) - 1 \in 0 .. Len(p)
    BY <1>1, <1>3
  <2> QED  BY <1>1, <2>1, <2>2, PrefixPath
<1> QED  BY <1>1, <1>2, <1>3

(* Appending an element makes a path whose parent is the old one.          *)
LEMMA AppendPath ==
  ASSUME NEW p \in Path, NEW e \in Element
  PROVE  /\ Append(p, e) \in Path
         /\ Len(Append(p, e)) = Len(p) + 1
         /\ Parent(Append(p, e)) = p
         /\ Append(p, e)[Len(p) + 1] = e
         /\ \A i \in 1 .. Len(p) : Append(p, e)[i] = p[i]
         /\ \A k \in 0 .. Len(p) : Prefix(Append(p, e), k) = Prefix(p, k)
<1> DEFINE q == Append(p, e)
<1>1. p \in Seq(Element) /\ Len(p) \in Nat
  BY LenProperties DEF Path, Element
<1>2. /\ q \in Seq(Element)
      /\ Len(q) = Len(p) + 1
      /\ \A i \in 1 .. Len(p) : q[i] = p[i]
      /\ q[Len(p) + 1] = e
  BY <1>1, AppendProperties
<1>3. q \in Path
  BY <1>2 DEF Path, Element
<1> HIDE DEF q
<1>4. Parent(q) = p
  <2>1. /\ Parent(q) = Prefix(q, Len(p)) /\ Parent(q) \in Path
        /\ Len(Parent(q)) = Len(p)
    BY <1>1, <1>2, <1>3, ParentPath
  <2>2. \A i \in 1 .. Len(Parent(q)) : Parent(q)[i] = p[i]
    <3>1. Len(p) \in 0 .. Len(q)
      BY <1>1, <1>2
    <3> QED  BY <2>1, <3>1, <1>2, <1>3, PrefixPath
  <2> QED  BY <2>1, <2>2, <1>1, SeqEqual DEF Path, Element
<1>5. ASSUME NEW k \in 0 .. Len(p) PROVE Prefix(q, k) = Prefix(p, k)
  <2>1. Len(p) \in 0 .. Len(q) /\ Len(q) >= 1
    BY <1>1, <1>2
  <2>2. Prefix(q, Len(p)) = p
    BY <1>1, <1>2, <1>3, <1>4, <2>1, ParentPath
  <2> QED  BY <1>3, <2>1, <2>2, PrefixPath
<1> QED  BY <1>2, <1>3, <1>4, <1>5 DEF q

(* A node above another is the other one, or above the other's parent.     *)
LEMMA AbovePrefix ==
  ASSUME NEW p \in Path, NEW q \in Path
  PROVE  /\ Above(p, p)
         /\ \A k \in 0 .. Len(q) : Above(p, Prefix(q, k)) => Above(p, q)
         /\ Above(p, q) /\ p # q =>
              /\ Len(p) + 1 \in 1 .. Len(q)
              /\ Prefix(q, Len(p) + 1) \in Path
              /\ Len(Prefix(q, Len(p) + 1)) = Len(p) + 1
              /\ Parent(Prefix(q, Len(p) + 1)) = p
              /\ Above(Prefix(q, Len(p) + 1), q)
<1>1. Len(p) \in Nat /\ Len(q) \in Nat
  BY ParentPath
<1>2. Above(p, p)
  <2>1. Len(p) \in 0 .. Len(p)
    BY <1>1
  <2> QED  BY <1>1, <2>1, PrefixPath DEF Above, Prefix
<1>3. ASSUME NEW k \in 0 .. Len(q), Above(p, Prefix(q, k)) PROVE Above(p, q)
  <2>1. Len(Prefix(q, k)) = k /\ Len(p) <= k /\ Prefix(Prefix(q, k), Len(p)) = p
    BY <1>3, PrefixPath DEF Above, Prefix
  <2>2. Len(p) \in 0 .. k /\ Len(p) <= Len(q)
    BY <1>1, <2>1
  <2>3. Prefix(q, Len(p)) = p
    BY <2>1, <2>2, PrefixPath
  <2> QED  BY <2>2, <2>3 DEF Above, Prefix
<1>4. ASSUME Above(p, q), p # q
      PROVE  /\ Len(p) + 1 \in 1 .. Len(q)
             /\ Prefix(q, Len(p) + 1) \in Path
             /\ Len(Prefix(q, Len(p) + 1)) = Len(p) + 1
             /\ Parent(Prefix(q, Len(p) + 1)) = p
             /\ Above(Prefix(q, Len(p) + 1), q)
  <2> DEFINE c == Prefix(q, Len(p) + 1)
  <2>1. Len(p) <= Len(q) /\ Prefix(q, Len(p)) = p
    BY <1>4 DEF Above, Prefix
  <2>2. Len(p) # Len(q)
    <3>1. Len(q) \in 0 .. Len(q) /\ Prefix(q, Len(q)) = q
      BY <1>1, PrefixPath
    <3> QED  BY <1>4, <2>1, <3>1
  <2>3. Len(p) + 1 \in 1 .. Len(q) /\ Len(p) + 1 \in 0 .. Len(q)
    BY <1>1, <2>1, <2>2
  <2>4. c \in Path /\ Len(c) = Len(p) + 1 /\ Prefix(c, Len(p)) = Prefix(q, Len(p))
    <3>1. Len(p) \in 0 .. Len(p) + 1
      BY <1>1
    <3> QED  BY <2>3, <3>1, PrefixPath
  <2>5. Parent(c) = p
    BY <1>1, <2>1, <2>4, ParentPath
  <2>6. Above(c, q)
    BY <1>1, <2>3, <2>4 DEF Above, Prefix
  <2> QED  BY <2>3, <2>4, <2>5, <2>6
<1> QED  BY <1>2, <1>3, <1>4

-----------------------------------------------------------------------------

(* Variables and values alternate on the path of a node, and its variables *)
(* descend the pseudo tree from the root.                                  *)
IsNodePath(p) ==
  /\ p \in Path /\ Len(p) >= 1 /\ p[1] = Root
  /\ \A i \in 1 .. Len(p) : IF i % 2 = 1 THEN p[i] \in Vars ELSE p[i] \in Int
  /\ \A i \in 1 .. Len(p) - 2 : i % 2 = 1 => p[i + 2] \in ChildSet(p[i])

Tree(L) ==
  /\ \A p \in L : IsNodePath(p)
  /\ \A p \in L : \A k \in 1 .. Len(p) : Prefix(p, k) \in L

KidsIn(L, p) == {q \in L : Len(q) = Len(p) + 1 /\ Parent(q) = p}

(* H is the leaf that is being propagated, if there is one. *)
Frontier(L, O, H) ==
  /\ O \cup H \subseteq L /\ O \cap H = {}
  /\ \A q \in O \cup H : KidsIn(L, q) = {}
  /\ \A p \in L : KidsIn(L, p) = {} => p = RootNode \/ p \in O \cup H

(* What propagate knows of its pointers while it climbs from leaf. *)
Closing(L, O, leaf, prev, high, del) ==
  /\ leaf \in L /\ prev \in L /\ Above(prev, leaf)
  /\ high = NULL => prev = leaf /\ del
  /\ high # NULL =>
       /\ high \in L /\ Above(high, leaf)
       /\ \A q \in O : ~Above(high, q)
       /\ IF del THEN high \in KidsIn(L, prev)
          ELSE \E q \in KidsIn(L, Parent(high)) : q # high

-----------------------------------------------------------------------------
(* A live node is alive with its parent, unless it is a root.              *)
LEMMA LiveParent ==
  ASSUME NEW L, Tree(L), NEW p \in L, Len(p) >= 2
  PROVE  /\ Parent(p) \in L /\ Len(Parent(p)) = Len(p) - 1
         /\ p \in KidsIn(L, Parent(p))
<1>1. p \in Path /\ Len(p) \in Nat
  BY ParentPath DEF Tree, IsNodePath
<1>2. Parent(p) = Prefix(p, Len(p) - 1) /\ Len(Parent(p)) = Len(p) - 1
  BY <1>1, ParentPath
<1>3. Parent(p) \in L
  BY <1>1, <1>2 DEF Tree
<1> QED  BY <1>1, <1>2, <1>3 DEF KidsIn

(* Below a live node p, every other live node lies below a child of p.     *)
LEMMA KidTowards ==
  ASSUME NEW L, Tree(L), NEW p \in L, NEW q \in L, Above(p, q), p # q
  PROVE  \E c \in KidsIn(L, p) : Above(c, q)
<1>1. p \in Path /\ q \in Path
  BY DEF Tree, IsNodePath
<1>2. /\ Len(p) + 1 \in 1 .. Len(q)
      /\ Len(Prefix(q, Len(p) + 1)) = Len(p) + 1
      /\ Parent(Prefix(q, Len(p) + 1)) = p
      /\ Above(Prefix(q, Len(p) + 1), q)
  BY <1>1, AbovePrefix
<1>3. Prefix(q, Len(p) + 1) \in L
  BY <1>2 DEF Tree
<1> QED  BY <1>2, <1>3 DEF KidsIn

(* The parent of a node above q is above q.                                *)
LEMMA AboveParent ==
  ASSUME NEW p \in Path, NEW q \in Path, Len(p) >= 1, Above(p, q)
  PROVE  Above(Parent(p), q)
<1>1. Len(p) \in Nat /\ Len(q) \in Nat /\ Parent(p) \in Path
  BY ParentPath
<1>2. Parent(p) = Prefix(p, Len(p) - 1) /\ Len(Parent(p)) = Len(p) - 1
  BY ParentPath
<1>3. Len(p) \in 0 .. Len(q) /\ Prefix(q, Len(p)) = p
  BY <1>1 DEF Above, Prefix
<1>4. Len(p) - 1 \in 0 .. Len(p)
  BY <1>1
<1>5. Prefix(q, Len(p) - 1) = Parent(p)
  BY <1>2, <1>3, <1>4, PrefixPath
<1> QED  BY <1>1, <1>2, <1>3, <1>5 DEF Above, Prefix

(* A node is taken from the stack and turns out to be a leaf: propagate    *)
(* starts to climb from it.                                                *)
LEMMA TakeLeaf ==
  ASSUME NEW L, NEW O, Tree(L), Frontier(L, O, {}), NEW n \in O
  PROVE  Frontier(L, O \ {n}, {n}) /\ Closing(L, O \ {n}, n, n, NULL, TRUE)
<1>1. n \in L /\ n \in Path
  BY DEF Frontier, Tree, IsNodePath
<1>2. Above(n, n)
  BY <1>1, AbovePrefix
<1>3. Frontier(L, O \ {n}, {n})
  BY DEF Frontier
<1> QED  BY <1>1, <1>2, <1>3 DEF Closing

(* A node is taken and gets the children K, which are the new open nodes.  *)
LEMMA Expand ==
  ASSUME NEW L, NEW O, Tree(L), Frontier(L, O, {}), NEW n \in O,
         NEW K, K # {},
         \A q \in K : IsNodePath(q) /\ Len(q) = Len(n) + 1 /\ Parent(q) = n
  PROVE  /\ K \cap L = {}
         /\ Tree(L \cup K)
         /\ Frontier(L \cup K, (O \ {n}) \cup K, {})
<1>1. n \in L /\ n \in Path /\ Len(n) \in Nat /\ KidsIn(L, n) = {}
  BY ParentPath DEF Frontier, Tree, IsNodePath
<1>2. K \cap L = {}
  BY <1>1 DEF KidsIn
<1>3. Tree(L \cup K)
  <2> SUFFICES ASSUME NEW p \in K, NEW k \in 1 .. Len(p)
               PROVE  Prefix(p, k) \in L \cup K
    BY DEF Tree
  <2>1. p \in Path /\ Len(p) = Len(n) + 1 /\ n = Prefix(p, Len(n))
    <3>1. p \in Path /\ Len(p) = Len(n) + 1 /\ Parent(p) = n
      BY DEF IsNodePath
    <3> QED  BY <1>1, <3>1, ParentPath
  <2>2. CASE k = Len(p)
    <3>1. Prefix(p, Len(p)) = p
      <4>1. Len(p) \in 0 .. Len(p)
        BY <1>1, <2>1
      <4> QED  BY <2>1, <4>1, PrefixPath
    <3> QED  BY <2>2, <3>1
  <2>3. CASE k # Len(p)
    <3>1. k \in 0 .. Len(n) /\ k \in 1 .. Len(n) /\ Len(n) \in 0 .. Len(p)
      BY <1>1, <2>1, <2>3
    <3>2. Prefix(p, k) = Prefix(n, k)
      BY <2>1, <3>1, PrefixPath
    <3> QED  BY <1>1, <3>1, <3>2 DEF Tree
  <2> QED  BY <2>2, <2>3
<1>4. ASSUME NEW p \in L, p # n PROVE KidsIn(L \cup K, p) = KidsIn(L, p)
  BY <1>4 DEF KidsIn
<1>5. KidsIn(L \cup K, n) = K
  BY <1>1 DEF KidsIn
<1>6. ASSUME NEW p \in K PROVE KidsIn(L \cup K, p) = {}
  <2> SUFFICES ASSUME NEW q \in KidsIn(L \cup K, p) PROVE FALSE
    OBVIOUS
  <2>1. Len(p) = Len(n) + 1 /\ Len(q) = Len(p) + 1 /\ Parent(q) = p /\ q \in L \cup K
    BY DEF KidsIn
  <2>2. q \in L
    BY <1>1, <2>1
  <2>3. p \in L
    <3>1. q \in Path /\ Len(q) >= 2
      BY <1>1, <2>1, <2>2 DEF Tree, IsNodePath
    <3> QED  BY <2>1, <2>2, <3>1, LiveParent
  <2> QED  BY <1>2, <2>3
<1>7. Frontier(L \cup K, (O \ {n}) \cup K, {})
  <2>1. \A q \in (O \ {n}) \cup K : KidsIn(L \cup K, q) = {}
    BY <1>4, <1>6 DEF Frontier
  <2>2. ASSUME NEW p \in L \cup K, KidsIn(L \cup K, p) = {}
        PROVE  p = RootNode \/ p \in (O \ {n}) \cup K
    BY <1>4, <1>5, <2>2 DEF Frontier
  <2> QED  BY <2>1, <2>2 DEF Frontier
<1> QED  BY <1>2, <1>3, <1>7

(* One iteration of the loop of propagate at a node that has a parent: if  *)
(* prev has at most one child left it becomes the highest node to delete,  *)
(* and no open node lies below it.                                         *)
LEMMA CloseOne ==
  ASSUME NEW L, NEW O, NEW leaf, NEW prev, NEW high, NEW del \in BOOLEAN,
         Tree(L), Frontier(L, O, {leaf}), Closing(L, O, leaf, prev, high, del),
         Len(prev) >= 2,
         del, \A q, r \in KidsIn(L, prev) : q = r
  PROVE  Closing(L, O, leaf, Parent(prev), prev, TRUE)
<1>1. prev \in L /\ prev \in Path /\ leaf \in L /\ leaf \in Path /\ prev # NULL
  <2>1. prev \in L /\ prev \in Path /\ leaf \in L /\ leaf \in Path
    BY DEF Closing, Tree, IsNodePath
  <2>2. Len(NULL) = 0
    BY DEF NULL
  <2> QED  BY <2>1, <2>2
<1>2. Parent(prev) \in L /\ prev \in KidsIn(L, Parent(prev))
  BY <1>1, LiveParent
<1>3. Above(prev, leaf) /\ Above(Parent(prev), leaf)
  BY <1>1, AboveParent DEF Closing
<1>4. ASSUME NEW q \in O PROVE ~Above(prev, q)
  <2> SUFFICES ASSUME Above(prev, q) PROVE FALSE
    OBVIOUS
  <2>1. q \in L /\ q # leaf /\ KidsIn(L, q) = {} /\ KidsIn(L, leaf) = {}
    BY DEF Frontier
  <2>2. CASE high = NULL
    <3>1. prev = leaf
      BY <2>2 DEF Closing
    <3> QED  BY <1>1, <2>1, <3>1, KidTowards
  <2>3. CASE high # NULL
    <3>1. high \in KidsIn(L, prev) /\ ~Above(high, q)
      BY <2>3 DEF Closing
    <3>2. PICK c \in KidsIn(L, prev) : Above(c, q)
      BY <1>1, <2>1, <3>1, KidTowards
    <3> QED  BY <3>1, <3>2
  <2> QED  BY <2>2, <2>3
<1> QED  BY <1>1, <1>2, <1>3, <1>4 DEF Closing

(* The iteration at a node that keeps another child: nothing higher is     *)
(* deleted, whether the climb goes on or not.                              *)
LEMMA StopClosing ==
  ASSUME NEW L, NEW O, NEW leaf, NEW prev, NEW high, NEW del \in BOOLEAN,
         Tree(L), Frontier(L, O, {leaf}), Closing(L, O, leaf, prev, high, del),
         Len(prev) >= 2,
         ~(del /\ \A q, r \in KidsIn(L, prev) : q = r)
  PROVE  /\ high # NULL
         /\ Closing(L, O, leaf, prev, high, FALSE)
         /\ Closing(L, O, leaf, Parent(prev), high, FALSE)
<1>1. prev \in L /\ prev \in Path /\ leaf \in L /\ leaf \in Path
  BY DEF Closing, Tree, IsNodePath
<1>2. Parent(prev) \in L /\ Above(Parent(prev), leaf)
  BY <1>1, LiveParent, AboveParent DEF Closing
<1>3. high # NULL
  <2> SUFFICES ASSUME high = NULL PROVE FALSE
    OBVIOUS
  <2>1. prev = leaf /\ del
    BY DEF Closing
  <2>2. KidsIn(L, leaf) = {}
    BY DEF Frontier
  <2> QED  BY <2>1, <2>2
<1>4. \E q \in KidsIn(L, Parent(high)) : q # high
  <2>1. CASE del
    <3>1. high \in KidsIn(L, prev) /\ Parent(high) = prev
      BY <1>3, <2>1 DEF Closing, KidsIn
    <3>2. PICK q, r \in KidsIn(L, prev) : q # r
      BY <2>1
    <3> QED  BY <3>1, <3>2
  <2>2. CASE ~del
    BY <1>3, <2>2 DEF Closing
  <2> QED  BY <2>1, <2>2
<1> QED  BY <1>1, <1>2, <1>3, <1>4 DEF Closing

(* The highest closed node is erased with all that is below it: what is    *)
(* left is a tree, its leaves are the open nodes, and no open node is gone.*)
LEMMA Erase ==
  ASSUME NEW L, NEW O, NEW leaf, NEW prev, NEW high, NEW del \in BOOLEAN,
         Tree(L), Frontier(L, O, {leaf}), Closing(L, O, leaf, prev, high, del),
         del => prev = RootNode,
         NEW left, left = IF high = NULL THEN L ELSE {q \in L : ~Above(high, q)}
  PROVE  Tree(left) /\ Frontier(left, O, {})
<1>1. CASE high = NULL
  BY <1>1 DEF Closing, Frontier
<1>2. CASE high # NULL
  <2>0. left = {q \in L : ~Above(high, q)}
    BY <1>2
  <2> USE <2>0
  <2>1. high \in L /\ high \in Path /\ \A p \in L : p \in Path
    BY <1>2 DEF Closing, Tree, IsNodePath
  <2>2. Tree(left)
    <3>1. ASSUME NEW p \in left, NEW k \in 1 .. Len(p) PROVE Prefix(p, k) \in left
      <4>1. Prefix(p, k) \in L /\ p \in Path /\ k \in 0 .. Len(p)
        BY <2>1 DEF Tree
      <4>2. ~Above(high, Prefix(p, k))
        BY <2>1, <4>1, AbovePrefix
      <4> QED  BY <4>1, <4>2
    <3> QED  BY <3>1 DEF Tree
  <2>3. O \subseteq left
    BY <1>2 DEF Closing, Frontier
  <2>4. \A q \in O : KidsIn(left, q) = {}
    BY DEF Frontier, KidsIn
  <2>5. ASSUME NEW p \in left, KidsIn(left, p) = {} PROVE p = RootNode \/ p \in O
    <3>1. CASE KidsIn(L, p) = {}
      <4>1. p = RootNode \/ p \in O \/ p = leaf
        BY <3>1 DEF Frontier
      <4>2. p # leaf
        BY <1>2 DEF Closing
      <4> QED  BY <4>1, <4>2
    <3>2. CASE KidsIn(L, p) # {}
      <4>1. PICK c \in KidsIn(L, p) : Above(high, c)
        BY <2>5, <3>2 DEF KidsIn
      <4>2. c = high
        <5> SUFFICES ASSUME c # high PROVE FALSE
          OBVIOUS
        <5>1. Len(c) = Len(p) + 1 /\ Parent(c) = p /\ c \in L /\ c \in Path
              /\ p \in Path /\ Len(p) \in Nat /\ Len(c) \in Nat /\ Len(high) \in Nat
          BY <2>1, ParentPath DEF KidsIn
        <5>2. Len(high) + 1 \in 1 .. Len(c)
          BY <2>1, <4>1, <5>1, AbovePrefix
        <5>3. Prefix(c, Len(p)) = p /\ Len(p) \in 0 .. Len(c)
          BY <5>1, ParentPath
        <5>4. Len(high) \in 0 .. Len(p) /\ Prefix(c, Len(high)) = high
          BY <4>1, <5>1, <5>2 DEF Above, Prefix
        <5>5. Prefix(p, Len(high)) = high
          BY <5>1, <5>3, <5>4, PrefixPath
        <5>6. Above(high, p)
          BY <5>4, <5>5, <5>1 DEF Above, Prefix
        <5> QED  BY <5>6
      <4>3. p = Parent(high)
        BY <4>1, <4>2 DEF KidsIn
      <4>4. CASE del
        BY <1>2, <4>3, <4>4 DEF Closing, KidsIn
      <4>5. CASE ~del
        <5>1. PICK q \in KidsIn(L, p) : q # high
          BY <1>2, <4>3, <4>5 DEF Closing
        <5>2. Above(high, q)
          BY <2>5, <5>1 DEF KidsIn
        <5>3. q = high
          <6>1. Len(q) = Len(high) /\ q \in Path /\ Len(q) \in Nat
            BY <2>1, <4>1, <4>2, <5>1, ParentPath DEF KidsIn
          <6>2. Prefix(q, Len(q)) = high
            BY <5>2, <6>1 DEF Above, Prefix
          <6> QED  BY <6>1, <6>2, PrefixPath
        <5> QED  BY <5>1, <5>3
      <4> QED  BY <4>4, <4>5
    <3> QED  BY <3>1, <3>2
  <2>6. Frontier(left, O, {})
    BY <2>3, <2>4, <2>5 DEF Frontier
  <2> QED  BY <1>2, <2>2, <2>6
<1> QED  BY <1>1, <1>2
-----------------------------------------------------------------------------
(* The variables on the path of a search node: they come in the order of   *)
(* the pseudo tree, each once, and the context of a variable lies on the   *)
(* path that leads to it.  So an assignment that is written node by node   *)
(* agrees with the paths of all nodes still open.                          *)

(* The assignment holds the values along p. *)
Agrees(asg, p) ==
  \A k \in 1 .. Len(p) - 1 : k % 2 = 1 => asg[p[k]] = p[k + 1]

(* The paths p and q part at a variable. *)
Parts(p, q) ==
  \E k \in 1 .. Len(p) : /\ k \in 1 .. Len(q) /\ k % 2 = 1 /\ p[k] # q[k]
                         /\ \A i \in 1 .. k - 1 : p[i] = q[i]

(* The parent of a node on a stack lies above what is pushed later. *)
Nested(s) == \A i, j \in DOMAIN s : i < j => Above(Parent(s[i]), Parent(s[j]))

-----------------------------------------------------------------------------
(* The parent of a node has the elements of its path but the last.         *)
LEMMA ParentElements ==
  ASSUME NEW n \in Path, Len(n) >= 1
  PROVE  /\ Len(Parent(n)) = Len(n) - 1
         /\ \A i \in 1 .. Len(n) - 1 : Parent(n)[i] = n[i]
<1>1. Len(n) - 1 \in 0 .. Len(n)
  BY ParentPath
<1>2. Parent(n) = Prefix(n, Len(n) - 1)
  BY ParentPath
<1>3. \A i \in 1 .. Len(n) - 1 : Prefix(n, Len(n) - 1)[i] = n[i]
  BY <1>1, PrefixPath
<1> QED  BY <1>2, <1>3, ParentPath

(* A path above another has its elements.                                  *)
LEMMA AboveElements ==
  ASSUME NEW p \in Path, NEW q \in Path, Above(p, q)
  PROVE  /\ Len(p) \in Nat /\ Len(q) \in Nat /\ Len(p) <= Len(q)
         /\ \A i \in 1 .. Len(p) : q[i] = p[i]
         /\ Len(p) = Len(q) => p = q
<1>1. Len(p) \in Nat /\ Len(q) \in Nat /\ Len(p) <= Len(q) /\ Prefix(q, Len(p)) = p
  BY ParentPath DEF Above, Prefix
<1>2. Len(p) \in 0 .. Len(q)
  BY <1>1
<1>3. \A i \in 1 .. Len(p) : q[i] = p[i]
  BY <1>1, <1>2, PrefixPath
<1> QED  BY <1>1, <1>2, <1>3, PrefixPath

(* What is above a path that is above another is above the other.          *)
LEMMA AboveTransitive ==
  ASSUME NEW p \in Path, NEW q \in Path, NEW r \in Path, Above(p, q), Above(q, r)
  PROVE  Above(p, r)
<1>1. Len(q) \in 0 .. Len(r) /\ Prefix(r, Len(q)) = q
  BY ParentPath DEF Above, Prefix
<1> QED  BY <1>1, AbovePrefix

(* A node lies below its parent, and below what lies above its parent.     *)
LEMMA BelowParent ==
  ASSUME NEW p \in Path, NEW n \in Path, Len(n) >= 1, Above(p, Parent(n))
  PROVE  Above(p, n)
<1>1. Len(n) - 1 \in 0 .. Len(n) /\ Parent(n) = Prefix(n, Len(n) - 1)
  BY ParentPath
<1> QED  BY <1>1, AbovePrefix

(* A node that lies strictly above another one lies above its parent.      *)
LEMMA AboveOfParent ==
  ASSUME NEW p \in Path, NEW q \in Path, Above(p, q), p # q
  PROVE  Len(q) >= 1 /\ Above(p, Parent(q))
<1>1. Len(p) \in Nat /\ Len(q) \in Nat /\ Len(p) < Len(q)
  BY AboveElements
<1>2. Parent(q) = Prefix(q, Len(q) - 1) /\ Len(Parent(q)) = Len(q) - 1
  BY <1>1, ParentPath
<1>3. Len(q) - 1 \in 0 .. Len(q) /\ Len(p) \in 0 .. Len(q) - 1
  BY <1>1
<1>4. Prefix(Parent(q), Len(p)) = Prefix(q, Len(p))
  BY <1>2, <1>3, PrefixPath
<1> QED  BY <1>1, <1>2, <1>3, <1>4 DEF Above, Prefix

(* Of two nodes on the path to a third one, the one that is not below the  *)
(* other lies above the other's parent.                                    *)
LEMMA AboveOnPath ==
  ASSUME NEW p \in Path, NEW q \in Path, NEW x \in Path,
         Above(p, x), Above(q, x), ~Above(q, p)
  PROVE  Above(p, Parent(q))
<1>1. /\ Len(p) \in Nat /\ Len(q) \in Nat /\ Len(x) \in Nat
      /\ Len(p) <= Len(x) /\ Len(q) <= Len(x)
      /\ Prefix(x, Len(p)) = p /\ Prefix(x, Len(q)) = q
  BY ParentPath DEF Above, Prefix
<1>2. CASE Len(q) <= Len(p)
  <2>1. Len(p) \in 0 .. Len(x) /\ Len(q) \in 0 .. Len(p)
    BY <1>1, <1>2
  <2>2. Prefix(p, Len(q)) = q
    BY <1>1, <2>1, PrefixPath
  <2> QED  BY <1>2, <2>2 DEF Above, Prefix
<1>3. CASE Len(p) < Len(q)
  <2>1. Len(q) \in 0 .. Len(x) /\ Len(p) \in 0 .. Len(q)
    BY <1>1, <1>3
  <2>2. Prefix(q, Len(p)) = p
    BY <1>1, <2>1, PrefixPath
  <2>3. Above(p, q) /\ p # q
    BY <1>1, <1>3, <2>2 DEF Above, Prefix
  <2> QED  BY <2>3, AboveOfParent
<1> QED  BY <1>1, <1>2, <1>3

(* Paths that part stay apart further down, and none is above the other.   *)
LEMMA PartsBelow ==
  ASSUME NEW p \in Path, NEW q \in Path, NEW x \in Path, NEW y \in Path,
         Above(p, x), Above(q, y), Parts(p, q)
  PROVE  Parts(x, y) /\ Parts(y, x) /\ ~Above(x, y) /\ ~Above(y, x)
<1>1. PICK k \in 1 .. Len(p) : /\ k \in 1 .. Len(q) /\ k % 2 = 1 /\ p[k] # q[k]
                              /\ \A i \in 1 .. k - 1 : p[i] = q[i]
  BY DEF Parts
<1>2. /\ Len(p) \in Nat /\ Len(x) \in Nat /\ Len(p) <= Len(x)
      /\ Len(q) \in Nat /\ Len(y) \in Nat /\ Len(q) <= Len(y)
      /\ \A i \in 1 .. Len(p) : x[i] = p[i]
      /\ \A i \in 1 .. Len(q) : y[i] = q[i]
  BY <1>1, AboveElements
<1>3. /\ k \in 1 .. Len(x) /\ k \in 1 .. Len(y) /\ x[k] # y[k]
      /\ \A i \in 1 .. k - 1 : x[i] = y[i]
  <2>1. x[k] = p[k] /\ y[k] = q[k] /\ k \in 1 .. Len(x) /\ k \in 1 .. Len(y)
    BY <1>1, <1>2
  <2>2. ASSUME NEW i \in 1 .. k - 1 PROVE x[i] = y[i]
    <3>1. i \in 1 .. Len(p) /\ i \in 1 .. Len(q)
      BY <1>1, <1>2
    <3> QED  BY <1>1, <1>2, <3>1
  <2> QED  BY <1>1, <2>1, <2>2
<1>4. ~Above(x, y) /\ ~Above(y, x)
  BY <1>3, AboveElements
<1> QED  BY <1>1, <1>3, <1>4 DEF Parts

(* Two OR children of one AND node part at their last element.             *)
LEMMA SiblingsPart ==
  ASSUME NEW p \in Path, NEW q \in Path, p # q,
         Len(p) >= 1, Len(p) = Len(q), Parent(p) = Parent(q), Len(p) % 2 = 1
  PROVE  Parts(p, q)
<1>1. /\ Len(p) \in Nat
      /\ \A i \in 1 .. Len(p) - 1 : p[i] = q[i]
  BY ParentPath, ParentElements
<1>2. p[Len(p)] # q[Len(p)]
  <2> SUFFICES ASSUME p[Len(p)] = q[Len(p)] PROVE FALSE
    OBVIOUS
  <2>1. \A i \in 1 .. Len(p) : i \in 1 .. Len(p) - 1 \/ i = Len(p)
    BY <1>1
  <2>2. \A i \in 1 .. Len(p) : p[i] = q[i]
    BY <1>1, <2>1
  <2> QED  BY <2>2, SeqEqual DEF Path
<1> QED  BY <1>1, <1>2 DEF Parts

(* The top of a stack is replaced by its children: the parents on the      *)
(* stack stay above what is pushed later.                                  *)
LEMMA NestedReplace ==
  ASSUME NEW s \in Seq(Path), s # << >>, Nested(s), NEW t \in Seq(Path),
         Len(s[Len(s)]) >= 1,
         \A e \in Elements(t) : Parent(e) = s[Len(s)]
  PROVE  /\ Nested(SubSeq(s, 1, Len(s) - 1) \o t)
         /\ \A i \in DOMAIN s : i # Len(s) => Above(Parent(s[i]), s[Len(s)])
<1> DEFINE m == Len(s) - 1
           n == s[Len(s)]
           u == SubSeq(s, 1, m) \o t
<1>1. /\ m \in Nat /\ DOMAIN s = 1 .. m + 1
      /\ u \in Seq(Path) /\ Len(t) \in Nat /\ DOMAIN u = 1 .. m + Len(t)
      /\ \A i \in 1 .. m : i \in DOMAIN u /\ u[i] = s[i]
      /\ \A i \in DOMAIN u : i \notin 1 .. m => u[i] \in Elements(t) /\ i > m
  BY ReplaceTop
<1>2. Len(s) = m + 1 /\ n = s[m + 1] /\ m + 1 \in DOMAIN s
  BY <1>1
<1>3. n \in Path /\ Len(n) >= 1
  BY <1>2, InQueue DEF Elements
<1>4. \A e \in Elements(t) : Parent(e) = n
  OBVIOUS
<1> HIDE DEF m, n, u
<1>5. ASSUME NEW i \in 1 .. m PROVE Above(Parent(s[i]), n)
  <2>1. i \in DOMAIN s /\ i < m + 1
    BY <1>1
  <2>2. s[i] \in Path
    BY <2>1, InQueue DEF Elements
  <2>3. Above(Parent(s[i]), Parent(n)) /\ Parent(s[i]) \in Path
    BY <1>2, <2>1, <2>2, ParentPath DEF Nested
  <2> QED  BY <1>3, <2>3, BelowParent
<1>6. ASSUME NEW i \in DOMAIN u, NEW j \in DOMAIN u, i < j
      PROVE  Above(Parent(u[i]), Parent(u[j]))
  <2>1. CASE j \in 1 .. m
    <3>1. i \in 1 .. m
      BY <1>1, <1>6, <2>1
    <3> QED  BY <1>1, <1>6, <2>1, <3>1 DEF Nested
  <2>2. CASE j \notin 1 .. m /\ i \in 1 .. m
    BY <1>1, <1>4, <1>5, <2>2
  <2>3. CASE j \notin 1 .. m /\ i \notin 1 .. m
    BY <1>1, <1>3, <1>4, <2>3, AbovePrefix
  <2> QED  BY <2>1, <2>2, <2>3
<1>7. \A i \in DOMAIN s : i # Len(s) => i \in 1 .. m
  BY <1>1, <1>2
<1> QED  BY <1>5, <1>6, <1>7 DEF Nested, m, n, u

(* The variables of a path are variables, and each but the first, which is *)
(* the root, is a child of the one before it and of no other.              *)
LEMMA VariableOnPath ==
  ASSUME NEW p, IsNodePath(p), NEW k \in 1 .. Len(p), k % 2 = 1
  PROVE  /\ p[k] \in Vars
         /\ p[k] = Root <=> k = 1
         /\ k # 1 => /\ k - 2 \in 1 .. Len(p) /\ (k - 2) % 2 = 1
                     /\ p[k] \in ChildSet(p[k - 2])
<1>1. Len(p) \in Nat /\ p[1] = Root
  BY ParentPath DEF IsNodePath
<1>2. p[k] \in Vars
  BY DEF IsNodePath
<1>3. ASSUME k # 1
      PROVE  /\ k - 2 \in 1 .. Len(p) /\ (k - 2) % 2 = 1
             /\ p[k] \in ChildSet(p[k - 2]) /\ p[k] # Root
  <2>1. /\ k - 2 \in 1 .. Len(p) - 2 /\ k - 2 \in 1 .. Len(p)
        /\ (k - 2) % 2 = 1 /\ (k - 2) + 2 = k
    BY <1>1, <1>3
  <2>2. p[k] \in ChildSet(p[k - 2]) /\ p[k - 2] \in Vars
    BY <2>1 DEF IsNodePath
  <2> QED  BY <2>1, <2>2, PseudotreeAssumption
<1> QED  BY <1>1, <1>2, <1>3

(* Two paths that share a variable have it in the same place, and the same *)
(* variables above it.                                                     *)
LEMMA SameVariables ==
  ASSUME NEW p, IsNodePath(p), NEW q, IsNodePath(q),
         NEW k \in 1 .. Len(p), k % 2 = 1, NEW l \in 1 .. Len(q), l % 2 = 1,
         p[k] = q[l]
  PROVE  k = l /\ \A m \in 1 .. k : m % 2 = 1 => p[m] = q[m]
<1> DEFINE Same(i, j) == i = j /\ \A m \in 1 .. i : m % 2 = 1 => p[m] = q[m]
           T == {i \in 1 .. Len(p) : /\ i % 2 = 1
                                     /\ \E j \in 1 .. Len(q) : j % 2 = 1 /\ p[i] = q[j] /\ ~Same(i, j)}
<1>0. Len(p) \in Nat /\ Len(q) \in Nat
  BY ParentPath DEF IsNodePath
<1> HIDE DEF Same
<1>1. SUFFICES ASSUME ~Same(k, l) PROVE FALSE
  BY <1>1 DEF Same
<1>2. PICK i \in T : \A x \in T : i <= x
  <2>1. k \in T /\ T \subseteq Nat
    BY <1>0, <1>1
  <2> HIDE DEF T
  <2> QED  BY <2>1, LeastNat
<1>3. PICK j \in 1 .. Len(q) : j % 2 = 1 /\ p[i] = q[j] /\ ~Same(i, j)
  BY <1>2
<1>4. i \in 1 .. Len(p) /\ i % 2 = 1
  BY <1>2
<1>5. /\ p[i] = Root <=> i = 1
      /\ q[j] = Root <=> j = 1
  BY <1>3, <1>4, VariableOnPath
<1>6. CASE i = 1
  BY <1>3, <1>5, <1>6 DEF Same
<1>7. CASE i # 1
  <2>1. /\ i - 2 \in 1 .. Len(p) /\ (i - 2) % 2 = 1 /\ p[i] \in ChildSet(p[i - 2])
        /\ j - 2 \in 1 .. Len(q) /\ (j - 2) % 2 = 1 /\ q[j] \in ChildSet(q[j - 2])
        /\ p[i - 2] \in Vars /\ q[j - 2] \in Vars /\ p[i] \in Vars
    <3>1. j # 1
      BY <1>3, <1>5, <1>7
    <3>2. /\ i - 2 \in 1 .. Len(p) /\ (i - 2) % 2 = 1 /\ p[i] \in ChildSet(p[i - 2])
          /\ j - 2 \in 1 .. Len(q) /\ (j - 2) % 2 = 1 /\ q[j] \in ChildSet(q[j - 2])
          /\ p[i] \in Vars
      BY <1>3, <1>4, <1>7, <3>1, VariableOnPath
    <3> QED  BY <3>2, VariableOnPath
  <2>2. p[i - 2] = q[j - 2]
    BY <1>3, <2>1, PseudotreeAssumption
  <2>3. i - 2 \notin T
    BY <1>2, <1>4
  <2>4. Same(i - 2, j - 2)
    BY <2>1, <2>2, <2>3
  <2>5. i = j
    BY <1>3, <1>4, <2>1, <2>4 DEF Same
  <2>6. ASSUME NEW m \in 1 .. i, m % 2 = 1 PROVE p[m] = q[m]
    <3>1. m \in 1 .. i - 2 \/ m = i
      BY <1>4, <2>6
    <3> QED  BY <1>3, <2>4, <2>5, <2>6, <3>1 DEF Same
  <2> QED  BY <1>3, <2>5, <2>6 DEF Same
<1> QED  BY <1>6, <1>7

(* The context of a variable on a path lies above it on that path.         *)
LEMMA ContextAbove ==
  ASSUME NEW p, IsNodePath(p), NEW k \in 1 .. Len(p), k % 2 = 1, NEW y \in Ctx[p[k]]
  PROVE  \E j \in 1 .. k - 1 : j % 2 = 1 /\ p[j] = y
<1> DEFINE T == {i \in 1 .. Len(p) : /\ i % 2 = 1 /\ y \in Ctx[p[i]]
                                     /\ ~\E j \in 1 .. i - 1 : j % 2 = 1 /\ p[j] = y}
<1>0. Len(p) \in Nat
  BY ParentPath DEF IsNodePath
<1>1. SUFFICES ASSUME ~\E j \in 1 .. k - 1 : j % 2 = 1 /\ p[j] = y PROVE FALSE
  OBVIOUS
<1>2. PICK i \in T : \A x \in T : i <= x
  <2>1. k \in T /\ T \subseteq Nat
    BY <1>0, <1>1
  <2> HIDE DEF T
  <2> QED  BY <2>1, LeastNat
<1>3. i \in 1 .. Len(p) /\ i % 2 = 1 /\ y \in Ctx[p[i]]
  BY <1>2
<1>4. i # 1
  BY <1>3, VariableOnPath, PseudotreeAssumption
<1>5. /\ i - 2 \in 1 .. Len(p) /\ (i - 2) % 2 = 1 /\ p[i] \in ChildSet(p[i - 2])
      /\ p[i] \in Vars
  BY <1>3, <1>4, VariableOnPath
<1>6. p[i - 2] \in Vars
  BY <1>5, VariableOnPath
<1>7. y \in Ctx[p[i - 2]] \/ y = p[i - 2]
  BY <1>3, <1>5, <1>6, PseudotreeAssumption
<1>8. i - 2 \notin T
  BY <1>2, <1>3
<1>9. \E j \in 1 .. i - 1 : j % 2 = 1 /\ p[j] = y
  <2>1. CASE y = p[i - 2]
    <3>1. i - 2 \in 1 .. i - 1
      BY <1>3, <1>5
    <3> QED  BY <1>5, <2>1, <3>1
  <2>2. CASE y \in Ctx[p[i - 2]]
    <3>1. PICK j \in 1 .. i - 2 - 1 : j % 2 = 1 /\ p[j] = y
      BY <1>5, <1>8, <2>2
    <3>2. j \in 1 .. i - 1
      BY <1>3
    <3> QED  BY <3>1, <3>2
  <2> QED  BY <1>7, <2>1, <2>2
<1> QED  BY <1>2, <1>9

-----------------------------------------------------------------------------
(* PathValue finds the value that follows a variable on a path.            *)
LEMMA PathValueOf ==
  ASSUME NEW p, IsNodePath(p), NEW k \in 1 .. Len(p) - 1, k % 2 = 1
  PROVE  PathValue(p, p[k]) = p[k + 1]
<1> DEFINE Here(j) == j % 2 = 1 /\ p[j] = p[k]
           i == CHOOSE j \in 1 .. Len(p) - 1 : Here(j)
<1>0. Len(p) \in Nat
  BY ParentPath DEF IsNodePath
<1>1. i \in 1 .. Len(p) - 1 /\ Here(i)
  <2>1. \E j \in 1 .. Len(p) - 1 : Here(j)
    OBVIOUS
  <2> HIDE DEF Here
  <2> QED  BY <2>1
<1> HIDE DEF i
<1>2. i \in 1 .. Len(p) /\ k \in 1 .. Len(p)
  BY <1>0, <1>1
<1>3. i = k
  BY <1>1, <1>2, SameVariables
<1> QED  BY <1>3 DEF PathValue, i

(* What agrees with a path agrees with the paths above it.                 *)
LEMMA AgreesAbove ==
  ASSUME NEW p \in Path, NEW q \in Path, Above(p, q), NEW asg, Agrees(asg, q)
  PROVE  Agrees(asg, p)
<1>1. Len(p) \in Nat /\ Len(q) \in Nat /\ Len(p) <= Len(q) /\ Prefix(q, Len(p)) = p
  BY ParentPath DEF Above, Prefix
<1>2. \A i \in 1 .. Len(p) : p[i] = q[i]
  BY <1>1, PrefixPath
<1>3. ASSUME NEW k \in 1 .. Len(p) - 1 PROVE k \in 1 .. Len(q) - 1 /\ p[k] = q[k] /\ p[k + 1] = q[k + 1]
  BY <1>1, <1>2
<1> QED  BY <1>3 DEF Agrees

(* The node that is taken writes its value: the assignment then agrees     *)
(* with its path if it has agreed with that of its parent.                 *)
LEMMA AgreesNow ==
  ASSUME NEW n, IsNodePath(n), assignment \in [Vars -> Int],
         Agrees(assignment, Parent(n))
  PROVE  Agrees(AssignmentAt(n), n)
<1> DEFINE L == Len(n)
           a == AssignmentAt(n)
<1>1. n \in Path /\ L \in Nat /\ L >= 1
  BY ParentPath DEF IsNodePath
<1>2. Len(Parent(n)) = L - 1 /\ \A i \in 1 .. L - 1 : Parent(n)[i] = n[i]
  BY <1>1, ParentElements
<1>3. ASSUME NEW k \in 1 .. L - 2, k % 2 = 1 PROVE assignment[n[k]] = n[k + 1]
  <2>1. k \in 1 .. Len(Parent(n)) - 1 /\ k \in 1 .. L - 1 /\ k + 1 \in 1 .. L - 1
    BY <1>1, <1>2
  <2> QED  BY <1>2, <1>3, <2>1 DEF Agrees
<1>4. SUFFICES ASSUME NEW k \in 1 .. L - 1, k % 2 = 1 PROVE a[n[k]] = n[k + 1]
  BY DEF Agrees
<1>5. CASE IsAND(n)
  <2>1. L % 2 = 0 /\ L - 1 \in 1 .. L /\ (L - 1) % 2 = 1 /\ ~IsOR(n)
    BY <1>1, <1>5 DEF IsAND, IsOR
  <2>2. a = [assignment EXCEPT ![n[L - 1]] = n[L]]
    BY <1>5, <2>1 DEF AssignmentAt, Var, Val
  <2>3. n[k] \in Vars /\ n[L - 1] \in Vars /\ k \in 1 .. L
    BY <1>1, <1>4, <2>1, VariableOnPath
  <2>4. CASE k = L - 1
    <3>1. k + 1 = L
      BY <1>1, <2>4
    <3>2. a[n[k]] = n[L]
      BY <2>2, <2>3, <2>4
    <3> QED  BY <3>1, <3>2
  <2>5. CASE k # L - 1
    <3>1. k \in 1 .. L - 2
      BY <1>1, <2>5
    <3>2. n[k] # n[L - 1]
      BY <1>4, <2>1, <2>3, <2>5, SameVariables
    <3>3. a[n[k]] = assignment[n[k]]
      BY <2>2, <2>3, <3>2
    <3> QED  BY <1>3, <1>4, <3>1, <3>3
  <2> QED  BY <2>4, <2>5
<1>6. CASE ~IsAND(n)
  <2>1. L % 2 = 1
    BY <1>1, <1>6 DEF IsAND
  <2>2. k \in 1 .. L - 2
    BY <1>1, <1>4, <2>1
  <2>3. a = assignment
    BY <1>6 DEF AssignmentAt
  <2> QED  BY <1>3, <1>4, <2>2, <2>3
<1> QED  BY <1>5, <1>6

(* Of a path that parts from n at a variable, nothing is overwritten.      *)
LEMMA AgreesElsewhere ==
  ASSUME NEW n, IsNodePath(n), NEW q, IsNodePath(q), Parts(n, q),
         assignment \in [Vars -> Int], Agrees(assignment, Parent(q))
  PROVE  Agrees(AssignmentAt(n), Parent(q))
<1> DEFINE L == Len(n)
           r == Parent(q)
<1>1. PICK k \in 1 .. L : k \in 1 .. Len(q) /\ k % 2 = 1 /\ n[k] # q[k]
  BY DEF Parts
<1>2. /\ L \in Nat /\ L >= 1 /\ Len(q) \in Nat /\ Len(r) = Len(q) - 1
      /\ \A i \in 1 .. Len(q) - 1 : r[i] = q[i]
  BY ParentPath, ParentElements DEF IsNodePath
<1> HIDE DEF r
<1>3. CASE IsAND(n)
  <2>1. L \in Nat /\ L >= 1 /\ L % 2 = 0
    BY <1>2, <1>3 DEF IsAND
  <2>2. L % 2 = 0 /\ L - 1 \in 1 .. L /\ (L - 1) % 2 = 1 /\ ~IsOR(n)
    BY <2>1 DEF IsOR
  <2>3. AssignmentAt(n) = [assignment EXCEPT ![n[L - 1]] = n[L]]
    BY <1>3, <2>2 DEF AssignmentAt, Var, Val
  <2>4. k \in 1 .. L - 1
    <3>1. k % 2 = 1 /\ k \in 1 .. L /\ k # L
      BY <1>1, <2>1
    <3> QED  BY <2>1, <3>1
  <2>5. ASSUME NEW l \in 1 .. Len(r) - 1, l % 2 = 1 PROVE AssignmentAt(n)[r[l]] = assignment[r[l]]
    <3>1. l \in 1 .. Len(q) /\ r[l] = q[l]
      BY <1>2
    <3>2. q[l] # n[L - 1]
      <4> SUFFICES ASSUME n[L - 1] = q[l] PROVE FALSE
        OBVIOUS
      <4>1. \A m \in 1 .. L - 1 : m % 2 = 1 => n[m] = q[m]
        <5>1. PICK a \in 1 .. Len(n) : a = L - 1 /\ a % 2 = 1 /\ n[a] = q[l]
          BY <2>2
        <5> HIDE DEF L
        <5>2. a = l /\ \A m \in 1 .. a : m % 2 = 1 => n[m] = q[m]
          BY <2>5, <3>1, <5>1, SameVariables
        <5> QED  BY <5>1, <5>2
      <4> QED  BY <1>1, <2>4, <4>1
    <3>3. q[l] \in Vars
      BY <2>5, <3>1, VariableOnPath
    <3> QED  BY <2>3, <3>1, <3>2, <3>3
  <2> QED  BY <2>5 DEF Agrees, r
<1>4. CASE ~IsAND(n)
  BY <1>4 DEF AssignmentAt
<1> QED  BY <1>3, <1>4

(* The place of the variable of a node on its path.                        *)
LEMMA OrLevelOf ==
  ASSUME NEW n, IsNodePath(n)
  PROVE  OrLevel(n) \in 1 .. Len(n) /\ OrLevel(n) % 2 = 1 /\ Var(n) = n[OrLevel(n)]
<1> DEFINE l == Len(n)
<1>1. l \in Nat /\ l >= 1
  BY ParentPath DEF IsNodePath
<1>2. CASE IsOR(n)
  BY <1>1, <1>2 DEF IsOR, OrLevel, Var
<1>3. CASE ~IsOR(n)
  <2>1. l % 2 # 1
    BY <1>3 DEF IsOR
  <2>2. l - 1 \in 1 .. l /\ (l - 1) % 2 = 1
    <3> HIDE DEF l
    <3> QED  BY <1>1, <2>1
  <2> QED  BY <1>3, <2>2 DEF OrLevel, Var
<1> QED  BY <1>2, <1>3

(* The variables above a node, whose values its path holds.                *)
LEMMA ReadsPath ==
  ASSUME NEW n, IsNodePath(n), Agrees(assignment, Parent(n)),
         NEW k \in 1 .. OrLevel(n) - 1, k % 2 = 1
  PROVE  assignment[n[k]] = PathValue(n, n[k])
<1> DEFINE L == Len(n)
<1>1. n \in Path /\ L \in Nat /\ L >= 1
  BY ParentPath DEF IsNodePath
<1>2. Len(Parent(n)) = L - 1 /\ \A i \in 1 .. L - 1 : Parent(n)[i] = n[i]
  BY <1>1, ParentElements
<1>3. k \in 1 .. L - 2
  <2>1. CASE IsOR(n)
    BY <1>1, <2>1 DEF OrLevel, IsOR
  <2>2. CASE ~IsOR(n)
    BY <1>1, <2>2 DEF OrLevel, IsOR
  <2> QED  BY <2>1, <2>2
<1>4. k \in 1 .. Len(Parent(n)) - 1 /\ k \in 1 .. L - 1 /\ k + 1 \in 1 .. L - 1
  BY <1>1, <1>2, <1>3
<1>5. assignment[n[k]] = n[k + 1]
  BY <1>2, <1>4 DEF Agrees
<1> QED  BY <1>4, <1>5, PathValueOf

-----------------------------------------------------------------------------
Climbing == phase \in {"climb", "finish"}

(* The pointers of propagate while it climbs; the frontier at all times.   *)
Pointers(O) ==
  IF Climbing
  THEN /\ Frontier(Live, O, {reg.leaf})
       /\ Closing(Live, O, reg.leaf, reg.prev, reg.high, reg.del)
       /\ phase = "finish" => ~reg.del
  ELSE Frontier(Live, O, {})

SearchInv(O) == SearchTypeOK /\ Tree(Live) /\ Pointers(O)

-----------------------------------------------------------------------------
(* The children of a variable in the pseudo tree are finitely many         *)
(* variables, and so are the OR children of an AND node.                   *)
LEMMA FiniteOrChildren ==
  ASSUME NEW n, Var(n) \in Vars
  PROVE  ChildSet(Var(n)) \subseteq Vars /\ IsFiniteSet(OrChildren(n))
<1> DEFINE c == PtChildren[Var(n)]
           f == [i \in 1 .. Len(c) |-> Append(n, c[i])]
<1>1. c \in Seq(Vars) /\ Len(c) \in Nat /\ DOMAIN c = 1 .. Len(c)
  BY ModelAssumption, LenProperties
<1>2. \A i \in 1 .. Len(c) : c[i] \in Vars
  BY <1>1, ElementOfSeq
<1>3. ChildSet(Var(n)) = {c[i] : i \in 1 .. Len(c)}
  BY <1>1 DEF ChildSet
<1>4. OrChildren(n) = {Append(n, c[i]) : i \in 1 .. Len(c)}
  BY <1>3 DEF OrChildren
<1>5. f \in Surjection(1 .. Len(c), OrChildren(n))
  BY <1>4 DEF Surjection
<1>6. IsFiniteSet(1 .. Len(c))
  BY <1>1, FS_Interval
<1>7. IsFiniteSet(OrChildren(n))
  BY <1>5, <1>6, FS_Surjection
<1> QED  BY <1>2, <1>3, <1>7

(* The values of a variable, and so the AND children of an OR node, are    *)
(* finitely many integers.                                                 *)
LEMMA FiniteAndChildren ==
  ASSUME NEW n, Var(n) \in Vars
  PROVE  Values(Var(n)) \subseteq Int /\ IsFiniteSet(AndChildren(n))
<1> DEFINE V == Values(Var(n))
           T == {Append(n, v) : v \in V}
           f == [v \in V |-> Append(n, v)]
<1>1. Dom[Var(n)] - 1 \in Int
  BY ModelAssumption
<1>2. IsFiniteSet(V) /\ V \subseteq Int
  BY <1>1, FS_Interval DEF Values
<1> HIDE DEF V
<1>3. f \in Surjection(V, T)
  BY DEF Surjection
<1>4. IsFiniteSet(T)
  BY <1>2, <1>3, FS_Surjection
<1>5. AndChildren(n) \in SUBSET T
  BY DEF AndChildren, V
<1>6. IsFiniteSet(AndChildren(n))
  BY <1>4, <1>5, FS_Subset
<1> QED  BY <1>2, <1>6 DEF V

(* The orders in which the children of a node may be pushed.               *)
LEMMA ChildOrder ==
  ASSUME NEW S, NEW K \in SUBSET S, IsFiniteSet(K), NEW s \in Seqs!SetToSeqs(K)
  PROVE  /\ s \in Seq(S) /\ NoRepeat(s) /\ Elements(s) = K
         /\ Len(s) = Cardinality(K)
         /\ s = << >> <=> K = {}
<1>1. Seqs!Cardinality(K) = Cardinality(K)
  BY DEF Seqs!Cardinality, Cardinality
<1>2. /\ s \in [1 .. Cardinality(K) -> K]
      /\ \A i, j \in 1 .. Cardinality(K) : i # j => s[i] # s[j]
  BY <1>1 DEF Seqs!SetToSeqs
<1> QED  BY <1>2, OrderOfSet

(* The variable of a node is a variable, and the last element of an AND    *)
(* node is a value.                                                        *)
LEMMA NodeVariable ==
  ASSUME NEW n, IsNodePath(n)
  PROVE  /\ n \in Path /\ Len(n) \in Nat /\ Var(n) \in Vars
         /\ IsAND(n) => Val(n) \in Int
         /\ IsAND(n) <=> ~IsOR(n)
<1>1. n \in Path /\ Len(n) \in Nat /\ Len(n) >= 1
  BY ParentPath DEF IsNodePath
<1>2. IsAND(n) <=> ~IsOR(n)
  BY <1>1 DEF IsAND, IsOR
<1>3. CASE IsOR(n)
  <2>1. Len(n) \in 1 .. Len(n) /\ Len(n) % 2 = 1
    BY <1>1, <1>3 DEF IsOR
  <2>2. n[Len(n)] \in Vars
    BY <2>1 DEF IsNodePath
  <2> QED  BY <1>1, <1>2, <1>3, <2>2 DEF Var
<1>4. CASE ~IsOR(n)
  <2>1. Len(n) % 2 # 1
    BY <1>4 DEF IsOR
  <2>2. Len(n) \in 1 .. Len(n) /\ Len(n) - 1 \in 1 .. Len(n) /\ (Len(n) - 1) % 2 = 1
    BY <1>1, <2>1
  <2>3. n[Len(n)] \in Int /\ n[Len(n) - 1] \in Vars
    BY <2>1, <2>2 DEF IsNodePath
  <2> QED  BY <1>1, <1>2, <1>4, <2>3 DEF Var, Val
<1> QED  BY <1>3, <1>4

(* A child of a node, made by appending a child of its variable to an AND  *)
(* node or a value to an OR node, is a node again.                         *)
LEMMA ChildPath ==
  ASSUME NEW n, IsNodePath(n),
         NEW e, IF IsAND(n) THEN e \in ChildSet(Var(n)) ELSE e \in Int
  PROVE  /\ IsNodePath(Append(n, e))
         /\ Len(Append(n, e)) = Len(n) + 1 /\ Parent(Append(n, e)) = n
         /\ Append(n, e)[Len(n) + 1] = e
         /\ \A i \in 1 .. Len(n) : Append(n, e)[i] = n[i]
<1> DEFINE q == Append(n, e)
<1>0. Var(n) \in Vars /\ (IsAND(n) <=> ~IsOR(n))
  BY NodeVariable
<1>1. n \in Path /\ Len(n) \in Nat /\ Len(n) >= 1 /\ e \in Element
  BY <1>0, ParentPath, FiniteOrChildren DEF IsNodePath, Element
<1>2. /\ q \in Path /\ Len(q) = Len(n) + 1 /\ Parent(q) = n
      /\ q[Len(n) + 1] = e
      /\ \A i \in 1 .. Len(n) : q[i] = n[i]
  BY <1>1, AppendPath
<1> HIDE DEF q
<1>3. ASSUME NEW i \in 1 .. Len(q)
      PROVE  IF i % 2 = 1 THEN q[i] \in Vars ELSE q[i] \in Int
  <2>1. CASE i \in 1 .. Len(n)
    BY <1>2, <2>1 DEF IsNodePath
  <2>2. CASE i = Len(n) + 1
    <3>1. i % 2 = 1 <=> IsAND(n)
      BY <1>1, <2>2 DEF IsAND
    <3>2. IsAND(n) => e \in Vars
      BY <1>0, FiniteOrChildren
    <3> QED  BY <1>2, <2>2, <3>1, <3>2
  <2> QED  BY <1>1, <1>2, <2>1, <2>2
<1>4. ASSUME NEW i \in 1 .. Len(q) - 2, i % 2 = 1 PROVE q[i + 2] \in ChildSet(q[i])
  <2>0. i \in 1 .. Len(n) - 1 /\ i \in Nat
    BY <1>1, <1>2
  <2>1. CASE i + 2 <= Len(n)
    <3>1. i \in 1 .. Len(n) - 2 /\ i \in 1 .. Len(n) /\ i + 2 \in 1 .. Len(n)
      BY <1>1, <2>0, <2>1
    <3>2. n[i + 2] \in ChildSet(n[i])
      BY <1>4, <3>1 DEF IsNodePath
    <3> QED  BY <1>2, <3>1, <3>2
  <2>2. CASE i + 2 = Len(n) + 1
    <3>1. i = Len(n) - 1 /\ i \in 1 .. Len(n) /\ Len(n) % 2 = 0
      BY <1>1, <1>4, <2>0, <2>2
    <3>2. IsAND(n) /\ Var(n) = n[i]
      BY <1>0, <1>1, <3>1 DEF IsAND, Var
    <3> QED  BY <1>2, <2>2, <3>1, <3>2
  <2> QED  BY <1>1, <2>0, <2>1, <2>2
<1>5. Len(q) >= 1 /\ q[1] = Root
  BY <1>1, <1>2 DEF IsNodePath
<1>6. IsNodePath(q)
  BY <1>2, <1>3, <1>4, <1>5 DEF IsNodePath
<1> QED  BY <1>2, <1>6 DEF q

(* Writing the assignment and resetting tables keeps their types.          *)
LEMMA AssignmentAndCache ==
  ASSUME SearchTypeOK, NEW n, IsNodePath(n)
  PROVE  AssignmentAt(n) \in [Vars -> Int] /\ DOMAIN CacheAt(n) = Vars
<1>1. IsAND(n) => Val(n) \in Int /\ Var(n) \in Vars
  BY NodeVariable
<1>2. assignment \in [Vars -> Int] /\ DOMAIN cache = Vars
  BY DEF SearchTypeOK
<1>3. AssignmentAt(n) \in [Vars -> Int]
  BY <1>1, <1>2 DEF AssignmentAt
<1>4. DOMAIN CacheAt(n) = Vars
  BY <1>2 DEF CacheAt
<1> QED  BY <1>3, <1>4

(* The registers of the loops before they start.                           *)
LEMMA RegOfIdle ==
  /\ DOMAIN Idle = {"leaf", "prev", "prop", "del", "high", "delta"}
  /\ Idle.leaf \in Path /\ Idle.prev \in Path /\ Idle.high \in Path
  /\ Idle.prop \in BOOLEAN /\ Idle.del \in BOOLEAN
<1>1. NULL \in Path
  BY EmptySeq DEF NULL, Path
<1> QED  BY <1>1 DEF Idle

(* The nodes that are open between two calls of propagate.                *)
LEMMA OpenNode ==
  ASSUME NEW O, SearchInv(O), phase = "next", NEW n \in O
  PROVE  /\ IsNodePath(n) /\ n \in Path /\ n \in Live
         /\ Frontier(Live, O, {})
<1>1. Frontier(Live, O, {})
  BY DEF SearchInv, Pointers, Climbing
<1>2. IsNodePath(n) /\ n \in Live
  BY <1>1 DEF SearchInv, Tree, Frontier
<1> QED  BY <1>1, <1>2 DEF IsNodePath

(* A leaf: it is no longer open, and propagate starts from it.             *)
LEMMA LeafStep ==
  ASSUME NEW O, SearchInv(O), phase = "next", NEW n \in O,
         PropagateFrom(n), Live' = Live,
         assignment' \in [Vars -> Int], DOMAIN cache' = Vars
  PROVE  SearchInv(O \ {n})'
<1>1. n \in Path /\ Frontier(Live, O, {}) /\ Tree(Live)
  BY OpenNode DEF SearchInv
<1>2. /\ phase' = "climb"
      /\ reg'.leaf = n /\ reg'.prev = n /\ reg'.high = NULL
      /\ reg'.del = TRUE /\ reg'.prop = TRUE /\ DOMAIN reg' = DOMAIN Idle
  BY DEF PropagateFrom, Idle
<1>3. NULL \in Path
  BY EmptySeq DEF NULL, Path
<1>4. SearchTypeOK'
  BY <1>1, <1>2, <1>3 DEF SearchInv, SearchTypeOK
<1>5. Frontier(Live, O \ {n}, {n}) /\ Closing(Live, O \ {n}, n, n, NULL, TRUE)
  BY <1>1, TakeLeaf
<1>6. Pointers(O \ {n})'
  BY <1>2, <1>5 DEF Pointers, Climbing
<1> QED  BY <1>1, <1>4, <1>6 DEF SearchInv

(* The node taken gets the children K, which are open instead of it.       *)
LEMMA ExpandStep ==
  ASSUME NEW O, SearchInv(O), phase = "next", NEW n \in O,
         NEW K, K # {},
         \A q \in K : IsNodePath(q) /\ Len(q) = Len(n) + 1 /\ Parent(q) = n,
         Live' = Live \cup K,
         phase' = Deliver, reg' = HeurFrom(n),
         assignment' \in [Vars -> Int], DOMAIN cache' = Vars
  PROVE  SearchInv((O \ {n}) \cup K)' /\ K \cap Live = {}
<1>1. n \in Path /\ Frontier(Live, O, {}) /\ Tree(Live)
  BY OpenNode DEF SearchInv
<1>2. K \in SUBSET Path
  BY DEF IsNodePath
<1>3. /\ K \cap Live = {}
      /\ Tree(Live \cup K)
      /\ Frontier(Live \cup K, (O \ {n}) \cup K, {})
  BY <1>1, Expand
<1>4. phase' \in {"heur", "next"}
  BY DEF Deliver
<1>5. /\ DOMAIN reg' = DOMAIN Idle
      /\ reg'.leaf \in Path /\ reg'.prev \in Path /\ reg'.high \in Path
      /\ reg'.prop \in BOOLEAN /\ reg'.del \in BOOLEAN
  <2>1. CASE PropHeuristic
    <3>1. /\ DOMAIN reg' = DOMAIN Idle /\ reg'.leaf = n /\ reg'.prev = n
          /\ reg'.high = Idle.high /\ reg'.prop = Idle.prop /\ reg'.del = Idle.del
      BY <2>1, RegOfIdle DEF HeurFrom
    <3> QED  BY <1>1, <3>1, RegOfIdle
  <2>2. CASE ~PropHeuristic
    BY <2>2, RegOfIdle DEF HeurFrom
  <2> QED  BY <2>1, <2>2
<1>6. SearchTypeOK'
  <2>1. Live' \subseteq Path
    BY <1>2 DEF SearchInv, SearchTypeOK
  <2> QED  BY <1>4, <1>5, <2>1 DEF SearchTypeOK
<1>7. Pointers((O \ {n}) \cup K)'
  BY <1>3, <1>4 DEF Pointers, Climbing
<1> QED  BY <1>3, <1>6, <1>7 DEF SearchInv

(* A step outside propagate that leaves the tree and the stack alone.      *)
LEMMA QuietStep ==
  ASSUME NEW O, SearchInv(O), ~Climbing, ~Climbing', Live' = Live,
         phase' \in {"next", "heur", "heurEnd", "done"},
         DOMAIN reg' = DOMAIN Idle,
         reg'.leaf \in Path, reg'.prev \in Path, reg'.high \in Path,
         reg'.prop \in BOOLEAN, reg'.del \in BOOLEAN,
         assignment' = assignment, cache' = cache
  PROVE  SearchInv(O)'
<1>2. SearchTypeOK'
  BY DEF SearchInv, SearchTypeOK
<1>3. Pointers(O)'
  BY DEF SearchInv, Pointers
<1> QED  BY <1>2, <1>3 DEF SearchInv

(* One iteration of the loop of propHeuristic.                             *)
LEMMA HeurStep ==
  ASSUME NEW O, SearchInv(O), phase = "heur",
         NEW h, NEW delta, NEW goOn \in BOOLEAN, HeurUp(h, delta, goOn)
  PROVE  SearchInv(O)'
<1>1. Live' = Live /\ assignment' = assignment /\ cache' = cache
  BY DEF HeurUp, Live
<1>2. phase' \in {"heur", "heurEnd"}
  BY DEF HeurUp
<1>3. /\ DOMAIN reg = DOMAIN Idle
      /\ reg.leaf \in Path /\ reg.prev \in Path /\ reg.high \in Path
      /\ reg.prop \in BOOLEAN /\ reg.del \in BOOLEAN
  BY DEF SearchInv, SearchTypeOK
<1>4. /\ DOMAIN reg' = DOMAIN Idle
      /\ reg'.leaf \in Path /\ reg'.prev \in Path /\ reg'.high \in Path
      /\ reg'.prop \in BOOLEAN /\ reg'.del \in BOOLEAN
  <2>1. CASE goOn
    <3>1. reg' = [reg EXCEPT !.prev = Parent(@), !.delta = delta]
      BY <2>1 DEF HeurUp
    <3>2. /\ DOMAIN reg' = DOMAIN Idle /\ reg'.leaf = reg.leaf
          /\ reg'.prev = Parent(reg.prev) /\ reg'.high = reg.high
          /\ reg'.prop = reg.prop /\ reg'.del = reg.del
      BY <1>3, <3>1, RegOfIdle
    <3> QED  BY <1>3, <3>2, ParentPath
  <2>2. CASE ~goOn
    BY <1>3, <2>2 DEF HeurUp
  <2> QED  BY <2>1, <2>2
<1>5. ~Climbing /\ ~Climbing'
  BY <1>2 DEF Climbing
<1> QED  BY <1>1, <1>2, <1>4, <1>5, QuietStep

(* One iteration of the loop of propagate, at a node that has a parent.    *)
LEMMA ClimbStep ==
  ASSUME NEW O, SearchInv(O), phase = "climb", Len(reg.prev) >= 2,
         NEW prop \in BOOLEAN, ClimbOn(prop),
         Live' = Live, assignment' = assignment, DOMAIN cache' = Vars
  PROVE  SearchInv(O)'
<1> DEFINE leaf == reg.leaf
           prev == reg.prev
           high == reg.high
           del  == reg.del
<1>1. /\ DOMAIN reg = DOMAIN Idle
      /\ leaf \in Path /\ prev \in Path /\ high \in Path
      /\ reg.prop \in BOOLEAN /\ del \in BOOLEAN
  BY DEF SearchInv, SearchTypeOK
<1>2. /\ Tree(Live) /\ Frontier(Live, O, {leaf})
      /\ Closing(Live, O, leaf, prev, high, del)
  BY DEF SearchInv, Pointers, Climbing
<1>3. closes <=> del /\ \A q, r \in KidsIn(Live, prev) : q = r
  BY DEF closes, AtMostOneKid, Kids, KidsIn
<1>4. closes \in BOOLEAN
  BY <1>1 DEF closes, AtMostOneKid
<1>5. /\ DOMAIN reg' = DOMAIN Idle /\ reg'.leaf = leaf
      /\ reg'.prop = prop /\ reg'.del = closes
      /\ reg'.high = IF closes THEN prev ELSE high
      /\ reg'.prev = IF prop \/ closes THEN Parent(prev) ELSE prev
  BY <1>1, RegOfIdle DEF ClimbOn, cur
<1>6. phase' = IF prop \/ closes THEN "climb" ELSE "finish"
  BY DEF ClimbOn
<1>8. Parent(prev) \in Path
  BY <1>1, ParentPath
<1> HIDE DEF leaf, prev, high, del
<1>9. SearchTypeOK'
  <2>1. phase' \in {"climb", "finish"}
    BY <1>6
  <2>2. reg'.leaf \in Path /\ reg'.prev \in Path /\ reg'.high \in Path
    BY <1>1, <1>5, <1>8
  <2> QED  BY <1>1, <1>4, <1>5, <2>1, <2>2 DEF SearchInv, SearchTypeOK
<1>10. Closing(Live, O, reg'.leaf, reg'.prev, reg'.high, reg'.del)
  <2>1. CASE closes
    <3>1. Closing(Live, O, leaf, Parent(prev), prev, TRUE)
      BY <1>1, <1>2, <1>3, <2>1, CloseOne DEF prev
    <3> QED  BY <1>4, <1>5, <2>1, <3>1
  <2>2. CASE ~closes
    <3>1. ~(del /\ \A q, r \in KidsIn(Live, prev) : q = r) /\ Len(prev) >= 2
      BY <1>3, <2>2 DEF prev
    <3>2. /\ Closing(Live, O, leaf, prev, high, FALSE)
          /\ Closing(Live, O, leaf, Parent(prev), high, FALSE)
      BY <1>1, <1>2, <3>1, StopClosing
    <3> QED  BY <1>4, <1>5, <2>2, <3>2
  <2> QED  BY <2>1, <2>2
<1>11. phase' = "finish" => ~reg'.del
  BY <1>5, <1>6
<1>12. Pointers(O)'
  <2>1. Climbing'
    BY <1>6 DEF Climbing
  <2>2. Frontier(Live', O, {reg'.leaf})
    BY <1>2, <1>5
  <2> QED  BY <1>10, <1>11, <2>1, <2>2 DEF Pointers
<1> QED  BY <1>1, <1>2, <1>9, <1>12 DEF SearchInv

(* The end of propagate: the highest closed node is erased.                *)
LEMMA FinishStep ==
  ASSUME NEW O, SearchInv(O), PropagateFinish
  PROVE  SearchInv(O)'
<1> DEFINE left == IF reg.high = NULL THEN Live ELSE {q \in Live : ~Above(reg.high, q)}
<1>1. Climbing /\ phase' = "next" /\ reg' = Idle
  BY DEF PropagateFinish, Climbing
<1>2. /\ Tree(Live) /\ Frontier(Live, O, {reg.leaf})
      /\ Closing(Live, O, reg.leaf, reg.prev, reg.high, reg.del)
      /\ reg.del \in BOOLEAN
  BY <1>1 DEF SearchInv, Pointers, SearchTypeOK
<1>3. reg.del => reg.prev = RootNode
  BY <1>1 DEF PropagateFinish, AtRoot, SearchInv, Pointers, Climbing
<1>4. Live' = left
  BY DEF PropagateFinish, Live, Erased
<1>5. Tree(left) /\ Frontier(left, O, {})
  <2> DEFINE leaf == reg.leaf
             prev == reg.prev
             high == reg.high
             del  == reg.del
  <2>1. /\ Frontier(Live, O, {leaf}) /\ Closing(Live, O, leaf, prev, high, del)
        /\ del \in BOOLEAN /\ (del => prev = RootNode)
    BY <1>2, <1>3
  <2>2. left = IF high = NULL THEN Live ELSE {q \in Live : ~Above(high, q)}
    OBVIOUS
  <2> HIDE DEF leaf, prev, high, del, left
  <2> QED  BY <1>2, <2>1, <2>2, Erase
<1>7. SearchTypeOK'
  <2>1. Live' \subseteq Path
    BY <1>4 DEF SearchInv, SearchTypeOK
  <2>2. assignment' = assignment /\ cache' = cache
    BY DEF PropagateFinish
  <2> QED  BY <1>1, <2>1, <2>2, RegOfIdle DEF SearchInv, SearchTypeOK
<1>8. Pointers(O)'
  BY <1>1, <1>4, <1>5 DEF Pointers, Climbing
<1> QED  BY <1>4, <1>5, <1>7, <1>8 DEF SearchInv

-----------------------------------------------------------------------------
(* A node that turns out to be a leaf: found in the cache, pruned, or an   *)
(* AND node without children.  Only an AND node writes the assignment.     *)
LEMMA LeafKeeps ==
  ASSUME NEW O, SearchInv(O), phase = "next", NEW n \in O,
         ProcessCacheHit(n) \/ ProcessPrune(n) \/ ProcessLeafAND(n)
  PROVE  SearchInv(O \ {n})' /\ assignment' = AssignmentAt(n)
<1>1. IsNodePath(n) /\ (IsAND(n) <=> ~IsOR(n))
  BY OpenNode, NodeVariable
<1>2. /\ assignment \in [Vars -> Int] /\ DOMAIN cache = Vars
      /\ AssignmentAt(n) \in [Vars -> Int] /\ DOMAIN CacheAt(n) = Vars
  BY <1>1, AssignmentAndCache DEF SearchInv, SearchTypeOK
<1>3. CASE ProcessCacheHit(n)
  <2>1. /\ PropagateFrom(n) /\ Live' = Live
        /\ assignment' = assignment /\ cache' = cache /\ IsOR(n)
    BY <1>3 DEF ProcessCacheHit, Live, CacheHit, LooksUp
  <2>2. assignment' = AssignmentAt(n)
    BY <1>1, <2>1 DEF AssignmentAt
  <2> QED  BY <1>2, <2>1, <2>2, LeafStep
<1>4. CASE ProcessPrune(n)
  <2>1. /\ PropagateFrom(n) /\ Live' = Live
        /\ assignment' = AssignmentAt(n) /\ cache' = CacheAt(n)
    BY <1>4 DEF ProcessPrune, Live
  <2> QED  BY <1>2, <2>1, LeafStep
<1>5. CASE ProcessLeafAND(n)
  <2>1. /\ PropagateFrom(n) /\ Live' = Live
        /\ assignment' = AssignmentAt(n) /\ cache' = CacheAt(n)
    BY <1>5 DEF ProcessLeafAND, Live
  <2> QED  BY <1>2, <2>1, LeafStep
<1> QED  BY <1>3, <1>4, <1>5

(* A node is expanded: an AND node gets one OR node for each child of its  *)
(* variable, an OR node AND nodes for some of its values, in the order s.  *)
LEMMA ExpandKeeps ==
  ASSUME NEW O, SearchInv(O), phase = "next", NEW n \in O, NEW s,
         \/ s \in Seqs!SetToSeqs(OrChildren(n)) /\ ProcessExpandAND(n, s)
         \/ s \in Seqs!SetToSeqs(AndChildren(n)) /\ ProcessExpandOR(n, s)
  PROVE  LET K == Elements(s)
         IN  /\ SearchInv((O \ {n}) \cup K)' /\ K \cap Live = {}
             /\ assignment' = AssignmentAt(n)
             /\ K # {} /\ IsFiniteSet(K) /\ s \in Seq(Path) /\ NoRepeat(s)
             /\ Len(s) = Cardinality(K)
             /\ \A q \in K : IsNodePath(q) /\ Len(q) = Len(n) + 1 /\ Parent(q) = n
<1> DEFINE K == Elements(s)
<1>1. IsNodePath(n) /\ Var(n) \in Vars /\ (IsAND(n) <=> ~IsOR(n))
  BY OpenNode, NodeVariable
<1>2. /\ assignment \in [Vars -> Int] /\ DOMAIN cache = Vars
      /\ AssignmentAt(n) \in [Vars -> Int] /\ DOMAIN CacheAt(n) = Vars
  BY <1>1, AssignmentAndCache DEF SearchInv, SearchTypeOK
<1>3. ASSUME NEW C, IsFiniteSet(C), C \subseteq Path, s \in Seqs!SetToSeqs(C)
      PROVE  /\ K = C /\ s \in Seq(Path) /\ NoRepeat(s)
             /\ Len(s) = Cardinality(K) /\ (s = << >> <=> K = {})
  BY <1>3, ChildOrder
<1>4. CASE s \in Seqs!SetToSeqs(OrChildren(n)) /\ ProcessExpandAND(n, s)
  <2> DEFINE C == OrChildren(n)
  <2>1. IsAND(n) /\ IsFiniteSet(C)
    BY <1>1, <1>4, FiniteOrChildren DEF ProcessExpandAND
  <2>2. ASSUME NEW q \in C PROVE IsNodePath(q) /\ Len(q) = Len(n) + 1 /\ Parent(q) = n
    <3>1. PICK x \in ChildSet(Var(n)) : q = Append(n, x)
      BY DEF OrChildren
    <3> QED  BY <1>1, <2>1, <3>1, ChildPath
  <2>3. C \subseteq Path
    BY <2>2 DEF IsNodePath
  <2>4. /\ C # {} /\ phase' = Deliver /\ reg' = HeurFrom(n)
        /\ assignment' = AssignmentAt(n) /\ cache' = CacheAt(n)
    BY <1>4 DEF ProcessExpandAND
  <2>5. Live' = Live \cup C
    BY <1>4 DEF ProcessExpandAND, Added, Live
  <2>6. s \in Seqs!SetToSeqs(C)
    BY <1>4
  <2> HIDE DEF C, K
  <2>7. /\ K = C /\ s \in Seq(Path) /\ NoRepeat(s)
        /\ Len(s) = Cardinality(K)
    BY <1>3, <2>1, <2>3, <2>6
  <2>8. SearchInv((O \ {n}) \cup K)' /\ K \cap Live = {}
    BY <1>2, <2>2, <2>4, <2>5, <2>7, ExpandStep
  <2> QED  BY <2>1, <2>2, <2>4, <2>7, <2>8 DEF K
<1>5. CASE s \in Seqs!SetToSeqs(AndChildren(n)) /\ ProcessExpandOR(n, s)
  <2> DEFINE C == AndChildren(n)
  <2>1. ~IsAND(n) /\ Values(Var(n)) \subseteq Int /\ IsFiniteSet(C)
    BY <1>1, <1>5, FiniteAndChildren DEF ProcessExpandOR
  <2>2. \A q \in C : IsNodePath(q) /\ Len(q) = Len(n) + 1 /\ Parent(q) = n
    <3>1. SUFFICES ASSUME NEW v \in Values(Var(n))
                   PROVE  LET q == Append(n, v)
                          IN  IsNodePath(q) /\ Len(q) = Len(n) + 1 /\ Parent(q) = n
      BY <3>1 DEF AndChildren
    <3>2. v \in Int
      BY <2>1
    <3> QED  BY <1>1, <2>1, <3>2, ChildPath
  <2>3. C \subseteq Path
    BY <2>2 DEF IsNodePath
  <2>4. /\ s # << >> /\ phase' = Deliver /\ reg' = HeurFrom(n)
        /\ assignment' = assignment /\ cache' = cache
    BY <1>5 DEF ProcessExpandOR
  <2>5. Live' = Live \cup K
    BY <1>5 DEF ProcessExpandOR, Added, Live, Elements
  <2>6. s \in Seqs!SetToSeqs(C)
    BY <1>5
  <2> HIDE DEF C, K
  <2>7. /\ K = C /\ s \in Seq(Path) /\ NoRepeat(s)
        /\ Len(s) = Cardinality(K) /\ K # {}
    BY <1>3, <2>1, <2>3, <2>4, <2>6
  <2>8. \A q \in K : IsNodePath(q) /\ Len(q) = Len(n) + 1 /\ Parent(q) = n
    BY <2>2, <2>7
  <2>9. SearchInv((O \ {n}) \cup K)' /\ K \cap Live = {}
    BY <1>2, <2>4, <2>5, <2>7, <2>8, ExpandStep
  <2>10. assignment' = AssignmentAt(n)
    BY <2>1, <2>4 DEF AssignmentAt
  <2> QED  BY <2>1, <2>7, <2>8, <2>9, <2>10 DEF K
<1> QED  BY <1>4, <1>5

-----------------------------------------------------------------------------
(* The two loops that climb the tree.                                      *)
LEMMA ClimbKeeps ==
  ASSUME NEW O, SearchInv(O), Climb
  PROVE  SearchInv(O)'
<1>1. /\ reg.prev \in Path /\ Len(reg.prev) \in Nat
      /\ cur = Parent(reg.prev)
      /\ Len(reg.prev) >= 1 => Len(cur) = Len(reg.prev) - 1
      /\ reg.prop \in BOOLEAN /\ DOMAIN cache = Vars
  BY ParentPath DEF cur, SearchInv, SearchTypeOK
<1>2. phase = "climb" => reg.prev \in Live /\ Len(reg.prev) >= 1
  BY DEF SearchInv, Pointers, Climbing, Closing, Tree, IsNodePath
<1>3. CASE PropHeurAND
  <2>1. phase = "heur" /\ \E h, delta : \E goOn \in BOOLEAN : HeurUp(h, delta, goOn)
    BY <1>3 DEF PropHeurAND
  <2> QED  BY <2>1, HeurStep
<1>4. CASE PropHeurOR
  <2>1. phase = "heur" /\ \E h, delta : \E goOn \in BOOLEAN : HeurUp(h, delta, goOn)
    BY <1>4 DEF PropHeurOR
  <2> QED  BY <2>1, HeurStep
<1>5. CASE PropHeurEnd
  <2>1. /\ phase = "heurEnd" /\ phase' \in {"done", "next"} /\ reg' = Idle
        /\ Live' = Live /\ assignment' = assignment /\ cache' = cache
    BY <1>5 DEF PropHeurEnd, Live
  <2>2. ~Climbing /\ ~Climbing'
    BY <2>1 DEF Climbing
  <2> QED  BY <2>1, <2>2, RegOfIdle, QuietStep
<1>6. CASE PropagateAND
  <2>1. phase = "climb" /\ Len(cur) > 0
    BY <1>6 DEF PropagateAND, IsAND
  <2>2. PICK prop \in BOOLEAN : ClimbOn(prop)
    BY <1>6 DEF PropagateAND
  <2>3. Live' = Live /\ assignment' = assignment /\ cache' = CacheWrite(reg.prev)
    BY <1>6 DEF PropagateAND, Live
  <2>4. DOMAIN cache' = Vars
    BY <1>1, <2>3 DEF CacheWrite
  <2>5. Len(reg.prev) >= 2
    BY <1>1, <1>2, <2>1
  <2> QED  BY <2>1, <2>2, <2>3, <2>4, <2>5, ClimbStep
<1>7. CASE PropagateOR
  <2>1. phase = "climb" /\ Len(cur) % 2 = 1
    BY <1>7 DEF PropagateOR, IsOR
  <2>2. PICK prop \in BOOLEAN : ClimbOn(prop)
    BY <1>7 DEF PropagateOR
  <2>3. Live' = Live /\ assignment' = assignment /\ DOMAIN cache' = Vars
    BY <1>1, <1>7 DEF PropagateOR, Live
  <2>4. Len(reg.prev) >= 2
    BY <1>1, <1>2, <2>1
  <2> QED  BY <2>1, <2>2, <2>3, <2>4, ClimbStep
<1>8. CASE PropagateFinish
  BY <1>8, FinishStep
<1> QED  BY <1>3, <1>4, <1>5, <1>6, <1>7, <1>8 DEF Climb

(* Neither loop writes the assignment.                                     *)
LEMMA ClimbReads == Climb => assignment' = assignment
  BY DEF Climb, PropHeurAND, PropHeurOR, PropHeurEnd, HeurUp,
         PropagateAND, PropagateOR, PropagateFinish

(* One node, the root, is open when a search begins.                       *)
LEMMA InitSearch == SearchInit => SearchInv({RootNode})
<1> SUFFICES ASSUME SearchInit PROVE SearchInv({RootNode})
  OBVIOUS
<1>1. /\ RootNode \in Path /\ Len(RootNode) = 1 /\ RootNode[1] = Root
      /\ Root \in Vars
  BY ModelAssumption DEF RootNode, Path
<1>2. Live = {RootNode}
  BY DEF SearchInit, Live
<1>3. /\ phase = "next" /\ reg = Idle /\ cache = [x \in Vars |-> NoTable]
      /\ assignment = [x \in Vars |-> NONE]
  BY DEF SearchInit
<1>4. SearchTypeOK
  <2>1. assignment \in [Vars -> Int]
    BY <1>3 DEF NONE
  <2>2. DOMAIN cache = Vars
    BY <1>3
  <2> QED  BY <1>1, <1>2, <1>3, <2>1, <2>2, RegOfIdle DEF SearchTypeOK
<1>5. Tree(Live)
  <2>1. IsNodePath(RootNode)
    BY <1>1 DEF IsNodePath
  <2>2. Prefix(RootNode, 1) = RootNode
    <3>1. Len(RootNode) \in 0 .. Len(RootNode)
      BY <1>1
    <3>2. Prefix(RootNode, Len(RootNode)) = RootNode
      BY <1>1, <3>1, PrefixPath
    <3> QED  BY <1>1, <3>2
  <2>3. ASSUME NEW k \in 1 .. Len(RootNode) PROVE Prefix(RootNode, k) = RootNode
    <3>1. k = 1
      BY <1>1
    <3> QED  BY <2>2, <3>1
  <2> QED  BY <1>2, <2>1, <2>3 DEF Tree
<1>6. Frontier(Live, {RootNode}, {})
  <2>1. KidsIn(Live, RootNode) = {}
    BY <1>1, <1>2 DEF KidsIn
  <2> QED  BY <1>2, <2>1 DEF Frontier
<1>7. Pointers({RootNode})
  BY <1>3, <1>6 DEF Pointers, Climbing
<1> QED  BY <1>4, <1>5, <1>7 DEF SearchInv

(* What the invariant says of the properties every scheme states.          *)
LEMMA NothingDangles ==
  ASSUME NEW O, SearchInv(O)
  PROVE  NoneDangling(O)
<1>1. O \subseteq Live /\ \A p \in Live : \A k \in 1 .. Len(p) : Prefix(p, k) \in Live
  BY DEF SearchInv, Pointers, Frontier, Tree
<1>2. phase \in {"climb", "finish"} =>
        {reg.leaf, reg.prev} \subseteq Live /\ (reg.high # NULL => reg.high \in Live)
  BY DEF SearchInv, Pointers, Climbing, Closing
<1> QED  BY <1>1, <1>2 DEF NoneDangling

(* ... and the nodes without children are the open ones.                   *)
LEMMA LeavesAreOpen ==
  ASSUME NEW O, SearchInv(O)
  PROVE  OpenNodesAreLeaves(O)
<1> DEFINE H == IF phase \in {"climb", "finish"} THEN {reg.leaf} ELSE {}
<1>1. Frontier(Live, O, H)
  BY DEF SearchInv, Pointers, Climbing
<1>2. \A p \in Live : Childless(p) <=> KidsIn(Live, p) = {}
  BY DEF Childless, Kids, KidsIn
<1>3. {p \in Live : Childless(p)} \ {RootNode} = (O \cup H) \ {RootNode}
  BY <1>1, <1>2 DEF Frontier
<1> QED  BY <1>3 DEF OpenNodesAreLeaves

-----------------------------------------------------------------------------
(* Where the nodes are that have been handled and not erased, under any    *)
(* scheme; O is the set of open nodes.                                     *)

(* Every node of L but the root has one of S below it.                     *)
Covers(L, S) == \A q \in L : q = RootNode \/ \E o \in S : Above(q, o)

Pending(O) == O \cup (IF Climbing THEN {reg.leaf} ELSE {})

(* Of each variable, one value is worked on at a time: no two nodes of A   *)
(* part at a value.                                                        *)
OneValued(A) == \A p, q \in A : Above(p, q) \/ Above(q, p) \/ Parts(p, q)

Handled(O) == Covers(Live, Pending(O)) /\ OneValued(Live \ O)

(* The root lies above every node.                                         *)
LEMMA RootAbove ==
  ASSUME NEW p, IsNodePath(p)
  PROVE  Above(RootNode, p)
<1>1. /\ p \in Path /\ Len(p) \in Nat /\ Len(p) >= 1 /\ p[1] = Root
      /\ RootNode \in Path /\ Len(RootNode) = 1 /\ RootNode[1] = Root
  BY ParentPath, ModelAssumption DEF IsNodePath, RootNode, Path
<1>2. PICK r \in Path : r = RootNode
  BY <1>1
<1>3. 1 \in 0 .. Len(p) /\ Prefix(p, 1) \in Path /\ Len(Prefix(p, 1)) = 1 /\ Prefix(p, 1)[1] = Root
  BY <1>1, PrefixPath
<1>4. Prefix(p, 1) = r
  <2>1. Prefix(p, 1) \in Seq(Element) /\ r \in Seq(Element)
    BY <1>2, <1>3 DEF Path, Element
  <2>2. Len(r) = 1 /\ \A i \in 1 .. Len(r) : Prefix(p, 1)[i] = r[i]
    BY <1>1, <1>2, <1>3
  <2> QED  BY <1>3, <2>1, <2>2, SeqEqual
<1> QED  BY <1>1, <1>2, <1>4 DEF Above, Prefix

(* Of two paths of the same length, none is above another one.             *)
LEMMA SameLengthAbove ==
  ASSUME NEW a \in Path, NEW b \in Path, Len(a) = Len(b), Above(a, b) \/ Above(b, a)
  PROVE  a = b
<1>1. \A i \in 1 .. Len(a) : a[i] = b[i]
  BY AboveElements
<1> QED  BY <1>1, SeqEqual DEF Path

(* Parting goes both ways.                                                 *)
LEMMA PartsBoth == ASSUME NEW p, NEW q, Parts(p, q) PROVE Parts(q, p)
<1>1. PICK k \in 1 .. Len(p) : /\ k \in 1 .. Len(q) /\ k % 2 = 1 /\ p[k] # q[k]
                              /\ \A i \in 1 .. k - 1 : p[i] = q[i]
  BY DEF Parts
<1> QED  BY <1>1 DEF Parts

(* A node lies above what parts further down, or parts there as well.      *)
LEMMA AboveOrParts ==
  ASSUME NEW a \in Path, NEW o \in Path, NEW n \in Path, Above(a, o), Parts(o, n)
  PROVE  Above(a, n) \/ Parts(a, n)
<1>1. PICK k \in 1 .. Len(o) : /\ k \in 1 .. Len(n) /\ k % 2 = 1 /\ o[k] # n[k]
                              /\ \A i \in 1 .. k - 1 : o[i] = n[i]
  BY DEF Parts
<1>2. /\ Len(a) \in Nat /\ Len(o) \in Nat /\ Len(n) \in Nat /\ Len(a) <= Len(o)
      /\ \A i \in 1 .. Len(a) : o[i] = a[i]
  BY AboveElements, ParentPath
<1>3. CASE k \in 1 .. Len(a)
  <2>1. a[k] # n[k] /\ \A i \in 1 .. k - 1 : i \in 1 .. Len(a)
    BY <1>1, <1>2, <1>3
  <2>2. \A i \in 1 .. k - 1 : a[i] = n[i]
    BY <1>1, <1>2, <2>1
  <2> QED  BY <1>1, <1>3, <2>1, <2>2 DEF Parts
<1>4. CASE k \notin 1 .. Len(a)
  <2>1. Len(a) \in 0 .. Len(n) /\ \A i \in 1 .. Len(a) : i \in 1 .. k - 1
    BY <1>1, <1>2, <1>4
  <2>2. /\ Prefix(n, Len(a)) \in Path /\ Len(Prefix(n, Len(a))) = Len(a)
        /\ \A i \in 1 .. Len(a) : Prefix(n, Len(a))[i] = n[i]
    BY <2>1, PrefixPath
  <2>3. Prefix(n, Len(a)) = a
    <3>1. \A i \in 1 .. Len(a) : Prefix(n, Len(a))[i] = a[i]
      BY <1>1, <1>2, <2>1, <2>2
    <3>2. Prefix(n, Len(a)) \in Seq(Element) /\ a \in Seq(Element)
      BY <2>2 DEF Path, Element
    <3> QED  BY <2>2, <3>1, <3>2, SeqEqual
  <2> QED  BY <1>2, <2>1, <2>3 DEF Above, Prefix
<1> QED  BY <1>3, <1>4

(* What propagate leaves when it erases high is covered without the leaf:  *)
(* climbing stopped because the parent of high has another child left.     *)
LEMMA EraseCovers ==
  ASSUME NEW L, NEW O, NEW leaf, NEW prev, NEW high, NEW del \in BOOLEAN,
         Tree(L), Frontier(L, O, {leaf}), Closing(L, O, leaf, prev, high, del),
         del => prev = RootNode, Covers(L, O \cup {leaf}),
         NEW left, left = IF high = NULL THEN L ELSE {q \in L : ~Above(high, q)}
  PROVE  Covers(left, O)
<1> SUFFICES ASSUME NEW q \in left, q # RootNode PROVE \E o \in O : Above(q, o)
  BY DEF Covers
<1>1. q \in L /\ q \in Path /\ Len(q) >= 1 /\ Len(q) \in Nat /\ leaf \in L /\ leaf \in Path
  BY ParentPath DEF Tree, IsNodePath, Closing
<1>2. CASE \E o \in O : Above(q, o)
  BY <1>2
<1>3. CASE Above(q, leaf)
  <2>1. ASSUME NEW r, r = RootNode, Above(q, r) PROVE FALSE
    <3>1. Len(r) = 1 /\ r \in Path
      <4>1. Root \in Vars /\ Len(r) = 1
        BY <2>1, ModelAssumption DEF RootNode
      <4> QED  BY <2>1, <4>1 DEF RootNode, Path
    <3>2. Len(q) = Len(r)
      BY <1>1, <2>1, <3>1, AboveElements
    <3> QED  BY <1>1, <2>1, <3>1, <3>2, AboveElements
  <2>2. CASE high = NULL
    BY <1>3, <2>1, <2>2 DEF Closing
  <2>3. CASE high # NULL
    <3>1. high \in L /\ high \in Path /\ Len(high) >= 1 /\ Above(high, leaf) /\ ~Above(high, q)
      BY <2>3 DEF Closing, Tree, IsNodePath
    <3>2. Above(q, Parent(high))
      BY <1>1, <1>3, <3>1, AboveOnPath
    <3>3. CASE del
      <4>1. Parent(high) = RootNode
        BY <2>3, <3>3 DEF Closing, KidsIn
      <4> QED  BY <2>1, <3>2, <4>1
    <3>4. CASE ~del
      <4>1. PICK k \in KidsIn(L, Parent(high)) : k # high
        BY <2>3, <3>4 DEF Closing
      <4>2. /\ k \in L /\ k \in Path /\ Len(k) >= 1 /\ Parent(k) = Parent(high)
            /\ Len(k) = Len(high)
        BY <3>1, <4>1, ParentPath DEF KidsIn, Tree, IsNodePath
      <4>3. Above(q, k)
        BY <1>1, <3>2, <4>2, BelowParent
      <4>4. k # RootNode
        BY <2>1, <4>3
      <4>5. PICK o \in O \cup {leaf} : Above(k, o)
        BY <4>2, <4>4 DEF Covers
      <4>6. o \in L /\ o \in Path
        BY DEF Frontier, Tree, IsNodePath
      <4>7. o # leaf
        <5>1. SUFFICES ASSUME Above(k, leaf) PROVE FALSE
          BY <4>5
        <5>2. SubSeq(leaf, 1, Len(k)) = k /\ SubSeq(leaf, 1, Len(high)) = high
          BY <3>1, <5>1 DEF Above
        <5> QED  BY <4>1, <4>2, <5>2
      <4>8. Above(q, o)
        BY <1>1, <4>2, <4>3, <4>5, <4>6, AboveTransitive
      <4> QED  BY <4>7, <4>8
    <3> QED  BY <1>1, <3>3, <3>4 DEF Closing
  <2> QED  BY <2>2, <2>3
<1> QED  BY <1>1, <1>2, <1>3 DEF Covers

(* The loops that climb the tree, up to the step that erases.              *)
LEMMA ClimbPlaces ==
  ASSUME NEW O, SearchInv(O), Climb, ~PropagateFinish
  PROVE  Live' = Live /\ (Climbing' <=> Climbing) /\ (Climbing => reg'.leaf = reg.leaf)
<1>1. CASE PropHeurAND \/ PropHeurOR \/ PropHeurEnd
  BY <1>1 DEF PropHeurAND, PropHeurOR, PropHeurEnd, HeurUp, Climbing, Live
<1>2. CASE PropagateAND \/ PropagateOR
  <2>1. phase = "climb" /\ Live' = Live /\ \E prop : ClimbOn(prop)
    BY <1>2 DEF PropagateAND, PropagateOR, Live
  <2>2. DOMAIN reg = DOMAIN Idle
    BY DEF SearchInv, SearchTypeOK
  <2>3. phase' \in {"climb", "finish"} /\ reg'.leaf = reg.leaf
    BY <2>1, <2>2, RegOfIdle DEF ClimbOn
  <2> QED  BY <2>1, <2>3 DEF Climbing
<1> QED  BY <1>1, <1>2 DEF Climb

(* Nothing changes that says where the handled nodes are.                  *)
LEMMA HandledSame ==
  ASSUME NEW O, Handled(O), Live' = Live, Climbing' <=> Climbing,
         Climbing => reg'.leaf = reg.leaf
  PROVE  Handled(O)'
<1>1. Pending(O)' = Pending(O)
  BY DEF Pending
<1> QED  BY <1>1 DEF Handled

(* A node that lies below each handled one or parts from it is handled.    *)
LEMMA OneMore ==
  ASSUME NEW A, OneValued(A), NEW n \in Path, \A a \in A : Above(a, n) \/ Parts(a, n)
  PROVE  OneValued(A \cup {n})
<1> SUFFICES ASSUME NEW p \in A \cup {n}, NEW q \in A \cup {n}
             PROVE  Above(p, q) \/ Above(q, p) \/ Parts(p, q)
  BY DEF OneValued
<1>1. Above(n, n)
  BY AbovePrefix
<1>2. \A a \in A : Parts(a, n) => Parts(n, a)
  BY PartsBoth
<1> QED  BY <1>1, <1>2 DEF OneValued

(* A leaf is handled: propagate starts from it.                            *)
LEMMA HandledLeaf ==
  ASSUME NEW O, SearchInv(O), Handled(O), phase = "next", NEW n \in O,
         \A a \in Live \ O : Above(a, n) \/ Parts(a, n),
         ProcessCacheHit(n) \/ ProcessPrune(n) \/ ProcessLeafAND(n)
  PROVE  Handled(O \ {n})'
<1>1. n \in Path /\ n \in Live
  BY OpenNode
<1>2. Live' = Live /\ phase' = "climb" /\ reg'.leaf = n /\ ~Climbing /\ Climbing'
  BY DEF ProcessCacheHit, ProcessPrune, ProcessLeafAND, PropagateFrom, Live, Idle, Climbing
<1>3. Pending(O \ {n})' = Pending(O)
  BY <1>2 DEF Pending
<1>4. Covers(Live, Pending(O \ {n}))'
  BY <1>2, <1>3 DEF Handled
<1>5. Live \ (O \ {n}) = (Live \ O) \cup {n}
  BY <1>1
<1>6. OneValued(Live \ (O \ {n}))
  BY <1>1, <1>5, OneMore DEF Handled
<1>7. OneValued(Live \ (O \ {n}))'
  BY <1>2, <1>6
<1> QED  BY <1>4, <1>7 DEF Handled

(* A node with children is handled: the children s are open in its place.  *)
LEMMA HandledExpand ==
  ASSUME NEW O, SearchInv(O), Handled(O), phase = "next", NEW n \in O, NEW s,
         \A a \in Live \ O : Above(a, n) \/ Parts(a, n),
         \/ s \in Seqs!SetToSeqs(OrChildren(n)) /\ ProcessExpandAND(n, s)
         \/ s \in Seqs!SetToSeqs(AndChildren(n)) /\ ProcessExpandOR(n, s)
  PROVE  Handled((O \ {n}) \cup Elements(s))'
<1> DEFINE K == Elements(s)
           B == (O \ {n}) \cup K
<1>1. n \in Path /\ n \in Live /\ Tree(Live) /\ O \subseteq Live
  BY OpenNode DEF SearchInv, Frontier
<1>2. /\ K # {} /\ K \cap Live = {}
      /\ \A q \in K : IsNodePath(q) /\ Parent(q) = n
  BY ExpandKeeps
<1>3. ~Climbing /\ ~Climbing'
  BY DEF ProcessExpandAND, ProcessExpandOR, Deliver, Climbing
<1>4. Live' = Live \cup K
  <2>1. CASE s \in Seqs!SetToSeqs(OrChildren(n)) /\ ProcessExpandAND(n, s)
    <3>1. Live' = Live \cup OrChildren(n)
      BY <2>1 DEF ProcessExpandAND, Added, Live
    <3>2. OrChildren(n) = K
      <4>1. IsFiniteSet(OrChildren(n))
        BY OpenNode, NodeVariable, FiniteOrChildren
      <4> QED  BY <2>1, <4>1, ChildOrder
    <3> QED  BY <3>1, <3>2
  <2>2. CASE s \in Seqs!SetToSeqs(AndChildren(n)) /\ ProcessExpandOR(n, s)
    BY <2>2 DEF ProcessExpandOR, Added, Live, Elements
  <2> QED  BY <2>1, <2>2
<1> HIDE DEF K
<1>5. Pending(O) = O /\ Pending(B)' = B
  BY <1>3 DEF Pending
<1>6. ASSUME NEW q \in Live \cup K, q # RootNode PROVE \E o \in B : Above(q, o)
  <2>1. CASE q \in K
    <3>1. Above(q, q)
      BY <1>2, <2>1, AbovePrefix DEF IsNodePath
    <3> QED  BY <2>1, <3>1
  <2>2. CASE q \notin K
    <3>1. q \in Live /\ q \in Path
      BY <1>1, <1>6, <2>2 DEF Tree, IsNodePath
    <3>2. PICK o \in O : Above(q, o)
      BY <1>5, <1>6, <3>1 DEF Handled, Covers
    <3>3. CASE o = n
      <4>1. PICK k \in K : Parent(k) = n
        BY <1>2
      <4>2. k \in Path /\ Len(k) >= 1
        BY <1>2, <4>1 DEF IsNodePath
      <4>3. Above(q, k)
        BY <3>1, <3>2, <3>3, <4>1, <4>2, BelowParent
      <4> QED  BY <4>1, <4>3
    <3> QED  BY <3>2, <3>3
  <2> QED  BY <2>1, <2>2
<1>7. Covers(Live, Pending(B))'
  BY <1>4, <1>5, <1>6 DEF Covers
<1>8. (Live \cup K) \ B = (Live \ O) \cup {n}
  BY <1>1, <1>2
<1>9. OneValued((Live \cup K) \ B)
  BY <1>1, <1>8, OneMore DEF Handled
<1>10. OneValued(Live \ B)'
  BY <1>4, <1>9
<1>11. Handled(B)'
  BY <1>7, <1>10 DEF Handled
<1> QED  BY <1>11 DEF K

(* propagate and propHeuristic only ever erase handled nodes.              *)
LEMMA HandledClimb ==
  ASSUME NEW O, SearchInv(O), Handled(O), Climb
  PROVE  Handled(O)'
<1>1. CASE ~PropagateFinish
  BY <1>1, ClimbPlaces, HandledSame
<1>2. CASE PropagateFinish
  <2> DEFINE left == IF reg.high = NULL THEN Live ELSE {q \in Live : ~Above(reg.high, q)}
  <2>1. Climbing /\ ~Climbing'
    BY <1>2 DEF PropagateFinish, Climbing
  <2>2. /\ Tree(Live) /\ Frontier(Live, O, {reg.leaf})
        /\ Closing(Live, O, reg.leaf, reg.prev, reg.high, reg.del)
        /\ reg.del \in BOOLEAN
    BY <2>1 DEF SearchInv, Pointers, SearchTypeOK
  <2>3. reg.del => reg.prev = RootNode
    BY <1>2 DEF PropagateFinish, AtRoot, SearchInv, Pointers, Climbing
  <2>4. Live' = left
    BY <1>2 DEF PropagateFinish, Live, Erased
  <2>5. Covers(Live, O \cup {reg.leaf})
    BY <2>1 DEF Handled, Pending
  <2>6. Covers(left, O)
    <3> DEFINE leaf == reg.leaf
               prev == reg.prev
               high == reg.high
               del  == reg.del
    <3>1. /\ Tree(Live) /\ Frontier(Live, O, {leaf})
          /\ Closing(Live, O, leaf, prev, high, del)
          /\ del \in BOOLEAN /\ (del => prev = RootNode) /\ Covers(Live, O \cup {leaf})
      BY <2>2, <2>3, <2>5
    <3>2. left = IF high = NULL THEN Live ELSE {q \in Live : ~Above(high, q)}
      OBVIOUS
    <3> HIDE DEF leaf, prev, high, del, left
    <3> QED  BY <3>1, <3>2, EraseCovers
  <2>7. Pending(O)' = O
    BY <2>1 DEF Pending
  <2>8. OneValued(left \ O)
    BY DEF Handled, OneValued
  <2> HIDE DEF left
  <2> QED  BY <2>4, <2>6, <2>7, <2>8 DEF Handled
<1> QED  BY <1>1, <1>2

(* At the end only the root is left.                                       *)
LEMMA OnlyRootLeft ==
  ASSUME Handled({}), ~Climbing, RootNode \in Live
  PROVE  Live = {RootNode}
<1>1. Pending({}) = {}
  BY DEF Pending
<1> QED  BY <1>1 DEF Handled, Covers

(* A search begins with one node, and it is open.                          *)
LEMMA InitHandled == SearchInit => Handled({RootNode})
<1> SUFFICES ASSUME SearchInit PROVE Handled({RootNode})
  OBVIOUS
<1>1. Live = {RootNode}
  BY DEF SearchInit, Live
<1> QED  BY <1>1 DEF Handled, Covers, OneValued

-----------------------------------------------------------------------------
(* The child of a variable is a variable, and that is its parent.          *)
LEMMA ParentOfChild ==
  ASSUME NEW y \in Vars, NEW x \in ChildSet(y)
  PROVE  x \in Vars /\ x # Root /\ PtParent(x) = y
<1>1. PtChildren[y] \in Seq(Vars)
  BY ModelAssumption
<1>2. PICK i \in DOMAIN PtChildren[y] : x = PtChildren[y][i]
  BY DEF ChildSet
<1>3. x \in Vars
  BY <1>1, <1>2, InQueue DEF Elements
<1>4. \A z \in Vars : x \in ChildSet(z) => z = y
  BY <1>3, PseudotreeAssumption
<1>5. x # Root
  BY PseudotreeAssumption
<1> QED  BY <1>3, <1>4, <1>5 DEF PtParent

(* The parent of a variable other than the root has it as a child.         *)
LEMMA ParentVariable ==
  ASSUME NEW x \in Vars, x # Root
  PROVE  PtParent(x) \in Vars /\ x \in ChildSet(PtParent(x))
<1> DEFINE S == {Root} \cup {y \in Vars : \E z \in Vars : y \in ChildSet(z)}
<1>1. S \in SUBSET Vars /\ Root \in S
  BY ModelAssumption
<1>2. \A y \in S : ChildSet(y) \subseteq S
  BY <1>1, ParentOfChild
<1> HIDE DEF S
<1>3. S = Vars
  BY <1>1, <1>2, PseudotreeAssumption
<1>4. PICK z \in Vars : x \in ChildSet(z)
  BY <1>3 DEF S
<1> QED  BY <1>4, ParentOfChild

(* The recursion that defines Depth has a solution.                        *)
LEMMA DepthDefined ==
  Depth = [x \in Vars |-> IF x = Root THEN -1 ELSE Depth[PtParent(x)] + 1]
<1> DEFINE up == [x \in Vars |-> PtParent(x)]
           Solves(g) == g = [x \in Vars |-> IF x = Root THEN -1 ELSE g[PtParent(x)] + 1]
<1>1. RootedTree(Vars, Root, up)
  <2>1. Root \in Vars /\ \A x \in Vars \ {Root} : up[x] \in Vars
    BY ParentVariable, ModelAssumption
  <2>2. ASSUME NEW S \in SUBSET Vars, Root \in S, \A x \in Vars \ {Root} : up[x] \in S => x \in S
        PROVE  S = Vars
    <3>1. ASSUME NEW y \in S PROVE ChildSet(y) \subseteq S
      BY <2>2, <3>1, ParentOfChild
    <3> HIDE DEF up
    <3> QED  BY <2>2, <3>1, PseudotreeAssumption
  <2> HIDE DEF up
  <2> QED  BY <2>1, <2>2 DEF RootedTree
<1>2. PICK d : IsDepth(d, Vars, Root, up, -1)
  <2> HIDE DEF up
  <2> QED  BY <1>1, TreeDepth
<1>3. Solves(d)
  <2>1. \A x \in Vars : d[x] = IF x = Root THEN -1 ELSE d[PtParent(x)] + 1
    BY <1>2 DEF IsDepth
  <2>2. d = [x \in Vars |-> d[x]]
    BY <1>2 DEF IsDepth
  <2> HIDE DEF up
  <2> QED  BY <2>1, <2>2
<1>4. \E g : Solves(g)
  BY <1>3
<1> QED  BY <1>4, Zenon DEF Depth

(* The depth of a variable is given by its place on a path.                *)
LEMMA DepthOnPath ==
  ASSUME NEW p, IsNodePath(p), NEW k \in 1 .. Len(p), k % 2 = 1
  PROVE  Depth[p[k]] \in Int /\ 2 * Depth[p[k]] = k - 3
<1> DEFINE Good(i) == Depth[p[i]] \in Int /\ 2 * Depth[p[i]] = i - 3
           T == {i \in 1 .. Len(p) : i % 2 = 1 /\ ~Good(i)}
<1>0. Len(p) \in Nat /\ T \subseteq Nat
  BY ParentPath DEF IsNodePath
<1>1. ASSUME T # {} PROVE FALSE
  <2>1. PICK i \in T : \A j \in T : i <= j
    BY <1>0, <1>1, LeastNat
  <2>2. /\ p[i] \in Vars /\ (p[i] = Root <=> i = 1)
        /\ i # 1 => /\ i - 2 \in 1 .. Len(p) /\ (i - 2) % 2 = 1
                    /\ p[i] \in ChildSet(p[i - 2])
    BY <2>1, VariableOnPath
  <2>3. Depth[p[i]] = IF p[i] = Root THEN -1 ELSE Depth[PtParent(p[i])] + 1
    BY <2>2, DepthDefined
  <2>4. CASE i = 1
    BY <2>1, <2>2, <2>3, <2>4
  <2>5. CASE i # 1
    <3>1. Good(i - 2)
      BY <1>0, <2>1, <2>2, <2>5
    <3>2. p[i - 2] \in Vars
      BY <2>2, <2>5, VariableOnPath
    <3>3. PtParent(p[i]) = p[i - 2]
      BY <2>2, <2>5, <3>2, ParentOfChild
    <3>4. i \in Nat /\ Depth[p[i]] = Depth[p[i - 2]] + 1
      BY <1>0, <2>1, <2>2, <2>3, <2>5, <3>3
    <3>5. Good(i)
      <4>1. PICK d \in Int : Depth[p[i - 2]] = d /\ 2 * d = i - 2 - 3
        BY <3>1
      <4>2. Depth[p[i]] = d + 1 /\ 2 * (d + 1) = i - 3
        BY <3>4, <4>1
      <4> QED  BY <4>1, <4>2
    <3> QED  BY <2>1, <3>5
  <2> QED  BY <2>4, <2>5
<1> QED  BY <1>1

(* The context of the variable that a path leads to lies on the path, at   *)
(* different depths.                                                       *)
LEMMA ContextPlaces ==
  ASSUME NEW p, IsNodePath(p), IsOR(p)
  PROVE  /\ Len(p) \in Nat /\ Len(p) % 2 = 1 /\ Var(p) = p[Len(p)] /\ Var(p) \in Vars
         /\ IsFiniteSet(Ctx[Var(p)])
         /\ \A y \in Ctx[Var(p)] :
              \E j \in 1 .. Len(p) - 2 : /\ j % 2 = 1 /\ p[j] = y
                                         /\ Depth[y] \in Int /\ 2 * Depth[y] = j - 3
                                         /\ PathValue(p, y) = p[j + 1]
<1>1. Len(p) \in Nat /\ Len(p) >= 1 /\ Len(p) % 2 = 1 /\ Var(p) = p[Len(p)] /\ Var(p) \in Vars
  BY NodeVariable DEF IsOR, Var, IsNodePath
<1> DEFINE l == Len(p)
           x == p[l]
           S == {i \in 1 .. l : p[i] \in Ctx[x]}
<1>2. ASSUME NEW y \in Ctx[x]
      PROVE  \E j \in 1 .. l - 2 : /\ j % 2 = 1 /\ p[j] = y
                                   /\ Depth[y] \in Int /\ 2 * Depth[y] = j - 3
                                   /\ PathValue(p, y) = p[j + 1]
  <2>1. l \in 1 .. Len(p) /\ l % 2 = 1
    BY <1>1
  <2>2. PICK j \in 1 .. l - 1 : j % 2 = 1 /\ p[j] = y
    BY <2>1, ContextAbove
  <2>3. j \in 1 .. l - 2
    BY <1>1, <2>2
  <2>4. j \in 1 .. Len(p) - 1 /\ j \in 1 .. Len(p)
    BY <1>1, <2>3
  <2> HIDE DEF l
  <2>5. Depth[p[j]] \in Int /\ 2 * Depth[p[j]] = j - 3
    BY <2>2, <2>4, DepthOnPath
  <2>6. PathValue(p, p[j]) = p[j + 1]
    BY <2>2, <2>4, PathValueOf
  <2> QED  BY <2>2, <2>3, <2>5, <2>6
<1>3. IsFiniteSet(Ctx[x])
  <2> DEFINE f == [i \in S |-> p[i]]
  <2>1. IsFiniteSet(1 .. l) /\ S \in SUBSET (1 .. l)
    <3>1. IsFiniteSet(1 .. l)
      <4>1. 1 \in Int /\ l \in Int
        BY <1>1
      <4> HIDE DEF l
      <4> QED  BY <4>1, FS_Interval
    <3>2. S \in SUBSET (1 .. l)
      OBVIOUS
    <3> QED  BY <3>1, <3>2
  <2>2. IsFiniteSet(S)
    BY <2>1, FS_Subset
  <2>3. \A y \in Ctx[x] : \E i \in S : p[i] = y
    BY <1>1, <1>2
  <2>4. f \in Surjection(S, Ctx[x])
    BY <2>3 DEF Surjection
  <2> QED  BY <2>2, <2>4, FS_Surjection
<1> QED  BY <1>1, <1>2, <1>3

(* A context variable left out of the table's context is not closer than   *)
(* the variable at which the table is reset.                               *)
LEMMA CutContext ==
  ASSUME NEW p, IsNodePath(p), IsOR(p),
         NEW y \in Ctx[Var(p)], y \notin CacheCtx(Var(p))
  PROVE  \E z \in Ctx[Var(p)] : Var(p) \in ResetList(z) /\ Depth[z] >= Depth[y]
<1> DEFINE x == Var(p)
           C(z) == CloserInCtx(x, z)
           n(z) == Cardinality(C(z))
           S == {z \in Ctx[x] : n(z) >= CacheLimit}
<1>1. /\ IsFiniteSet(Ctx[x]) /\ x \in Vars
      /\ \A z \in Ctx[x] : Depth[z] \in Int /\ Depth[z] >= -1
      /\ \A z, w \in Ctx[x] : Depth[z] = Depth[w] => z = w
  <2>1. /\ IsFiniteSet(Ctx[x]) /\ x \in Vars
        /\ \A z \in Ctx[x] : \E j \in 1 .. Len(p) - 2 :
              p[j] = z /\ Depth[z] \in Int /\ 2 * Depth[z] = j - 3
    BY ContextPlaces
  <2>2. Len(p) \in Nat
    BY ContextPlaces
  <2> HIDE DEF x
  <2>3. \A z \in Ctx[x] : Depth[z] \in Int /\ Depth[z] >= -1
    BY <2>1, <2>2
  <2>4. ASSUME NEW z \in Ctx[x], NEW w \in Ctx[x], Depth[z] = Depth[w] PROVE z = w
    <3>1. PICK j \in 1 .. Len(p) - 2 : p[j] = z /\ 2 * Depth[z] = j - 3
      BY <2>1
    <3>2. PICK i \in 1 .. Len(p) - 2 : p[i] = w /\ 2 * Depth[w] = i - 3
      BY <2>1
    <3>3. i = j
      BY <2>2, <2>3, <2>4, <3>1, <3>2
    <3> QED  BY <3>1, <3>2, <3>3
  <2> QED  BY <2>1, <2>3, <2>4
<1>2. \A z \in Ctx[x] : IsFiniteSet(C(z)) /\ n(z) \in Nat /\ C(z) \subseteq Ctx[x]
  BY <1>1, FS_Subset, FS_CardinalityType DEF CloserInCtx
<1>3. CacheLimit \in Nat /\ CacheLimit < Cardinality(Ctx[x]) /\ y \in S
  <2>1. Cardinality(Ctx[x]) \in Nat
    BY <1>1, FS_CardinalityType
  <2>2. CacheLimit # NoLimit /\ ~(CacheLimit >= Cardinality(Ctx[x]))
    BY DEF CacheCtx
  <2>3. ~(n(y) < CacheLimit)
    BY <2>2 DEF CacheCtx
  <2> QED  BY <1>2, <2>1, <2>2, <2>3, LimitAssumption
<1>4. PICK z \in S : \A w \in S : n(z) <= n(w)
  <2> DEFINE N == {n(w) : w \in S}
  <2>1. N \subseteq Nat /\ N # {}
    BY <1>2, <1>3
  <2> HIDE DEF N
  <2>2. PICK m \in N : \A k \in N : m <= k
    BY <2>1, LeastNat
  <2> QED  BY <2>2 DEF N
<1>5. z \in Ctx[x] /\ n(z) \in Nat /\ n(z) >= CacheLimit
  BY <1>2, <1>4
<1>6. n(z) = CacheLimit
  <2>1. ASSUME n(z) # CacheLimit PROVE FALSE
    <3> DEFINE W == {Depth[w] + 1 : w \in C(z)}
    <3>1. n(z) > CacheLimit /\ C(z) # {}
      BY <1>3, <1>5, <2>1, FS_EmptySet
    <3>2. W \subseteq Nat /\ W # {}
      BY <1>1, <1>2, <1>5, <3>1
    <3> HIDE DEF W
    <3>3. PICK d \in W : \A e \in W : d <= e
      BY <3>2, LeastNat
    <3>4. PICK w \in C(z) : d = Depth[w] + 1
      BY <3>3 DEF W
    <3>5. w \in Ctx[x] /\ Depth[w] > Depth[z] /\ \A u \in C(z) : Depth[w] <= Depth[u]
      <4>1. \A u \in C(z) : Depth[u] + 1 \in W /\ Depth[u] \in Int
        BY <1>1, <1>2, <1>5 DEF W
      <4>2. \A u \in C(z) : Depth[w] <= Depth[u]
        BY <3>3, <3>4, <4>1
      <4> QED  BY <1>2, <1>5, <4>2 DEF CloserInCtx
    <3>6. C(w) = C(z) \ {w}
      BY <1>1, <1>5, <3>4, <3>5 DEF CloserInCtx
    <3>7. n(w) = n(z) - 1
      BY <1>2, <1>5, <3>4, <3>6, FS_RemoveElement
    <3>8. w \in S /\ n(w) < n(z)
      BY <1>3, <1>5, <3>1, <3>5, <3>7
    <3> QED  BY <1>2, <1>4, <1>5, <3>5, <3>8
  <2> QED  BY <2>1
<1>7. Depth[z] >= Depth[y]
  <2>1. ASSUME Depth[y] > Depth[z] PROVE FALSE
    <3>1. C(y) \in SUBSET C(z) /\ y \in C(z) /\ y \notin C(y)
      BY <1>1, <1>5, <2>1 DEF CloserInCtx
    <3>2. n(y) <= n(z) /\ n(y) # n(z)
      BY <1>2, <1>5, <3>1, FS_Subset
    <3> QED  BY <1>2, <1>3, <1>4, <1>5, <3>2
  <2> QED  BY <1>1, <1>5, <2>1
<1>8. x \in ResetList(z)
  BY <1>1, <1>3, <1>5, <1>6 DEF ResetList, NoLimit
<1> QED  BY <1>5, <1>7, <1>8

(* Two paths to the same variable have the same length and variables.      *)
LEMMA SameLength ==
  ASSUME NEW p, IsNodePath(p), NEW q, IsNodePath(q), NEW i, NEW k,
         i = Len(p), k = Len(q), i \in 1 .. Len(p), k \in 1 .. Len(q),
         i % 2 = 1, k % 2 = 1, p[i] = q[k]
  PROVE  i = k /\ \A m \in 1 .. i : m % 2 = 1 => p[m] = q[m]
BY SameVariables

(* Two paths to the same variable have the same full context if they have  *)
(* the same table context, and the same path down to the variable at which *)
(* the table is reset.                                                     *)
LEMMA SharedContext ==
  ASSUME NEW p, IsNodePath(p), IsOR(p), NEW q, IsNodePath(q), IsOR(q),
         Var(p) = Var(q),
         \A y \in CacheCtx(Var(p)) : PathValue(p, y) = PathValue(q, y),
         \A k \in 1 .. Len(p) - 1 :
           k % 2 = 0 /\ Var(p) \in ResetList(p[k - 1]) => Prefix(p, k) = Prefix(q, k)
  PROVE  \A y \in Ctx[Var(p)] : PathValue(p, y) = PathValue(q, y)
<1> SUFFICES ASSUME NEW y \in Ctx[Var(p)], y \notin CacheCtx(Var(p))
             PROVE  PathValue(p, y) = PathValue(q, y)
  OBVIOUS
<1>1. PICK z \in Ctx[Var(p)] : Var(p) \in ResetList(z) /\ Depth[z] >= Depth[y]
  BY CutContext
<1>2. /\ Len(p) \in Nat /\ Len(p) % 2 = 1 /\ Len(q) \in Nat /\ Len(q) % 2 = 1
      /\ p \in Path /\ q \in Path /\ Var(p) = p[Len(p)] /\ Var(q) = q[Len(q)]
      /\ Len(p) >= 1 /\ Len(q) >= 1
  BY ContextPlaces DEF IsNodePath
<1>3. PICK j \in 1 .. Len(p) - 2 : /\ j % 2 = 1 /\ p[j] = y
                                   /\ Depth[y] \in Int /\ 2 * Depth[y] = j - 3
                                   /\ PathValue(p, y) = p[j + 1]
  BY ContextPlaces
<1>4. PICK l \in 1 .. Len(p) - 2 : /\ l % 2 = 1 /\ p[l] = z
                                   /\ Depth[z] \in Int /\ 2 * Depth[z] = l - 3
  BY ContextPlaces
<1>5. j <= l /\ l + 1 \in 1 .. Len(p) - 1 /\ (l + 1) % 2 = 0 /\ (l + 1) - 1 = l
  <2>1. l \in Nat /\ l >= 1 /\ l <= Len(p) - 2 /\ l % 2 = 1 /\ j \in Nat
    BY <1>2, <1>3, <1>4
  <2>2. j - 3 <= l - 3
    <3>1. Depth[z] \in Int /\ Depth[y] \in Int /\ Depth[y] <= Depth[z]
      BY <1>1, <1>3, <1>4
    <3>2. 2 * Depth[y] = j - 3 /\ 2 * Depth[z] = l - 3
      BY <1>3, <1>4
    <3> QED  BY <2>1, <3>1, <3>2
  <2>3. j <= l
    BY <2>1, <2>2
  <2>4. l + 1 \in 1 .. Len(p) - 1
    BY <1>2, <2>1
  <2>5. (l + 1) % 2 = 0
    BY <2>1, Z3
  <2> QED  BY <2>1, <2>3, <2>4, <2>5
<1>6. Prefix(p, l + 1) = Prefix(q, l + 1)
  BY <1>1, <1>4, <1>5
<1>7. Len(p) = Len(q)
  <2>1. Len(p) \in 1 .. Len(p) /\ Len(q) \in 1 .. Len(q) /\ p[Len(p)] = q[Len(q)]
    <3>1. Len(p) \in 1 .. Len(p)
      BY <1>2
    <3>2. Len(q) \in 1 .. Len(q)
      BY <1>2
    <3>3. p[Len(p)] = q[Len(q)]
      BY <1>2
    <3> QED  BY <3>1, <3>2, <3>3
  <2>2. Len(p) % 2 = 1 /\ Len(q) % 2 = 1
    BY <1>2
  <2> QED  BY ONLY <2>1, <2>2, IsNodePath(p), IsNodePath(q), SameLength
<1>8. \A i \in 1 .. l + 1 : p[i] = q[i]
  <2>1. l + 1 \in 0 .. Len(p) /\ l + 1 \in 0 .. Len(q)
    BY <1>2, <1>5, <1>7
  <2> QED  BY <1>2, <1>6, <2>1, PrefixPath
<1>9. q[j] = y /\ q[j + 1] = p[j + 1] /\ j \in 1 .. Len(q) - 1
  <2>1. j \in 1 .. l + 1 /\ j + 1 \in 1 .. l + 1 /\ j \in 1 .. Len(q) - 1
    BY <1>2, <1>3, <1>5, <1>7
  <2> QED  BY <1>3, <1>8, <2>1
<1>10. PathValue(q, y) = q[j + 1]
  BY <1>3, <1>9, PathValueOf
<1> QED  BY <1>3, <1>9, <1>10

-----------------------------------------------------------------------------
(* The values on the path of a node are values of their variables.         *)
InDomain(p) == \A i \in 1 .. Len(p) : i % 2 = 0 => p[i] \in Values(p[i - 1])

IsSearchPath(p) == IsNodePath(p) /\ InDomain(p)

(* The optima of the children S of the variable of p, the optimum at p,    *)
(* and the label on the arc to the AND node p.                             *)
Below(P, p, S) == Product([y \in S |-> P.opt[y][PathRestriction(p, Ctx[y])]])
Exact(P, p)    == IF IsOR(p) THEN ExactOR(P, p) ELSE ExactAND(P, p)
LabelOn(P, p)  == P.label[Var(p)][PathRestriction(p, Ctx[Var(p)] \cup {Var(p)})]

(* Some variables that have values on a path, with these values. *)
LEMMA PathAssignment ==
  ASSUME NEW p, IsSearchPath(p), NEW S,
         \A y \in S : \E j \in 1 .. Len(p) - 1 : j % 2 = 1 /\ p[j] = y
  PROVE  /\ PathRestriction(p, S) \in Assignments(S)
         /\ \A j \in 1 .. Len(p) - 1 : j % 2 = 1 => PathValue(p, p[j]) = p[j + 1]
<1>1. Len(p) \in Nat /\ IsNodePath(p)
  BY ParentPath DEF IsSearchPath, IsNodePath
<1>2. \A j \in 1 .. Len(p) - 1 : j % 2 = 1 => PathValue(p, p[j]) = p[j + 1]
  BY <1>1, PathValueOf
<1>3. ASSUME NEW y \in S PROVE PathValue(p, y) \in Values(y)
  <2>1. PICK j \in 1 .. Len(p) - 1 : j % 2 = 1 /\ p[j] = y
    OBVIOUS
  <2>2. j + 1 \in 1 .. Len(p) /\ (j + 1) % 2 = 0 /\ (j + 1) - 1 = j
    BY <1>1, <2>1
  <2>3. p[j + 1] \in Values(p[j])
    BY <2>2 DEF IsSearchPath, InDomain
  <2> QED  BY <1>2, <2>1, <2>3
<1> DEFINE c == [y \in S |-> PathValue(p, y)]
<1>4. c \in [S -> UNION {Values(y) : y \in S}]
  BY <1>3
<1>5. c \in Assignments(S)
  BY <1>3, <1>4 DEF Assignments
<1> QED  BY <1>2, <1>5 DEF PathRestriction

(* The context of an OR node, on its own path and on its parent's.         *)
LEMMA ContextOfOR ==
  ASSUME NEW P \in Problems, NEW q, IsSearchPath(q), IsOR(q)
  PROVE  /\ PathRestriction(q, Ctx[Var(q)]) \in Assignments(Ctx[Var(q)])
         /\ Exact(P, q) = ExactOR(P, q) /\ ExactOR(P, q) \in Known
         /\ \A p : IsNodePath(p) /\ Len(q) = Len(p) + 1 /\ Parent(q) = p =>
              \A S \in SUBSET Ctx[Var(q)] : PathRestriction(q, S) = PathRestriction(p, S)
<1> DEFINE x == Var(q)
<1>1. /\ IsNodePath(q) /\ Len(q) \in Nat /\ x \in Vars
      /\ \A y \in Ctx[x] : \E j \in 1 .. Len(q) - 2 :
            j % 2 = 1 /\ q[j] = y /\ PathValue(q, y) = q[j + 1]
  BY ContextPlaces DEF IsSearchPath
<1> HIDE DEF x
<1>2. \A y \in Ctx[x] : \E j \in 1 .. Len(q) - 1 : j % 2 = 1 /\ q[j] = y
  BY <1>1
<1>3. PathRestriction(q, Ctx[x]) \in Assignments(Ctx[x])
  BY <1>2, PathAssignment
<1>4. P.opt[x][PathRestriction(q, Ctx[x])] \in Known
  BY <1>1, <1>3, ProblemAssumption
<1>5. ASSUME NEW p, IsNodePath(p), Len(q) = Len(p) + 1, Parent(q) = p,
             NEW S \in SUBSET Ctx[x]
      PROVE  PathRestriction(q, S) = PathRestriction(p, S)
  <2>1. q \in Path /\ \A i \in 1 .. Len(q) - 1 : p[i] = q[i]
    BY <1>1, <1>5, ParentElements DEF IsNodePath
  <2>2. ASSUME NEW y \in S PROVE PathValue(q, y) = PathValue(p, y)
    <3>1. PICK j \in 1 .. Len(q) - 2 : j % 2 = 1 /\ q[j] = y /\ PathValue(q, y) = q[j + 1]
      BY <1>1
    <3>2. /\ j \in 1 .. Len(p) - 1 /\ j \in 1 .. Len(q) - 1 /\ j + 1 \in 1 .. Len(q) - 1
      BY <1>1, <1>5, <3>1 DEF IsNodePath
    <3>3. PathValue(p, p[j]) = p[j + 1]
      BY <1>5, <3>1, <3>2, PathValueOf
    <3> QED  BY <2>1, <3>1, <3>2, <3>3
  <2> QED  BY <2>2 DEF PathRestriction
<1> QED  BY <1>3, <1>4, <1>5 DEF x, Exact, ExactOR

(* A child of an AND node.                                                 *)
LEMMA KidOfAND ==
  ASSUME NEW P \in Problems, NEW p, IsSearchPath(p), IsAND(p),
         NEW q, IsSearchPath(q), Len(q) = Len(p) + 1, Parent(q) = p
  PROVE  /\ IsOR(q) /\ Var(q) \in ChildSet(Var(p)) /\ q = Append(p, Var(q))
         /\ Exact(P, q) = P.opt[Var(q)][PathRestriction(p, Ctx[Var(q)])]
         /\ Exact(P, q) \in Known
<1>1. /\ IsNodePath(p) /\ IsNodePath(q) /\ Len(p) \in Nat /\ Len(p) % 2 = 0 /\ Len(p) > 0
      /\ p \in Path /\ q \in Path
  BY NodeVariable DEF IsSearchPath, IsAND
<1>2. Len(q) % 2 = 1 /\ Len(q) >= 3
  BY <1>1
<1>3. IsOR(q) /\ Var(q) = q[Len(q)]
  BY <1>2 DEF IsOR, Var
<1>4. Var(p) = p[Len(p) - 1]
  BY <1>1 DEF IsOR, Var
<1>5. \A i \in 1 .. Len(q) - 1 : p[i] = q[i]
  BY <1>1, <1>2, ParentElements
<1>6. Var(q) \in ChildSet(Var(p))
  <2> DEFINE i == Len(q) - 2
  <2>1. i \in 1 .. Len(q) - 2 /\ i % 2 = 1 /\ i + 2 = Len(q) /\ i = Len(p) - 1
    BY <1>1, <1>2
  <2>2. i \in 1 .. Len(q) - 1
    BY <1>2, <2>1
  <2> HIDE DEF i
  <2>3. q[i + 2] \in ChildSet(q[i])
    BY <1>1, <2>1 DEF IsNodePath
  <2> QED  BY <1>3, <1>4, <1>5, <2>1, <2>2, <2>3
<1>7. q = Append(p, Var(q))
  <2>1. Var(q) \in Element
    BY <1>1, NodeVariable DEF Element
  <2> DEFINE r == Append(p, Var(q))
  <2>2. /\ r \in Path /\ Len(r) = Len(p) + 1 /\ r[Len(p) + 1] = Var(q)
        /\ \A i \in 1 .. Len(p) : r[i] = p[i]
    BY <1>1, <2>1, AppendPath
  <2> HIDE DEF r
  <2>3. \A i \in 1 .. Len(q) : r[i] = q[i]
    BY <1>1, <1>3, <1>5, <2>2
  <2>4. r = q
    <3>1. r \in Seq(Element) /\ q \in Seq(Element) /\ Len(r) = Len(q)
      BY <1>1, <2>2 DEF Path, Element
    <3> QED  BY <2>3, <3>1, SeqEqual
  <2> QED  BY <2>4 DEF r
<1>8. Exact(P, q) = ExactOR(P, q) /\ ExactOR(P, q) \in Known
  BY <1>3, ContextOfOR
<1>9. PathRestriction(q, Ctx[Var(q)]) = PathRestriction(p, Ctx[Var(q)])
  BY <1>1, <1>3, ContextOfOR
<1> QED  BY <1>3, <1>6, <1>7, <1>8, <1>9 DEF ExactOR

(* Where the contexts of the children of an AND node are on its path.      *)
LEMMA ContextsOfKids ==
  ASSUME NEW P \in Problems, NEW p, IsSearchPath(p), IsAND(p)
  PROVE  /\ IsFiniteSet(ChildSet(Var(p))) /\ ChildSet(Var(p)) \subseteq Vars
         /\ \A y \in ChildSet(Var(p)) : /\ IsSearchPath(Append(p, y))
                                        /\ Len(Append(p, y)) = Len(p) + 1
                                        /\ Parent(Append(p, y)) = p
                                        /\ Var(Append(p, y)) = y
                                        /\ P.opt[y][PathRestriction(p, Ctx[y])] \in Known
         /\ \A S \in SUBSET ChildSet(Var(p)) : Below(P, p, S) \in Known
<1>1. IsNodePath(p) /\ Len(p) \in Nat /\ Len(p) % 2 = 0 /\ Len(p) > 0 /\ Var(p) \in Vars
  BY NodeVariable DEF IsSearchPath, IsAND
<1>2. ChildSet(Var(p)) \subseteq Vars
  BY <1>1, FiniteOrChildren
<1>3. IsFiniteSet(ChildSet(Var(p)))
  <2> DEFINE c == PtChildren[Var(p)]
  <2>1. c \in Seq(Vars) /\ Len(c) \in Nat /\ DOMAIN c = 1 .. Len(c)
    BY <1>1, ModelAssumption, LenProperties
  <2>2. IsFiniteSet(DOMAIN c)
    <3>1. PICK n \in Nat : n = Len(c)
      BY <2>1
    <3>2. IsFiniteSet(1 .. n)
      BY FS_Interval
    <3> QED  BY <2>1, <3>1, <3>2
  <2> DEFINE f == [i \in DOMAIN c |-> c[i]]
  <2>3. f \in Surjection(DOMAIN c, ChildSet(Var(p)))
    BY DEF Surjection, ChildSet
  <2> HIDE DEF f, c
  <2> QED  BY <2>2, <2>3, FS_Surjection
<1>4. ASSUME NEW y \in ChildSet(Var(p))
      PROVE  /\ IsSearchPath(Append(p, y)) /\ Len(Append(p, y)) = Len(p) + 1
             /\ Parent(Append(p, y)) = p /\ Var(Append(p, y)) = y
             /\ P.opt[y][PathRestriction(p, Ctx[y])] \in Known
  <2> DEFINE q == Append(p, y)
  <2>1. /\ IsNodePath(q) /\ Len(q) = Len(p) + 1 /\ Parent(q) = p
        /\ q[Len(p) + 1] = y /\ \A i \in 1 .. Len(p) : q[i] = p[i]
    BY <1>1, ChildPath
  <2> HIDE DEF q
  <2>2. (Len(p) + 1) % 2 = 1
    BY <1>1
  <2>3. InDomain(q)
    <3> SUFFICES ASSUME NEW i \in 1 .. Len(q), i % 2 = 0 PROVE q[i] \in Values(q[i - 1])
      BY DEF InDomain
    <3>1. i # Len(p) + 1
      BY <2>2
    <3>2. i \in 1 .. Len(p) /\ i - 1 \in 1 .. Len(p)
      BY <1>1, <2>1, <3>1
    <3>3. p[i] \in Values(p[i - 1])
      BY <3>2 DEF IsSearchPath, InDomain
    <3> QED  BY <2>1, <3>2, <3>3
  <2>4. IsSearchPath(q)
    BY <2>1, <2>3 DEF IsSearchPath
  <2>5. Var(q) = y
    BY <2>1, <2>2 DEF Var, IsOR
  <2>6. Exact(P, q) = P.opt[y][PathRestriction(p, Ctx[y])] /\ Exact(P, q) \in Known
    BY <2>1, <2>4, <2>5, KidOfAND
  <2> QED  BY <2>1, <2>4, <2>5, <2>6 DEF q
<1>5. ASSUME NEW S \in SUBSET ChildSet(Var(p)) PROVE Below(P, p, S) \in Known
  <2> DEFINE f == [y \in S |-> P.opt[y][PathRestriction(p, Ctx[y])]]
  <2>1. IsFiniteSet(S) /\ f \in [S -> Known]
    BY <1>3, <1>4, FS_Subset
  <2> HIDE DEF f
  <2>2. Product(f) \in Known
    BY <2>1, ProductKnown
  <2> QED  BY <2>2 DEF Below, f
<1> QED  BY <1>2, <1>3, <1>4, <1>5

(* The child of an OR node by a value of its variable.                     *)
LEMMA ChildOfOR ==
  ASSUME NEW p, IsSearchPath(p), IsOR(p), NEW v \in Values(Var(p))
  PROVE  LET q == Append(p, v)
         IN  /\ IsSearchPath(q) /\ IsAND(q) /\ Var(q) = Var(p) /\ Val(q) = v
             /\ Len(q) = Len(p) + 1 /\ Parent(q) = p
<1> DEFINE q == Append(p, v)
<1>1. /\ IsNodePath(p) /\ Len(p) \in Nat /\ Len(p) % 2 = 1 /\ Len(p) > 0 /\ ~IsAND(p)
      /\ Var(p) \in Vars /\ Var(p) = p[Len(p)]
  <2>1. IsNodePath(p)
    BY DEF IsSearchPath
  <2>2. /\ Len(p) \in Nat /\ Len(p) % 2 = 1 /\ Var(p) = p[Len(p)] /\ Var(p) \in Vars
        /\ ~IsAND(p)
    BY <2>1, ContextPlaces, NodeVariable
  <2>3. Len(p) > 0
    BY <2>1, <2>2 DEF IsNodePath
  <2> QED  BY <2>1, <2>2, <2>3
<1>2. v \in Int
  BY <1>1, FiniteAndChildren
<1>3. /\ IsNodePath(q) /\ Len(q) = Len(p) + 1 /\ Parent(q) = p
      /\ q[Len(p) + 1] = v /\ \A i \in 1 .. Len(p) : q[i] = p[i]
  BY <1>1, <1>2, ChildPath
<1> HIDE DEF q
<1>4. Len(q) % 2 = 0 /\ Len(q) > 0
  BY <1>1, <1>3
<1>5. Var(q) = Var(p) /\ Val(q) = v /\ IsAND(q)
  BY <1>1, <1>3, <1>4 DEF Var, Val, IsOR, IsAND
<1>6. InDomain(q)
  <2> SUFFICES ASSUME NEW i \in 1 .. Len(q), i % 2 = 0 PROVE q[i] \in Values(q[i - 1])
    BY DEF InDomain
  <2>1. CASE i = Len(p) + 1
    <3>1. i - 1 = Len(p) /\ i - 1 \in 1 .. Len(p)
      BY <1>1, <2>1
    <3> QED  BY <1>1, <1>3, <2>1, <3>1
  <2>2. CASE i # Len(p) + 1
    <3>1. i \in 1 .. Len(p) /\ i - 1 \in 1 .. Len(p)
      BY <1>1, <1>3, <2>2
    <3>2. p[i] \in Values(p[i - 1])
      BY <3>1 DEF IsSearchPath, InDomain
    <3> QED  BY <1>3, <3>1, <3>2
  <2> QED  BY <2>1, <2>2
<1> QED  BY <1>3, <1>5, <1>6 DEF IsSearchPath, q

(* What the path of an AND node assigns to its variable and the context of *)
(* the variable.                                                           *)
LEMMA ContextOfAND ==
  ASSUME NEW P \in Problems, NEW q, IsSearchPath(q), IsAND(q)
  PROVE  LET p == Parent(q)
             x == Var(q)
         IN  /\ IsSearchPath(p) /\ IsOR(p) /\ Var(p) = x /\ Val(q) \in Values(x)
             /\ Len(q) = Len(p) + 1 /\ x \in Vars
             /\ PathRestriction(q, Ctx[x] \cup {x}) = With(x, PathRestriction(p, Ctx[x]), Val(q))
             /\ PathRestriction(q, Ctx[x] \cup {x}) \in Assignments(Ctx[x] \cup {x})
             /\ LabelOn(P, q) \in Known
<1> DEFINE p == Parent(q)
           x == Var(q)
<1>1. /\ IsNodePath(q) /\ q \in Path /\ Len(q) \in Nat /\ Len(q) % 2 = 0 /\ Len(q) >= 2
      /\ x \in Vars /\ x = q[Len(q) - 1] /\ Val(q) = q[Len(q)]
  BY NodeVariable DEF IsSearchPath, IsAND, IsNodePath, Var, IsOR, Val
<1>2. /\ p \in Path /\ Len(p) = Len(q) - 1 /\ \A i \in 1 .. Len(q) - 1 : p[i] = q[i]
  BY <1>1, ParentPath, ParentElements
<1> HIDE DEF p, x
<1>3. IsNodePath(p)
  <2>1. p \in Path /\ Len(p) >= 1 /\ p[1] = Root
    BY <1>1, <1>2 DEF IsNodePath
  <2>2. \A i \in 1 .. Len(p) : IF i % 2 = 1 THEN p[i] \in Vars ELSE p[i] \in Int
    BY <1>1, <1>2 DEF IsNodePath
  <2>3. ASSUME NEW i \in 1 .. Len(p) - 2, i % 2 = 1 PROVE p[i + 2] \in ChildSet(p[i])
    <3>1. i \in 1 .. Len(q) - 2 /\ i \in 1 .. Len(q) - 1 /\ i + 2 \in 1 .. Len(q) - 1
      BY <1>1, <1>2
    <3> QED  BY <1>1, <1>2, <2>3, <3>1 DEF IsNodePath
  <2> QED  BY <2>1, <2>2, <2>3 DEF IsNodePath
<1>4. InDomain(p)
  <2>1. ASSUME NEW i \in 1 .. Len(p), i % 2 = 0 PROVE p[i] \in Values(p[i - 1])
    <3>1. i \in 1 .. Len(q) - 1 /\ i - 1 \in 1 .. Len(q) - 1 /\ i \in 1 .. Len(q)
      <4>1. i \in Nat /\ i >= 1 /\ i <= Len(q) - 1
        BY <1>1, <1>2
      <4>2. i # 1
        BY <2>1
      <4> QED  BY <1>1, <4>1, <4>2
    <3>2. q[i] \in Values(q[i - 1])
      BY <2>1, <3>1 DEF IsSearchPath, InDomain
    <3> QED  BY <1>2, <3>1, <3>2
  <2> QED  BY <2>1 DEF InDomain
<1>5. IsOR(p) /\ Len(p) % 2 = 1
  BY <1>1, <1>2 DEF IsOR
<1>6. Var(p) = x
  BY <1>1, <1>2, <1>5 DEF Var
<1>7. Val(q) \in Values(x)
  <2>1. q[Len(q)] \in Values(q[Len(q) - 1])
    BY <1>1 DEF IsSearchPath, InDomain
  <2> QED  BY <1>1, <2>1
<1>8. \A y \in Ctx[x] : \E j \in 1 .. Len(p) - 2 :
         j % 2 = 1 /\ p[j] = y /\ PathValue(p, y) = p[j + 1]
  BY <1>3, <1>5, <1>6, ContextPlaces
<1>9. PathValue(q, x) = Val(q)
  <2>1. Len(q) - 1 \in 1 .. Len(q) - 1 /\ (Len(q) - 1) % 2 = 1 /\ (Len(q) - 1) + 1 = Len(q)
    BY <1>1
  <2> QED  BY <1>1, <2>1, PathValueOf
<1>10. ASSUME NEW y \in Ctx[x] PROVE PathValue(q, y) = PathValue(p, y)
  <2>1. PICK j \in 1 .. Len(p) - 2 : j % 2 = 1 /\ p[j] = y /\ PathValue(p, y) = p[j + 1]
    BY <1>8
  <2>2. j \in 1 .. Len(q) - 1 /\ j + 1 \in 1 .. Len(q) - 1
    BY <1>1, <1>2, <2>1
  <2>3. PathValue(q, q[j]) = q[j + 1]
    BY <1>1, <2>1, <2>2, PathValueOf
  <2> QED  BY <1>2, <2>1, <2>2, <2>3
<1>11. PathRestriction(q, Ctx[x] \cup {x}) = With(x, PathRestriction(p, Ctx[x]), Val(q))
  <2>1. ASSUME NEW y \in Ctx[x] \cup {x}
        PROVE  PathValue(q, y) = IF y = x THEN Val(q) ELSE PathRestriction(p, Ctx[x])[y]
    BY <1>9, <1>10 DEF PathRestriction
  <2> QED  BY <2>1 DEF With, PathRestriction
<1>12. PathRestriction(q, Ctx[x] \cup {x}) \in Assignments(Ctx[x] \cup {x})
  <2>1. ASSUME NEW y \in Ctx[x] \cup {x}
        PROVE  \E j \in 1 .. Len(q) - 1 : j % 2 = 1 /\ q[j] = y
    <3>1. CASE y = x
      <4>1. Len(q) - 1 \in 1 .. Len(q) - 1 /\ (Len(q) - 1) % 2 = 1
        BY <1>1
      <4> QED  BY <1>1, <3>1, <4>1
    <3>2. CASE y \in Ctx[x]
      <4>1. PICK j \in 1 .. Len(p) - 2 : j % 2 = 1 /\ p[j] = y
        BY <1>8, <3>2
      <4>2. j \in 1 .. Len(q) - 1
        BY <1>1, <1>2, <4>1
      <4> QED  BY <1>2, <4>1, <4>2
    <3> QED  BY <3>1, <3>2
  <2> QED  BY <2>1, PathAssignment
<1>13. LabelOn(P, q) \in Known
  BY <1>1, <1>12, ProblemAssumption DEF LabelOn, x
<1> QED  BY <1>1, <1>2, <1>3, <1>4, <1>5, <1>6, <1>7, <1>11, <1>12, <1>13
         DEF IsSearchPath, p, x

(* The optimum at an OR node is the best of what its values give.          *)
LEMMA OptimumOfValues ==
  ASSUME NEW P \in Problems, NEW p, IsSearchPath(p), IsOR(p)
  PROVE  LET f == [v \in Values(Var(p)) |->
                     Times(Exact(P, Append(p, v)), LabelOn(P, Append(p, v)))]
         IN  /\ f \in [Values(Var(p)) -> Known] /\ IsFiniteSet(Values(Var(p)))
             /\ Exact(P, p) = Maximum(f) /\ Exact(P, p) \in Known
<1> DEFINE x == Var(p)
           c == PathRestriction(p, Ctx[x])
           term(v) == Times(P.label[x][With(x, c, v)],
                            Product([y \in ChildSet(x) |->
                              P.opt[y][Restriction(With(x, c, v), Ctx[y])]]))
<1>3. x \in Vars
  BY NodeVariable DEF IsSearchPath
<1>4. Exact(P, p) = P.opt[x][c] /\ c \in Assignments(Ctx[x]) /\ Exact(P, p) \in Known
  BY ContextOfOR DEF ExactOR
<1>5. ASSUME NEW v \in Values(x)
      PROVE  term(v) = Times(Exact(P, Append(p, v)), LabelOn(P, Append(p, v))) /\ term(v) \in Known
  <2> DEFINE r == Append(p, v)
  <2>1. IsSearchPath(r) /\ IsAND(r) /\ Var(r) = x /\ Val(r) = v /\ Parent(r) = p
    BY ChildOfOR
  <2>2. /\ PathRestriction(r, Ctx[x] \cup {x}) = With(x, c, v)
        /\ LabelOn(P, r) \in Known
    BY <2>1, ContextOfAND
  <2>3. LabelOn(P, r) = P.label[x][With(x, c, v)]
    BY <2>1, <2>2 DEF LabelOn
  <2> HIDE DEF c, r
  <2>4. ~IsOR(r) /\ Exact(P, r) = Below(P, r, ChildSet(x)) /\ Exact(P, r) \in Known
    BY <2>1, NodeVariable, ContextsOfKids DEF IsSearchPath, Exact, ExactAND, Below
  <2>5. ASSUME NEW y \in ChildSet(x)
        PROVE  Restriction(With(x, c, v), Ctx[y]) = PathRestriction(r, Ctx[y])
    <3>1. Ctx[y] \subseteq Ctx[x] \cup {x}
      BY <1>3, ParentOfChild, PseudotreeAssumption
    <3>2. \A z \in Ctx[y] : PathValue(r, z) = With(x, c, v)[z]
      BY <2>2, <3>1 DEF PathRestriction
    <3> QED  BY <3>2 DEF Restriction, PathRestriction
  <2>6. Product([y \in ChildSet(x) |-> P.opt[y][Restriction(With(x, c, v), Ctx[y])]])
          = Exact(P, r)
    BY <2>4, <2>5 DEF Below
  <2>7. term(v) = Times(LabelOn(P, r), Exact(P, r))
    BY <2>3, <2>6
  <2> HIDE DEF term
  <2>8. term(v) = Times(Exact(P, r), LabelOn(P, r)) /\ term(v) \in Known
    BY <2>2, <2>4, <2>7, TimesLaws
  <2> QED  BY <2>8 DEF r
<1> DEFINE f == [v \in Values(x) |-> term(v)]
           g == [v \in Values(x) |-> Times(Exact(P, Append(p, v)), LabelOn(P, Append(p, v)))]
<1> HIDE DEF c
<1>6. P.opt[x][c] = Maximum(f)
  BY <1>3, <1>4, ProblemAssumption
<1>7. IsFiniteSet(Values(x))
  <2>1. Dom[x] - 1 \in Int
    BY <1>3, ModelAssumption
  <2> QED  BY <2>1, FS_Interval DEF Values
<1>8. f = g /\ g \in [Values(x) -> Known]
  <2> HIDE DEF term
  <2> QED  BY <1>5
<1> HIDE DEF f
<1> QED  BY <1>4, <1>6, <1>7, <1>8 DEF g

(* ... so one of its values gives it, unless there is no solution at all.  *)
LEMMA OptimumAttained ==
  ASSUME NEW P \in Problems, NEW p, IsSearchPath(p), IsOR(p), Exact(P, p) # ELEM_ZERO
  PROVE  \E v \in Values(Var(p)) :
           Times(Exact(P, Append(p, v)), LabelOn(P, Append(p, v))) = Exact(P, p)
<1> DEFINE f == [v \in Values(Var(p)) |->
                   Times(Exact(P, Append(p, v)), LabelOn(P, Append(p, v)))]
<1>1. /\ f \in [Values(Var(p)) -> Known] /\ IsFiniteSet(Values(Var(p)))
      /\ Exact(P, p) = Maximum(f)
  BY OptimumOfValues
<1>2. \A v \in Values(Var(p)) :
        f[v] = Times(Exact(P, Append(p, v)), LabelOn(P, Append(p, v)))
  OBVIOUS
<1> HIDE DEF f
<1>3. \E v \in Values(Var(p)) : Maximum(f) = f[v]
  BY <1>1, MaximumOf
<1> QED  BY <1>1, <1>2, <1>3

(* The optimum at an OR node is not below what any of its values gives.    *)
LEMMA OptimumOfOR ==
  ASSUME NEW P \in Problems, NEW q, IsSearchPath(q), IsAND(q)
  PROVE  /\ Exact(P, q) = Below(P, q, ChildSet(Var(q))) /\ Exact(P, q) \in Known
         /\ ~Greater(Times(Exact(P, q), LabelOn(P, q)), Exact(P, Parent(q)))
         /\ Exact(P, Parent(q)) \in Known
<1> DEFINE p == Parent(q)
           x == Var(q)
           f == [v \in Values(x) |-> Times(Exact(P, Append(p, v)), LabelOn(P, Append(p, v)))]
<1>1. ~IsOR(q) /\ Exact(P, q) = Below(P, q, ChildSet(x))
  BY NodeVariable DEF IsSearchPath, Exact, ExactAND, Below
<1>2. Exact(P, q) \in Known
  BY <1>1, ContextsOfKids
<1>3. /\ IsSearchPath(p) /\ IsOR(p) /\ Var(p) = x /\ Val(q) \in Values(x)
      /\ Len(q) = Len(p) + 1
  BY ContextOfAND
<1>4. /\ f \in [Values(x) -> Known] /\ IsFiniteSet(Values(x))
      /\ Exact(P, p) = Maximum(f) /\ Exact(P, p) \in Known
  BY <1>3, OptimumOfValues
<1>5. q = Append(p, Val(q))
  <2> DEFINE r == Append(p, Val(q))
  <2>1. IsSearchPath(q) /\ q \in Path /\ Len(q) >= 1 /\ Val(q) = q[Len(q)]
    BY DEF IsSearchPath, IsNodePath, Val
  <2>2. p \in Path /\ Len(p) \in Nat /\ \A i \in 1 .. Len(q) - 1 : p[i] = q[i]
    BY <2>1, ParentPath, ParentElements
  <2>3. Val(q) \in Element
    BY NodeVariable DEF IsSearchPath, Element
  <2> HIDE DEF p
  <2>4. /\ r \in Path /\ Len(r) = Len(p) + 1 /\ r[Len(p) + 1] = Val(q)
        /\ \A i \in 1 .. Len(p) : r[i] = p[i]
    BY <2>2, <2>3, AppendPath
  <2> HIDE DEF r
  <2>5. Len(r) = Len(q) /\ \A i \in 1 .. Len(q) : r[i] = q[i]
    BY <1>3, <2>1, <2>2, <2>4
  <2>6. r = q
    <3>1. r \in Seq(Element) /\ q \in Seq(Element)
      BY <2>1, <2>4 DEF Path, Element
    <3> QED  BY <2>5, <3>1, SeqEqual
  <2> QED  BY <2>6 DEF r
<1> HIDE DEF p
<1>6. f[Val(q)] = Times(Exact(P, q), LabelOn(P, q))
  BY <1>3, <1>5
<1> HIDE DEF f
<1>7. ~Greater(f[Val(q)], Maximum(f))
  BY <1>3, <1>4, MaximumOf
<1> QED  BY <1>1, <1>2, <1>4, <1>6, <1>7 DEF p

-----------------------------------------------------------------------------
OrFields  == {"value", "heur", "heurCache", "notOpt", "cachable", "pruned", "context"}
AndFields == {"value", "heur", "label", "subSolved", "notOpt", "pruned"}

(* What a node holds: a value that is at most the optimum of its           *)
(* subproblem, the labels of its own path, and the context of that path.   *)
NodeOK(P, p, nd) ==
  /\ nd.value \in Cost /\ ~Greater(nd.value, Exact(P, p))
  /\ IF IsOR(p)
     THEN /\ DOMAIN nd = OrFields
          /\ \A v \in Values(Var(p)) : nd.heurCache[v].label = LabelOn(P, Append(p, v))
          /\ nd.cachable => nd.context = PathRestriction(p, CacheCtx(Var(p)))
     ELSE /\ DOMAIN nd = AndFields
          /\ nd.label = LabelOn(P, p) /\ nd.subSolved \in Cost

KidVars(K) == {Var(q) : q \in K}

(* An AND node has the children K left: the product s of the values of the *)
(* children solved and erased is at most that of their optima.             *)
RestOK(P, p, s, K) ==
  ~Greater(s, Below(P, p, ChildSet(Var(p)) \ KidVars(K)))

KidPaths(p, K) == \A q \in K : IsSearchPath(q) /\ Len(q) = Len(p) + 1 /\ Parent(q) = p

(* The labels computed when an OR node is made are those of its path, if   *)
(* the assignment holds the values of its context.                         *)
LEMMA NewORFits ==
  ASSUME prob \in Problems, NEW q, IsSearchPath(q), IsOR(q),
         NEW x, x = Var(q),
         NEW asg \in [Vars -> Int], \A y \in Ctx[x] : asg[y] = PathValue(q, y),
         NEW k \in Cost, ~Greater(k, Exact(prob, q))
  PROVE  /\ NodeOK(prob, q, [NewOR(x, asg) EXCEPT !.value = k])
         /\ NodeOK(prob, q, NewOR(x, asg))
<1>1. x \in Vars
  BY NodeVariable DEF IsSearchPath
<1>2. ASSUME NEW v \in Values(x)
      PROVE  HeurCache(x, asg)[v].label = LabelOn(prob, Append(q, v))
  <2> DEFINE r == Append(q, v)
             av == [asg EXCEPT ![x] = v]
  <2>1. IsSearchPath(r) /\ IsAND(r) /\ Var(r) = x /\ Val(r) = v /\ Parent(r) = q
    BY ChildOfOR
  <2>2. PathRestriction(r, Ctx[x] \cup {x}) = With(x, PathRestriction(q, Ctx[x]), v)
    BY <2>1, ContextOfAND
  <2> HIDE DEF r
  <2>3. HeurCache(x, asg)[v].label = Label(prob, x, av)
    BY DEF HeurCache
  <2>4. ASSUME NEW y \in Ctx[x] \cup {x}
        PROVE  av[y] = With(x, PathRestriction(q, Ctx[x]), v)[y]
    <3>1. y \in Vars
      BY <1>1, ModelAssumption
    <3> QED  BY <1>1, <3>1 DEF With, PathRestriction
  <2>5. Restriction(av, Ctx[x] \cup {x}) = With(x, PathRestriction(q, Ctx[x]), v)
    BY <2>4 DEF Restriction, With
  <2>6. Label(prob, x, av) = LabelOn(prob, r)
    BY <2>1, <2>2, <2>5 DEF Label, LabelOn
  <2> QED  BY <2>3, <2>6 DEF r
<1>3. ELEM_NAN \in Cost /\ ~Greater(ELEM_NAN, Exact(prob, q))
  BY ContextOfOR, NeverGreater, TimesLaws
<1> DEFINE nd == NewOR(x, asg)
<1>4. /\ DOMAIN nd = OrFields /\ nd.value = ELEM_NAN /\ nd.cachable = FALSE
      /\ nd.heurCache = HeurCache(x, asg)
  BY DEF NewOR, OrFields
<1>5. NodeOK(prob, q, nd)
  <2> HIDE DEF nd
  <2> QED  BY <1>2, <1>3, <1>4 DEF NodeOK
<1>6. NodeOK(prob, q, [nd EXCEPT !.value = k])
  <2> HIDE DEF nd
  <2>1. /\ DOMAIN [nd EXCEPT !.value = k] = OrFields
        /\ [nd EXCEPT !.value = k].value = k
        /\ [nd EXCEPT !.value = k].cachable = FALSE
        /\ [nd EXCEPT !.value = k].heurCache = HeurCache(x, asg)
    BY <1>4 DEF OrFields
  <2> QED  BY <1>2, <2>1 DEF NodeOK
<1> QED  BY <1>5, <1>6

(* An AND node made from the costs that its parent holds for its value.    *)
LEMMA NewANDFits ==
  ASSUME prob \in Problems, NEW p, IsSearchPath(p), IsOR(p),
         NodeOK(prob, p, node[p]), NEW v \in Values(Var(p))
  PROVE  LET nd == NewAND(node[p].heurCache[v])
         IN  NodeOK(prob, Append(p, v), nd) /\ nd.subSolved = ELEM_ONE
<1> DEFINE q == Append(p, v)
           nd == NewAND(node[p].heurCache[v])
<1>1. IsSearchPath(q) /\ IsAND(q) /\ ~IsOR(q)
  BY ChildOfOR, NodeVariable DEF IsSearchPath
<1>2. node[p].heurCache[v].label = LabelOn(prob, q)
  BY DEF NodeOK
<1>3. /\ DOMAIN nd = AndFields /\ nd.value = ELEM_NAN /\ nd.subSolved = ELEM_ONE
      /\ nd.label = node[p].heurCache[v].label
  BY DEF NewAND, AndFields
<1> HIDE DEF q, nd
<1>4. ELEM_NAN \in Cost /\ ELEM_ONE \in Cost /\ ~Greater(ELEM_NAN, Exact(prob, q))
  BY <1>1, OptimumOfOR, NeverGreater, TimesLaws
<1> QED  BY <1>1, <1>2, <1>3, <1>4 DEF NodeOK, q, nd

(* No children are solved for the cost one.                                *)
LEMMA BelowNothing == \A P, p : Below(P, p, {}) = ELEM_ONE
<1> SUFFICES ASSUME NEW P, NEW p PROVE Below(P, p, {}) = ELEM_ONE
  OBVIOUS
<1>1. [y \in {} |-> P.opt[y][PathRestriction(p, Ctx[y])]] = [y \in {} |-> ELEM_ONE]
  OBVIOUS
<1> QED  BY <1>1, NoFactors DEF Below

(* What propagate computes for an OR node from one of its children.        *)
LEMMA ValueAtOR ==
  ASSUME NEW P \in Problems, NEW q, IsSearchPath(q), IsAND(q), NEW nd, NodeOK(P, q, nd)
  PROVE  /\ Times(nd.value, nd.label) \in Cost
         /\ ~Greater(Times(nd.value, nd.label), Exact(P, Parent(q)))
<1>1. ~IsOR(q)
  BY NodeVariable DEF IsSearchPath
<1>2. nd.value \in Cost /\ ~Greater(nd.value, Exact(P, q)) /\ nd.label = LabelOn(P, q)
  BY <1>1 DEF NodeOK
<1>3. LabelOn(P, q) \in Known
  BY ContextOfAND
<1>4. /\ Exact(P, q) \in Known /\ Exact(P, Parent(q)) \in Known
      /\ ~Greater(Times(Exact(P, q), LabelOn(P, q)), Exact(P, Parent(q)))
  BY OptimumOfOR
<1> DEFINE l == LabelOn(P, q)
           a == Exact(P, q)
           b == Exact(P, Parent(q))
<1> HIDE DEF l, a, b
<1>5. l \in Cost /\ ~Greater(l, l)
  BY <1>3, NeverGreater, TimesLaws DEF l
<1>6. Times(nd.value, l) \in Cost /\ Times(a, l) \in Known
  BY <1>2, <1>3, <1>4, <1>5, TimesLaws DEF l, a
<1>7. ~Greater(Times(nd.value, l), Times(a, l))
  BY <1>2, <1>3, <1>4, <1>5, TimesBelow DEF l, a
<1>8. ~Greater(Times(nd.value, l), b)
  BY <1>4, <1>6, <1>7, AtMostTransitive DEF l, a, b
<1> QED  BY <1>2, <1>6, <1>8 DEF l, b

(* The children K that an AND node has left, and their variables.          *)
LEMMA KidsLeft ==
  ASSUME NEW P \in Problems, NEW p, IsSearchPath(p), IsAND(p), NEW K, KidPaths(p, K)
  PROVE  /\ KidVars(K) \subseteq ChildSet(Var(p)) /\ IsFiniteSet(KidVars(K)) /\ IsFiniteSet(K)
         /\ \A q, r \in K : Var(q) = Var(r) => q = r
         /\ \A q \in K : /\ Exact(P, q) = P.opt[Var(q)][PathRestriction(p, Ctx[Var(q)])]
                         /\ Exact(P, q) \in Known
<1> DEFINE T == {Var(q) : q \in K}
<1>1. \A q \in K : /\ Var(q) \in ChildSet(Var(p)) /\ q = Append(p, Var(q))
                   /\ Exact(P, q) = P.opt[Var(q)][PathRestriction(p, Ctx[Var(q)])]
                   /\ Exact(P, q) \in Known
  BY KidOfAND DEF KidPaths
<1>2. T \subseteq ChildSet(Var(p))
  BY <1>1
<1>3. IsFiniteSet(T)
  BY <1>2, ContextsOfKids, FS_Subset
<1>4. IsFiniteSet(K)
  <2> DEFINE f == [y \in T |-> Append(p, y)]
  <2>1. f \in Surjection(T, K)
    <3>1. \A y \in T : f[y] \in K
      BY <1>1
    <3>2. \A q \in K : Var(q) \in T /\ f[Var(q)] = q
      BY <1>1
    <3> QED  BY <3>1, <3>2 DEF Surjection
  <2> HIDE DEF f
  <2> QED  BY <1>3, <2>1, FS_Surjection
<1>5. \A q, r \in K : Var(q) = Var(r) => q = r
  BY <1>1
<1> QED  BY <1>1, <1>2, <1>3, <1>4, <1>5 DEF KidVars

(* What propagate computes for an AND node from all of its children.       *)
LEMMA ValueAtAND ==
  ASSUME NEW P \in Problems, NEW p, IsSearchPath(p), IsAND(p), NEW K, KidPaths(p, K),
         NEW s \in Cost, RestOK(P, p, s, K),
         NEW val \in [K -> Cost], \A q \in K : ~Greater(val[q], Exact(P, q))
  PROVE  Times(s, Product(val)) \in Cost /\ ~Greater(Times(s, Product(val)), Exact(P, p))
<1> DEFINE C == ChildSet(Var(p))
           T == KidVars(K)
           f == [y \in C |-> P.opt[y][PathRestriction(p, Ctx[y])]]
           h == [q \in K |-> Var(q)]
<1>1. /\ T \subseteq C /\ IsFiniteSet(T) /\ IsFiniteSet(K)
      /\ \A q, r \in K : Var(q) = Var(r) => q = r
      /\ \A q \in K : Exact(P, q) = P.opt[Var(q)][PathRestriction(p, Ctx[Var(q)])]
  BY KidsLeft
<1>2. /\ IsFiniteSet(C) /\ \A y \in C : P.opt[y][PathRestriction(p, Ctx[y])] \in Known
      /\ \A S \in SUBSET C : Below(P, p, S) \in Known
  BY ContextsOfKids
<1>3. /\ f \in [C -> Known] /\ f \in [C -> Cost]
      /\ \A S \in SUBSET C : Below(P, p, S) = Product(Part(f, S))
  <2>1. f \in [C -> Known]
    BY <1>2
  <2>2. ASSUME NEW S \in SUBSET C PROVE Below(P, p, S) = Product(Part(f, S))
    <3>1. Part(f, S) = [y \in S |-> P.opt[y][PathRestriction(p, Ctx[y])]]
      BY DEF Part
    <3> QED  BY <3>1 DEF Below
  <2> QED  BY <2>1, <2>2, TimesLaws
<1>4. ~Greater(Product(val), Below(P, p, T))
  <2> DEFINE g == Part(f, T)
  <2>1. /\ g \in [T -> Known] /\ \A y \in T : g[y] = f[y]
    BY <1>1, <1>3 DEF Part
  <2>2. /\ h \in [K -> T] /\ \A q, r \in K : h[q] = h[r] => q = r
        /\ \A y \in T : \E q \in K : h[q] = y
    BY <1>1 DEF KidVars
  <2>3. \A q \in K : ~Greater(val[q], g[h[q]])
    BY <1>1, <2>1, <2>2
  <2>4. ~Greater(Product(val), Product(g))
    <3> HIDE DEF g, h, T
    <3> QED  BY <1>1, <2>1, <2>2, <2>3, ProductBelow
  <2> QED  BY <1>1, <1>3, <2>4
<1>5. Product(val) \in Cost
  BY <1>1, ProductSplit
<1>6. Exact(P, p) = Times(Below(P, p, C \ T), Below(P, p, T))
  <2>1. Exact(P, p) = Below(P, p, C)
    BY OptimumOfOR
  <2>2. (C \ T) \cup T = C /\ (C \ T) \cap T = {} /\ IsFiniteSet(C \ T)
    BY <1>1, <1>2, FS_Subset
  <2> HIDE DEF f, T, C
  <2>3. Product(f) = Times(Product(Part(f, C \ T)), Product(Part(f, T)))
    BY <1>1, <1>3, <2>2, ProductUnion
  <2>4. Part(f, C) = f
    BY <1>3 DEF Part
  <2> QED  BY <1>1, <1>3, <2>1, <2>2, <2>3, <2>4
<1>7. Below(P, p, C \ T) \in Known /\ Below(P, p, T) \in Known
  BY <1>1, <1>2
<1>8. ~Greater(s, Below(P, p, C \ T))
  BY DEF RestOK
<1> HIDE DEF T, C
<1> QED  BY <1>4, <1>5, <1>6, <1>7, <1>8, TimesBelow, TimesLaws

(* Below an AND node, a child left and the rest not left.                  *)
LEMMA ChildLeft ==
  ASSUME NEW P \in Problems, NEW p, IsSearchPath(p), IsAND(p), NEW K, KidPaths(p, K),
         NEW h \in K, NEW C, C = ChildSet(Var(p))
  PROVE  /\ Below(P, p, C \ KidVars(K \ {h})) = Times(Exact(P, h), Below(P, p, C \ KidVars(K)))
         /\ Below(P, p, C \ KidVars(K)) \in Known /\ Exact(P, h) \in Known
<1> DEFINE T == KidVars(K)
           U == KidVars(K \ {h})
           x == Var(h)
           f == [y \in C |-> P.opt[y][PathRestriction(p, Ctx[y])]]
<1>1. /\ T \subseteq C /\ \A q, r \in K : Var(q) = Var(r) => q = r
      /\ Exact(P, h) = P.opt[x][PathRestriction(p, Ctx[x])] /\ Exact(P, h) \in Known
  BY KidsLeft
<1>2. /\ IsFiniteSet(C) /\ \A y \in C : P.opt[y][PathRestriction(p, Ctx[y])] \in Known
      /\ \A S \in SUBSET C : Below(P, p, S) \in Known
  BY ContextsOfKids
<1>3. x \in C \ U /\ (C \ U) \ {x} = C \ T /\ C \ U \in SUBSET C /\ C \ T \in SUBSET C
  BY <1>1 DEF KidVars
<1>4. f \in [C -> Cost]
  BY <1>2, TimesLaws
<1>5. \A S \in SUBSET C : Part(f, S) = [y \in S |-> P.opt[y][PathRestriction(p, Ctx[y])]]
  BY DEF Part
<1>6. \A S \in SUBSET C : Below(P, p, S) = Product(Part(f, S))
  BY <1>5 DEF Below
<1>7. f[x] = Exact(P, h)
  BY <1>1, <1>3
<1> HIDE DEF f, T, U
<1>8. Product(Part(f, C \ U)) = Times(f[x], Product(Part(f, (C \ U) \ {x})))
  BY <1>2, <1>3, <1>4, ProductSplit
<1> QED  BY <1>1, <1>2, <1>3, <1>6, <1>7, <1>8 DEF T, U

(* eraseChild of the solved child h passes its value on to subSolved.      *)
LEMMA RestAfterErase ==
  ASSUME NEW P \in Problems, NEW p, IsSearchPath(p), IsAND(p), NEW K, KidPaths(p, K),
         NEW s \in Cost, RestOK(P, p, s, K),
         NEW h \in K, NEW v \in Cost, ~Greater(v, Exact(P, h))
  PROVE  Times(s, v) \in Cost /\ RestOK(P, p, Times(s, v), K \ {h})
<1> DEFINE C == ChildSet(Var(p))
           rest == Below(P, p, C \ KidVars(K))
<1>1. /\ Below(P, p, C \ KidVars(K \ {h})) = Times(Exact(P, h), rest)
      /\ rest \in Known /\ Exact(P, h) \in Known /\ ~Greater(s, rest)
  BY ChildLeft DEF RestOK
<1> HIDE DEF C, rest
<1>2. ~Greater(Times(v, s), Times(Exact(P, h), rest))
  BY <1>1, TimesBelow
<1>3. Times(s, v) \in Cost /\ Times(s, v) = Times(v, s)
  BY TimesLaws
<1> QED  BY <1>1, <1>2, <1>3 DEF RestOK, C

-----------------------------------------------------------------------------
(* The AND nodes on the path of p at which the table of x is reset are     *)
(* among the nodes A.                                                      *)
ResetIn(A, p, x) ==
  \A k \in 1 .. Len(p) - 1 :
    k % 2 = 0 /\ x \in ResetList(p[k - 1]) => Prefix(p, k) \in A

(* A is the set of the live nodes that have been handled.  An entry of a   *)
(* table is in relation R to the optimum of every OR node that may look it *)
(* up: one whose context it is, and which lies below those of A that have  *)
(* reset the table.  Here the entry is at most the optimum.                *)
CacheHolds(R, P, tables, A) ==
  \A x \in Vars : \A c \in DOMAIN tables[x] :
    /\ tables[x][c] \in Cost
    /\ \A p : /\ IsSearchPath(p) /\ IsOR(p) /\ Var(p) = x /\ ResetIn(A, p, x)
              /\ PathRestriction(p, CacheCtx(x)) = c
              => <<tables[x][c], ExactOR(P, p)>> \in R

AtMost == {r \in Cost \X Cost : ~Greater(r[1], r[2])}

CacheSound(P, tables, A) == CacheHolds(AtMost, P, tables, A)

(* Entries stay sound when fewer nodes are active.                         *)
LEMMA FewerActive ==
  ASSUME NEW R, NEW P, NEW tables, NEW A, CacheHolds(R, P, tables, A), NEW B \in SUBSET A
  PROVE  CacheHolds(R, P, tables, B)
<1>1. \A p, x : ResetIn(B, p, x) => ResetIn(A, p, x)
  BY DEF ResetIn
<1> QED  BY <1>1, Zenon DEF CacheHolds

(* Handling n resets the tables that must not be shared between its values.*)
LEMMA ResetSound ==
  ASSUME NEW R, NEW n, IsNodePath(n), NEW A, CacheHolds(R, prob, cache, A)
  PROVE  CacheHolds(R, prob, CacheAt(n), A \cup {n})
<1> SUFFICES ASSUME NEW x \in Vars, NEW c \in DOMAIN CacheAt(n)[x]
             PROVE  /\ CacheAt(n)[x][c] \in Cost
                    /\ \A p : /\ IsSearchPath(p) /\ IsOR(p) /\ Var(p) = x
                              /\ ResetIn(A \cup {n}, p, x)
                              /\ PathRestriction(p, CacheCtx(x)) = c
                              => <<CacheAt(n)[x][c], ExactOR(prob, p)>> \in R
  BY DEF CacheHolds
<1>1. IsAND(n) => x \notin ResetList(Var(n))
  <2>1. CASE IsAND(n) /\ x \in ResetList(Var(n))
    <3>1. CacheAt(n)[x] = NoTable
      BY <2>1 DEF CacheAt
    <3> QED  BY <3>1 DEF NoTable
  <2> QED  BY <2>1
<1>2. CacheAt(n)[x] = cache[x]
  BY <1>1 DEF CacheAt
<1>3. ASSUME NEW p, IsNodePath(p), ResetIn(A \cup {n}, p, x)
      PROVE  ResetIn(A, p, x)
  <2> SUFFICES ASSUME NEW k \in 1 .. Len(p) - 1, k % 2 = 0, x \in ResetList(p[k - 1]),
                      Prefix(p, k) = n
               PROVE  FALSE
    BY <1>3 DEF ResetIn
  <2>1. p \in Path /\ Len(p) \in Nat
    BY <1>3, ParentPath DEF IsNodePath
  <2>2. k \in 0 .. Len(p) /\ k - 1 \in 1 .. k /\ k > 0
    BY <2>1
  <2>3. Len(n) = k /\ n[k - 1] = p[k - 1]
    BY <2>1, <2>2, PrefixPath
  <2>4. IsAND(n) /\ ~IsOR(n)
    BY <2>2, <2>3 DEF IsAND, IsOR
  <2>5. Var(n) = p[k - 1]
    BY <2>3, <2>4 DEF Var
  <2> QED  BY <1>1, <2>4, <2>5
<1>4. /\ cache[x][c] \in Cost
      /\ \A p : /\ IsSearchPath(p) /\ IsOR(p) /\ Var(p) = x /\ ResetIn(A, p, x)
                /\ PathRestriction(p, CacheCtx(x)) = c
                => <<cache[x][c], ExactOR(prob, p)>> \in R
  BY <1>2, Zenon DEF CacheHolds
<1> QED  BY <1>2, <1>3, <1>4 DEF IsSearchPath

(* The tables with the value v for the context c of x.                     *)
Entered(tables, x, c, v, new) ==
  \A y \in Vars :
    IF y = x
    THEN new[y] = [k \in DOMAIN tables[y] \cup {c} |-> IF k = c THEN v ELSE tables[y][k]]
    ELSE new[y] = tables[y]

(* A closed child p of an AND node is written to the cache: its entry is   *)
(* sound for every other node that looks it up, since of the nodes handled *)
(* and not yet erased no two part at a value.                              *)
LEMMA WriteSound ==
  ASSUME NEW R, NEW P \in Problems, NEW tables, NEW A, CacheHolds(R, P, tables, A),
         A \subseteq Path, OneValued(A),
         NEW p, IsSearchPath(p), IsOR(p), ResetIn(A, p, Var(p)),
         NEW v \in Cost, <<v, ExactOR(P, p)>> \in R,
         NEW c, c = PathRestriction(p, CacheCtx(Var(p))),
         NEW new, Entered(tables, Var(p), c, v, new)
  PROVE  CacheHolds(R, P, new, A)
<1> SUFFICES ASSUME NEW x \in Vars, NEW d \in DOMAIN new[x]
             PROVE  /\ new[x][d] \in Cost
                    /\ \A q : /\ IsSearchPath(q) /\ IsOR(q) /\ Var(q) = x
                              /\ ResetIn(A, q, x)
                              /\ PathRestriction(q, CacheCtx(x)) = d
                              => <<new[x][d], ExactOR(P, q)>> \in R
  BY Zenon DEF CacheHolds
<1>1. CASE ~(x = Var(p) /\ d = c)
  <2>1. d \in DOMAIN tables[x] /\ new[x][d] = tables[x][d]
    <3>1. CASE x # Var(p)
      BY <3>1 DEF Entered
    <3>2. CASE x = Var(p)
      <4>1. new[x] = [k \in DOMAIN tables[x] \cup {c} |-> IF k = c THEN v ELSE tables[x][k]]
        BY <3>2 DEF Entered
      <4> QED  BY <1>1, <3>2, <4>1
    <3> QED  BY <3>1, <3>2
  <2> QED  BY <2>1, Zenon DEF CacheHolds
<1>2. CASE x = Var(p) /\ d = c
  <2>1. new[x][d] = v
    <3>1. new[x] = [k \in DOMAIN tables[x] \cup {c} |-> IF k = c THEN v ELSE tables[x][k]]
      BY <1>2 DEF Entered
    <3> QED  BY <1>2, <3>1
  <2>2. ASSUME NEW q, IsSearchPath(q), IsOR(q), Var(q) = x, ResetIn(A, q, x),
               PathRestriction(q, CacheCtx(x)) = d
        PROVE  ExactOR(P, q) = ExactOR(P, p)
    <3>1. IsNodePath(p) /\ IsNodePath(q) /\ p \in Path /\ q \in Path
      BY <2>2 DEF IsSearchPath, IsNodePath
    <3>2. \A y \in CacheCtx(x) : PathValue(p, y) = PathValue(q, y)
      <4>1. ASSUME NEW y \in CacheCtx(x) PROVE PathValue(p, y) = PathValue(q, y)
        <5>1. /\ PathRestriction(p, CacheCtx(x))[y] = PathValue(p, y)
              /\ PathRestriction(q, CacheCtx(x))[y] = PathValue(q, y)
          BY DEF PathRestriction
        <5> QED  BY <1>2, <2>2, <5>1
      <4> QED  BY <4>1
    <3>3. /\ Len(p) = Len(q) /\ Len(p) \in Nat /\ Len(p) % 2 = 1
          /\ \A m \in 1 .. Len(p) : m % 2 = 1 => p[m] = q[m]
      <4>1. /\ Len(p) \in Nat /\ Len(p) % 2 = 1 /\ Len(q) \in Nat /\ Len(q) % 2 = 1
            /\ Var(p) = p[Len(p)] /\ Var(q) = q[Len(q)]
        BY <2>2, <3>1, ContextPlaces
      <4>2. Len(p) \in 1 .. Len(p) /\ Len(q) \in 1 .. Len(q)
        BY <3>1, <4>1 DEF IsNodePath
      <4>3. p[Len(p)] = q[Len(q)]
        BY <1>2, <2>2, <4>1
      <4> QED  BY <3>1, <4>1, <4>2, <4>3, SameLength
    <3>4. ASSUME NEW k \in 1 .. Len(p) - 1, k % 2 = 0, x \in ResetList(p[k - 1])
          PROVE  Prefix(p, k) = Prefix(q, k)
      <4>1. p[k - 1] = q[k - 1]
        <5>1. k - 1 \in 1 .. Len(p) /\ (k - 1) % 2 = 1
          BY <3>3, <3>4
        <5> QED  BY <3>3, <5>1
      <4>2. Prefix(p, k) \in A /\ Prefix(q, k) \in A
        BY <1>2, <2>2, <3>3, <3>4, <4>1 DEF ResetIn
      <4>3. PICK a, b : a = Prefix(p, k) /\ b = Prefix(q, k)
        OBVIOUS
      <4>4. /\ a \in A /\ b \in A /\ a \in Path /\ b \in Path
            /\ Len(a) = k /\ Len(b) = k
            /\ \A m \in 1 .. k : m % 2 = 1 => a[m] = b[m]
        <5>1. k \in 0 .. Len(p) /\ k \in 0 .. Len(q) /\ \A m \in 1 .. k : m \in 1 .. Len(p)
          BY <3>3
        <5>2. /\ Len(a) = k /\ Len(b) = k
              /\ \A m \in 1 .. k : a[m] = p[m] /\ b[m] = q[m]
          BY <3>1, <4>3, <5>1, PrefixPath
        <5> QED  BY <3>3, <4>2, <4>3, <5>1, <5>2
      <4>5. ~Parts(a, b)
        BY <4>4 DEF Parts
      <4>6. Above(a, b) \/ Above(b, a)
        BY <4>4, <4>5 DEF OneValued
      <4>7. a = b
        BY <4>4, <4>6, SameLengthAbove
      <4> QED  BY <4>3, <4>7
    <3>5. \A y \in Ctx[x] : PathValue(p, y) = PathValue(q, y)
      BY <1>2, <2>2, <3>1, <3>2, <3>4, SharedContext
    <3>6. PathRestriction(p, Ctx[x]) = PathRestriction(q, Ctx[x])
      BY <3>5 DEF PathRestriction
    <3> QED  BY <1>2, <2>2, <3>6 DEF ExactOR
  <2> QED  BY <1>2, <2>1, <2>2
<1> QED  BY <1>1, <1>2

-----------------------------------------------------------------------------
(* What the nodes of a search hold; O is the set of its open nodes.        *)
NodesFit == \A p \in Live : IsSearchPath(p) /\ NodeOK(prob, p, node[p])

RestsFit(O) ==
  \A p \in Live : IsAND(p) =>
    /\ p \in O => node[p].subSolved = ELEM_ONE
    /\ KidsIn(Live, p) # {} => RestOK(prob, p, node[p].subSolved, KidsIn(Live, p))

CostInv(O) ==
  /\ prob \in Problems /\ curCost \in Cost /\ ~Greater(curCost, Optimum(prob))
  /\ NodesFit /\ RestsFit(O) /\ CacheSound(prob, cache, Live \ O)

(* The costs of the nodes change, but not the tree.                        *)
LEMMA SameTree ==
  ASSUME NEW O, CostInv(O), NEW B \in SUBSET O,
         prob' = prob, curCost' = curCost, Live' = Live,
         \A q \in Live : NodeOK(prob, q, node'[q]),
         \A q \in Live : IsAND(q) => node'[q].subSolved = node[q].subSolved,
         CacheSound(prob, cache', Live \ B)
  PROVE  CostInv(B)'
<1>1. NodesFit'
  BY DEF CostInv, NodesFit
<1>2. RestsFit(B)'
  BY DEF CostInv, RestsFit
<1> QED  BY <1>1, <1>2 DEF CostInv

(* The nodes above a live node have been handled, so they have reset the   *)
(* tables that are reset on the path to it.                                *)
LEMMA HandledAbove ==
  ASSUME NEW O, SearchInv(O), NEW n \in Live
  PROVE  /\ \A k \in 1 .. Len(n) - 1 : Prefix(n, k) \in Live \ O
         /\ \A x : ResetIn(Live \ O, n, x)
<1>1. n \in Path /\ Len(n) \in Nat /\ Tree(Live) /\ \A q \in O : KidsIn(Live, q) = {}
  BY ParentPath DEF SearchInv, Tree, IsNodePath, Pointers, Frontier
<1>2. ASSUME NEW k \in 1 .. Len(n) - 1 PROVE Prefix(n, k) \in Live \ O
  <2>1. k \in 0 .. Len(n) /\ k \in 1 .. Len(n) /\ k + 1 \in 0 .. Len(n) /\ k + 1 \in 1 .. Len(n)
    BY <1>1
  <2>2. Prefix(n, k) \in Live /\ Prefix(n, k + 1) \in Live
    BY <1>1, <2>1 DEF Tree
  <2>3. /\ Prefix(n, k) \in Path /\ Len(Prefix(n, k)) = k
        /\ Prefix(n, k + 1) \in Path /\ Len(Prefix(n, k + 1)) = k + 1
        /\ \A j \in 0 .. k + 1 : Prefix(Prefix(n, k + 1), j) = Prefix(n, j)
    BY <1>1, <2>1, PrefixPath
  <2>4. k \in 0 .. k + 1 /\ k + 1 >= 1 /\ (k + 1) - 1 = k
    BY <2>1
  <2>5. Parent(Prefix(n, k + 1)) = Prefix(n, k)
    BY <2>3, <2>4, ParentPath
  <2>6. Prefix(n, k + 1) \in KidsIn(Live, Prefix(n, k))
    BY <2>2, <2>3, <2>5 DEF KidsIn
  <2> QED  BY <1>1, <2>2, <2>6
<1> QED  BY <1>2 DEF ResetIn

(* An OR node looks up the context of its path.                            *)
LEMMA LooksUpOwnContext ==
  ASSUME NEW n, IsNodePath(n), IsOR(n), Agrees(assignment, Parent(n))
  PROVE  CacheContext(n) = PathRestriction(n, CacheCtx(Var(n)))
<1>1. n \in Path /\ Len(n) >= 1
  BY DEF IsNodePath
<1>2. /\ Len(n) \in Nat
      /\ \A y \in Ctx[Var(n)] : \E j \in 1 .. Len(n) - 2 :
            j % 2 = 1 /\ n[j] = y /\ PathValue(n, y) = n[j + 1]
  BY ContextPlaces
<1>3. Len(Parent(n)) = Len(n) - 1 /\ \A i \in 1 .. Len(n) - 1 : Parent(n)[i] = n[i]
  BY <1>1, ParentElements
<1>4. ASSUME NEW y \in CacheCtx(Var(n)) PROVE assignment[y] = PathValue(n, y)
  <2>1. y \in Ctx[Var(n)]
    BY DEF CacheCtx
  <2>2. PICK j \in 1 .. Len(n) - 2 : j % 2 = 1 /\ n[j] = y /\ PathValue(n, y) = n[j + 1]
    BY <1>2, <2>1
  <2>3. j \in 1 .. Len(Parent(n)) - 1 /\ j \in 1 .. Len(n) - 1 /\ j + 1 \in 1 .. Len(n) - 1
    BY <1>2, <1>3, <2>2
  <2>4. assignment[Parent(n)[j]] = Parent(n)[j + 1]
    BY <2>2, <2>3 DEF Agrees
  <2> QED  BY <1>3, <2>2, <2>3, <2>4
<1> QED  BY <1>4 DEF CacheContext, Restriction, PathRestriction

(* A node found in the cache gets a value of its own subproblem.           *)
LEMMA HitFits ==
  ASSUME NEW O, SearchInv(O), CostInv(O), phase = "next", NEW n \in O,
         Agrees(assignment, Parent(n)), ProcessCacheHit(n)
  PROVE  CostInv(O \ {n})'
<1> DEFINE x == Var(n)
           c == CacheContext(n)
<1>1. n \in Live /\ IsNodePath(n) /\ IsSearchPath(n) /\ NodeOK(prob, n, node[n]) /\ x \in Vars
  BY OpenNode, NodeVariable DEF CostInv, NodesFit
<1>2. IsOR(n) /\ c \in DOMAIN cache[x]
  BY DEF ProcessCacheHit, CacheHit, LooksUp
<1>3. /\ node' = [node EXCEPT ![n].context = c, ![n].value = cache[x][c]]
      /\ prob' = prob /\ cache' = cache /\ curCost' = curCost
  BY DEF ProcessCacheHit
<1>4. c = PathRestriction(n, CacheCtx(x))
  BY <1>1, <1>2, LooksUpOwnContext
<1>5. ResetIn(Live \ O, n, x)
  BY <1>1, HandledAbove
<1> HIDE DEF x, c
<1>6. cache[x][c] \in Cost /\ ~Greater(cache[x][c], ExactOR(prob, n))
  <2>1. cache[x][c] \in Cost /\ <<cache[x][c], ExactOR(prob, n)>> \in AtMost
    BY <1>1, <1>2, <1>4, <1>5, Zenon DEF CostInv, CacheSound, CacheHolds, x
  <2> QED  BY <2>1 DEF AtMost
<1>7. Live' = Live /\ \A q \in Live : q # n => node'[q] = node[q]
  BY <1>3 DEF Live
<1>8. NodeOK(prob, n, node'[n])
  <2>1. node'[n] = [node[n] EXCEPT !.context = c, !.value = cache[x][c]]
    BY <1>1, <1>3 DEF Live
  <2>2. DOMAIN node[n] = OrFields
    BY <1>1, <1>2 DEF NodeOK
  <2>3. /\ DOMAIN node'[n] = OrFields /\ node'[n].value = cache[x][c]
        /\ node'[n].context = c /\ node'[n].heurCache = node[n].heurCache
    BY <2>1, <2>2 DEF OrFields
  <2> QED  BY <1>1, <1>2, <1>4, <1>6, <2>3 DEF NodeOK, Exact, x
<1>9. ~IsAND(n)
  BY <1>1, <1>2, NodeVariable
<1>10. CacheSound(prob, cache', Live \ (O \ {n}))
  <2>1. CacheAt(n) = cache' /\ Live \ (O \ {n}) = (Live \ O) \cup {n}
    BY <1>1, <1>3, <1>9 DEF CacheAt
  <2>2. CacheSound(prob, CacheAt(n), (Live \ O) \cup {n})
    BY <1>1, ResetSound DEF CostInv, CacheSound
  <2> QED  BY <2>1, <2>2
<1>11. \A q \in Live : NodeOK(prob, q, node'[q])
  BY <1>7, <1>8 DEF CostInv, NodesFit
<1>12. \A q \in Live : IsAND(q) => node'[q].subSolved = node[q].subSolved
  BY <1>7, <1>9
<1> QED  BY <1>3, <1>7, <1>10, <1>11, <1>12, SameTree

(* What doCaching leaves in a node that is not found.                      *)
LEMMA AfterCachingFits ==
  ASSUME NEW n \in Live, IsNodePath(n), NodeOK(prob, n, node[n]),
         Agrees(assignment, Parent(n))
  PROVE  LET nd == AfterCaching(n)[n]
         IN  /\ NodeOK(prob, n, nd) /\ nd.value = node[n].value
             /\ IsAND(n) => nd = node[n]
<1> DEFINE nd == AfterCaching(n)[n]
<1>1. IsAND(n) <=> ~IsOR(n)
  BY NodeVariable
<1>2. CASE ~LooksUp(n)
  BY <1>2 DEF AfterCaching
<1>3. CASE LooksUp(n)
  <2>1. IsOR(n)
    BY <1>3 DEF LooksUp
  <2>2. nd = [node[n] EXCEPT !.context = CacheContext(n), !.cachable = TRUE]
    BY <1>3 DEF AfterCaching, Live
  <2>3. DOMAIN node[n] = OrFields
    BY <2>1 DEF NodeOK
  <2> HIDE DEF nd
  <2>4. /\ DOMAIN nd = OrFields /\ nd.value = node[n].value
        /\ nd.context = CacheContext(n) /\ nd.heurCache = node[n].heurCache
    BY <2>2, <2>3 DEF OrFields
  <2>5. CacheContext(n) = PathRestriction(n, CacheCtx(Var(n)))
    BY <2>1, LooksUpOwnContext
  <2>6. NodeOK(prob, n, nd)
    BY <2>1, <2>4, <2>5 DEF NodeOK
  <2> QED  BY <1>1, <2>1, <2>4, <2>6 DEF nd
<1> QED  BY <1>2, <1>3

(* A step that handles n leaves the tables sound.                          *)
LEMMA HandledCache ==
  ASSUME NEW O, CostInv(O), NEW n \in Live, IsNodePath(n)
  PROVE  CacheSound(prob, CacheAt(n), Live \ (O \ {n}))
<1>1. Live \ (O \ {n}) \in SUBSET ((Live \ O) \cup {n})
  OBVIOUS
<1>2. CacheSound(prob, CacheAt(n), (Live \ O) \cup {n})
  BY ResetSound DEF CostInv, CacheSound
<1> QED  BY <1>1, <1>2, FewerActive DEF CacheSound

(* A pruned node keeps its value or gets that of no solution.              *)
LEMMA PruneFits ==
  ASSUME NEW O, SearchInv(O), CostInv(O), phase = "next", NEW n \in O,
         Agrees(assignment, Parent(n)), ProcessPrune(n)
  PROVE  CostInv(O \ {n})'
<1>1. n \in Live /\ IsNodePath(n) /\ IsSearchPath(n) /\ NodeOK(prob, n, node[n])
  BY OpenNode DEF CostInv, NodesFit
<1> DEFINE nd == AfterCaching(n)[n]
           v == IF IsAND(n) \/ ISNAN(nd.value) THEN ELEM_ZERO ELSE nd.value
<1>2. /\ prob' = prob /\ cache' = CacheAt(n) /\ curCost' = curCost
      /\ node' = [q \in Live |->
           IF q = n
           THEN [nd EXCEPT !.pruned = TRUE, !.notOpt = @ \/ n \in MarkedNotOpt(n), !.value = v]
           ELSE [node[q] EXCEPT !.notOpt = @ \/ q \in MarkedNotOpt(n)]]
  BY DEF ProcessPrune
<1>3. Live' = Live
  BY <1>2 DEF Live
<1>4. NodeOK(prob, n, nd) /\ (IsAND(n) => nd = node[n])
  BY <1>1, AfterCachingFits
<1>5. Exact(prob, n) \in Known /\ Exact(prob, n) \in Cost
  <2>1. CASE IsOR(n)
    BY <1>1, <2>1, ContextOfOR, TimesLaws DEF CostInv
  <2>2. CASE IsAND(n)
    BY <1>1, <2>2, OptimumOfOR, TimesLaws DEF CostInv
  <2> QED  BY <1>1, <2>1, <2>2, NodeVariable
<1> HIDE DEF nd
<1>6. v \in Cost /\ ~Greater(v, Exact(prob, n))
  BY <1>4, <1>5, NeverGreater, TimesLaws DEF NodeOK
<1> HIDE DEF v
<1>7. ASSUME NEW q \in Live PROVE NodeOK(prob, q, node'[q]) /\ (IsAND(q) => node'[q].subSolved = node[q].subSolved)
  <2>1. CASE q = n
    <3>1. node'[n] = [nd EXCEPT !.pruned = TRUE, !.notOpt = @ \/ n \in MarkedNotOpt(n), !.value = v]
      BY <1>1, <1>2
    <3>2. DOMAIN nd = IF IsOR(n) THEN OrFields ELSE AndFields
      BY <1>4 DEF NodeOK
    <3>3. /\ DOMAIN node'[n] = DOMAIN nd /\ node'[n].value = v
          /\ IF IsOR(n)
             THEN /\ node'[n].heurCache = nd.heurCache /\ node'[n].cachable = nd.cachable
                  /\ node'[n].context = nd.context
             ELSE node'[n].label = nd.label /\ node'[n].subSolved = nd.subSolved
      BY <3>1, <3>2 DEF OrFields, AndFields
    <3> QED  BY <1>1, <1>4, <1>6, <2>1, <3>3, NodeVariable DEF NodeOK
  <2>2. CASE q # n
    <3>1. node'[q] = [node[q] EXCEPT !.notOpt = @ \/ q \in MarkedNotOpt(n)]
      BY <1>2, <2>2
    <3>2. NodeOK(prob, q, node[q]) /\ IsNodePath(q)
      BY DEF CostInv, NodesFit, IsSearchPath
    <3>3. DOMAIN node[q] = IF IsOR(q) THEN OrFields ELSE AndFields
      BY <3>2 DEF NodeOK
    <3>4. /\ DOMAIN node'[q] = DOMAIN node[q] /\ node'[q].value = node[q].value
          /\ IF IsOR(q)
             THEN /\ node'[q].heurCache = node[q].heurCache /\ node'[q].cachable = node[q].cachable
                  /\ node'[q].context = node[q].context
             ELSE node'[q].label = node[q].label /\ node'[q].subSolved = node[q].subSolved
      BY <3>1, <3>3 DEF OrFields, AndFields
    <3> QED  BY <3>2, <3>4, NodeVariable DEF NodeOK
  <2> QED  BY <2>1, <2>2
<1>8. CacheSound(prob, cache', Live \ (O \ {n}))
  BY <1>1, <1>2, HandledCache
<1> QED  BY <1>2, <1>3, <1>7, <1>8, SameTree

(* A new value in a node.                                                  *)
LEMMA NewValueFits ==
  ASSUME NEW P, NEW p, IsNodePath(p), NEW nd, NodeOK(P, p, nd),
         NEW v \in Cost, ~Greater(v, Exact(P, p))
  PROVE  /\ NodeOK(P, p, [nd EXCEPT !.value = v])
         /\ IsAND(p) => [nd EXCEPT !.value = v].subSolved = nd.subSolved
<1>1. DOMAIN nd = IF IsOR(p) THEN OrFields ELSE AndFields
  BY DEF NodeOK
<1> DEFINE new == [nd EXCEPT !.value = v]
<1>2. /\ DOMAIN new = DOMAIN nd /\ new.value = v
      /\ IF IsOR(p)
         THEN new.heurCache = nd.heurCache /\ new.cachable = nd.cachable /\ new.context = nd.context
         ELSE new.label = nd.label /\ new.subSolved = nd.subSolved
  BY <1>1 DEF OrFields, AndFields
<1> HIDE DEF new
<1> QED  BY <1>2, NodeVariable DEF NodeOK, new

(* The step changes one node's value only.                                 *)
LEMMA ValueStep ==
  ASSUME NEW O, CostInv(O), NEW B \in SUBSET O, NEW n \in Live,
         NEW v \in Cost, ~Greater(v, Exact(prob, n)),
         node' = [node EXCEPT ![n].value = v],
         prob' = prob, curCost' = curCost,
         CacheSound(prob, cache', Live \ B)
  PROVE  CostInv(B)'
<1>1. Live' = Live
  BY DEF Live
<1>2. ASSUME NEW q \in Live
      PROVE  NodeOK(prob, q, node'[q]) /\ (IsAND(q) => node'[q].subSolved = node[q].subSolved)
  <2>1. NodeOK(prob, q, node[q]) /\ IsNodePath(q)
    BY DEF CostInv, NodesFit, IsSearchPath
  <2>2. node'[q] = IF q = n THEN [node[q] EXCEPT !.value = v] ELSE node[q]
    BY DEF Live
  <2> QED  BY <2>1, <2>2, NewValueFits
<1> QED  BY <1>1, <1>2, SameTree

(* An AND node without children: a dead end, or nothing left to assign.    *)
LEMMA LeafANDFits ==
  ASSUME NEW O, SearchInv(O), CostInv(O), phase = "next", NEW n \in O,
         ProcessLeafAND(n)
  PROVE  CostInv(O \ {n})'
<1>1. n \in Live /\ IsNodePath(n) /\ IsSearchPath(n) /\ IsAND(n) /\ prob \in Problems
  BY OpenNode DEF CostInv, NodesFit, ProcessLeafAND
<1> DEFINE v == IF DeadChild(n) THEN ELEM_ZERO ELSE ELEM_ONE
<1>2. /\ node' = [node EXCEPT ![n].value = v]
      /\ prob' = prob /\ cache' = CacheAt(n) /\ curCost' = curCost
      /\ DeadChild(n) \/ OrChildren(n) = {}
  BY DEF ProcessLeafAND
<1>3. Exact(prob, n) = Below(prob, n, ChildSet(Var(n))) /\ Exact(prob, n) \in Known
  BY <1>1, OptimumOfOR
<1>4. v \in Cost /\ ~Greater(v, Exact(prob, n))
  <2>1. CASE DeadChild(n)
    BY <1>3, <2>1, NeverGreater, TimesLaws
  <2>2. CASE ~DeadChild(n)
    <3>1. OrChildren(n) = {}
      BY <1>2, <2>2
    <3>2. ChildSet(Var(n)) = {}
      BY <3>1 DEF OrChildren
    <3>3. Below(prob, n, {}) = ELEM_ONE
      BY BelowNothing
    <3> QED  BY <1>3, <2>2, <3>2, <3>3, NeverGreater, TimesLaws
  <2> QED  BY <2>1, <2>2
<1>5. CacheSound(prob, cache', Live \ (O \ {n}))
  BY <1>1, <1>2, HandledCache
<1> HIDE DEF v
<1> QED  BY <1>1, <1>2, <1>4, <1>5, ValueStep

(* A node that is not alive has no live children.                          *)
LEMMA NoKidsYet ==
  ASSUME NEW L, Tree(L), NEW p, IsNodePath(p), p \notin L
  PROVE  KidsIn(L, p) = {}
<1> SUFFICES ASSUME NEW q \in KidsIn(L, p) PROVE FALSE
  OBVIOUS
<1>1. Len(q) = Len(p) + 1 /\ Parent(q) = p /\ Len(p) \in Nat /\ Len(p) >= 1 /\ q \in L
  <2>1. p \in Path /\ Len(p) >= 1
    BY DEF IsNodePath
  <2> QED  BY <2>1, ParentPath DEF KidsIn
<1>2. Len(q) >= 2
  BY <1>1
<1> QED  BY <1>1, <1>2, LiveParent

(* The children of every node after high has been erased.                  *)
LEMMA KidsAfterErase ==
  ASSUME NEW L, Tree(L), NEW high \in L, NEW left, left = {q \in L : ~Above(high, q)}
  PROVE  /\ high \notin left
         /\ \A p \in left : p # Parent(high) => KidsIn(left, p) = KidsIn(L, p)
         /\ KidsIn(left, Parent(high)) = KidsIn(L, Parent(high)) \ {high}
<1> DEFINE par == Parent(high)
<1>1. high \in Path /\ Len(high) \in Nat /\ Len(high) >= 1
  BY ParentPath DEF Tree, IsNodePath
<1>2. Len(par) = Len(high) - 1
  BY <1>1, ParentPath
<1> HIDE DEF par
<1>3. ASSUME NEW p \in left, p # par PROVE KidsIn(left, p) = KidsIn(L, p)
  <2>1. p \in L /\ ~Above(high, p) /\ p \in Path
    BY DEF Tree, IsNodePath
  <2>2. ASSUME NEW q \in KidsIn(L, p) PROVE ~Above(high, q)
    <3>1. q \in Path /\ Len(q) = Len(p) + 1 /\ Parent(q) = p /\ Len(p) \in Nat
      BY <2>1, ParentPath DEF KidsIn, Tree, IsNodePath
    <3>2. SUFFICES ASSUME Above(high, q) PROVE FALSE
      OBVIOUS
    <3>3. high # q
      BY <1>3, <3>1 DEF par
    <3>4. Len(high) < Len(q)
      BY <1>1, <3>1, <3>2, <3>3, AboveElements
    <3>5. /\ Len(p) \in 0 .. Len(q) /\ Len(high) \in 0 .. Len(p)
          /\ p = Prefix(q, Len(p))
      <4>1. Len(q) >= 1 /\ Len(q) - 1 = Len(p)
        BY <3>1
      <4>2. Parent(q) = Prefix(q, Len(q) - 1)
        BY <3>1, <4>1, ParentPath
      <4>3. p = Prefix(q, Len(p))
        BY ONLY <3>1, <4>1, <4>2
      <4>4. Len(high) <= Len(p) /\ Len(high) \in Nat /\ Len(p) \in Nat /\ Len(p) <= Len(q)
        BY ONLY <1>1, <3>1, <3>4
      <4> QED  BY ONLY <3>1, <4>3, <4>4
    <3>6. Prefix(p, Len(high)) = Prefix(q, Len(high))
      BY <3>1, <3>5, PrefixPath
    <3>7. Prefix(q, Len(high)) = high
      BY <3>2 DEF Above, Prefix
    <3>8. Above(high, p)
      BY <3>5, <3>6, <3>7 DEF Above, Prefix
    <3> QED  BY <2>1, <3>8
  <2> QED  BY <2>2 DEF KidsIn
<1>4. Above(high, high)
  BY <1>1, AbovePrefix
<1>5. ASSUME NEW q \in KidsIn(L, par), q # high PROVE ~Above(high, q)
  <2>1. q \in Path /\ Len(q) = Len(high)
    BY <1>1, <1>2, <1>5 DEF KidsIn, Tree, IsNodePath
  <2> QED  BY <1>1, <1>5, <2>1, AboveElements
<1>6. KidsIn(left, par) = KidsIn(L, par) \ {high}
  BY <1>4, <1>5 DEF KidsIn
<1> QED  BY <1>3, <1>4, <1>6 DEF par

(* The node n gets the children K, and nothing else changes but a node.    *)
LEMMA GrowTree ==
  ASSUME NEW O, SearchInv(O), CostInv(O), phase = "next", NEW n \in O,
         NEW K, K \cap Live = {}, Live' = Live \cup K,
         \A q \in K : /\ IsSearchPath(q) /\ Len(q) = Len(n) + 1 /\ Parent(q) = n
                      /\ NodeOK(prob, q, node'[q])
                      /\ IsAND(q) => node'[q].subSolved = ELEM_ONE,
         IsAND(n) => KidVars(K) = ChildSet(Var(n)),
         \A q \in Live : NodeOK(prob, q, node'[q]),
         \A q \in Live : IsAND(q) => node'[q].subSolved = node[q].subSolved,
         prob' = prob, curCost' = curCost, CacheSound(prob, cache', Live \ (O \ {n}))
  PROVE  CostInv((O \ {n}) \cup K)'
<1> DEFINE B == (O \ {n}) \cup K
<1>1. /\ n \in Live /\ IsNodePath(n) /\ Tree(Live) /\ KidsIn(Live, n) = {}
      /\ O \subseteq Live
  BY OpenNode DEF SearchInv, Frontier
<1>2. NodesFit'
  BY DEF CostInv, NodesFit
<1>0. /\ KidsIn(Live', n) = K
      /\ \A p \in Live : p # n => KidsIn(Live', p) = KidsIn(Live, p)
      /\ \A p \in K : KidsIn(Live', p) = {}
  <2>1. \A p \in K : p \notin Live /\ p # n /\ KidsIn(Live, p) = {}
    BY <1>1, NoKidsYet DEF IsSearchPath
  <2> QED  BY <1>1, <2>1 DEF KidsIn
<1>3. ASSUME NEW p \in Live', IsAND(p)
      PROVE  /\ p \in B => node'[p].subSolved = ELEM_ONE
             /\ KidsIn(Live', p) # {} => RestOK(prob, p, node'[p].subSolved, KidsIn(Live', p))
  <2>1. CASE p \in K
    BY <1>0, <1>3, <2>1
  <2>2. CASE p = n
    <3>1. KidsIn(Live', p) = K
      BY <1>0, <2>2
    <3>2. p \notin B
      BY <1>1, <2>2
    <3>3. node'[p].subSolved = ELEM_ONE
      BY <1>1, <1>3, <2>2 DEF CostInv, RestsFit
    <3>4. Below(prob, p, ChildSet(Var(p)) \ KidVars(K)) = ELEM_ONE
      <4>1. ChildSet(Var(p)) \ KidVars(K) = {}
        BY <1>3, <2>2
      <4> QED  BY <4>1, BelowNothing
    <3>5. RestOK(prob, p, ELEM_ONE, K)
      BY <3>4, NeverGreater, TimesLaws DEF RestOK
    <3> QED  BY <3>1, <3>2, <3>3, <3>5
  <2>3. CASE p \in Live /\ p # n
    <3>1. KidsIn(Live', p) = KidsIn(Live, p)
      BY <1>0, <2>3
    <3>2. p \in B => p \in O
      BY <2>3
    <3>3. node'[p].subSolved = node[p].subSolved
      BY <1>3, <2>3
    <3> QED  BY <1>3, <2>3, <3>1, <3>2, <3>3 DEF CostInv, RestsFit
  <2> QED  BY <2>1, <2>2, <2>3
<1>4. RestsFit(B)'
  BY <1>3 DEF CostInv, RestsFit
<1>5. CacheSound(prob, cache', Live' \ B)
  <2>1. Live' \ B = Live \ (O \ {n})
    BY <1>1
  <2> QED  BY <2>1
<1> HIDE DEF B
<1>6. CostInv(B)'
  BY <1>2, <1>4, <1>5 DEF CostInv
<1> QED  BY <1>6 DEF B

(* The children of an AND node: their labels are read off its assignment.  *)
LEMMA ExpandANDFits ==
  ASSUME NEW O, SearchInv(O), CostInv(O), phase = "next", NEW n \in O,
         Agrees(assignment, Parent(n)),
         NEW s \in Seqs!SetToSeqs(OrChildren(n)), ProcessExpandAND(n, s)
  PROVE  CostInv((O \ {n}) \cup Elements(s))'
<1> DEFINE K == OrChildren(n)
           a == AssignmentAt(n)
<1>1. /\ n \in Live /\ IsNodePath(n) /\ IsSearchPath(n) /\ IsAND(n) /\ prob \in Problems
      /\ n \in Path /\ assignment \in [Vars -> Int] /\ DOMAIN cache = Vars
  BY OpenNode DEF CostInv, NodesFit, ProcessExpandAND, SearchInv, SearchTypeOK
<1>2. /\ Agrees(a, n) /\ a \in [Vars -> Int]
  BY <1>1, AgreesNow, AssignmentAndCache DEF SearchInv
<1>3. /\ \A y \in ChildSet(Var(n)) : /\ IsSearchPath(Append(n, y))
                                     /\ Len(Append(n, y)) = Len(n) + 1
                                     /\ Parent(Append(n, y)) = n
                                     /\ Var(Append(n, y)) = y
  BY <1>1, ContextsOfKids
<1>4. Elements(s) = K /\ K \cap Live = {}
  <2>1. Var(n) \in Vars /\ IsFiniteSet(K)
    BY <1>1, NodeVariable, FiniteOrChildren
  <2>2. K \subseteq Path
    BY <1>3 DEF OrChildren, IsSearchPath, IsNodePath
  <2>3. Elements(s) = K
    BY <2>1, <2>2, ChildOrder
  <2> QED  BY <2>3, ExpandKeeps
<1>5. /\ node' = Added(K, [q \in K |-> NewOR(Var(q), a)])
      /\ prob' = prob /\ cache' = CacheAt(n) /\ curCost' = curCost
  BY DEF ProcessExpandAND
<1>6. /\ Live' = Live \cup K
      /\ \A q \in K : node'[q] = NewOR(Var(q), a)
      /\ \A q \in Live : node'[q] = node[q]
  <2> HIDE DEF K, a
  <2> QED  BY <1>4, <1>5 DEF Added, Live
<1>7. ASSUME NEW q \in K
      PROVE  /\ IsSearchPath(q) /\ Len(q) = Len(n) + 1 /\ Parent(q) = n
             /\ NodeOK(prob, q, node'[q]) /\ ~IsAND(q) /\ Var(q) \in ChildSet(Var(n))
  <2>1. PICK y \in ChildSet(Var(n)) : q = Append(n, y)
    BY DEF OrChildren
  <2>2. IsSearchPath(q) /\ Len(q) = Len(n) + 1 /\ Parent(q) = n /\ Var(q) = y
    BY <1>3, <2>1
  <2>3. IsOR(q) /\ ~IsAND(q)
    BY <1>1, <2>2, KidOfAND, NodeVariable DEF IsSearchPath
  <2>4. ASSUME NEW z \in Ctx[Var(q)] PROVE a[z] = PathValue(q, z)
    <3>1. PICK j \in 1 .. Len(q) - 2 : j % 2 = 1 /\ q[j] = z /\ PathValue(q, z) = q[j + 1]
      BY <2>2, <2>3, ContextPlaces DEF IsSearchPath
    <3>2. q \in Path /\ Len(q) \in Nat /\ Len(q) >= 1 /\ \A i \in 1 .. Len(q) - 1 : n[i] = q[i]
      BY <2>2, ParentPath, ParentElements DEF IsSearchPath, IsNodePath
    <3>3. Len(n) = Len(q) - 1
      BY <1>1, <2>2, <3>2, NodeVariable
    <3>4. j \in 1 .. Len(n) - 1 /\ j \in 1 .. Len(q) - 1 /\ j + 1 \in 1 .. Len(q) - 1
      BY <3>1, <3>2, <3>3
    <3>5. a[n[j]] = n[j + 1]
      BY <1>2, <3>1, <3>4 DEF Agrees
    <3> QED  BY <3>1, <3>2, <3>4, <3>5
  <2>5. ELEM_NAN \in Cost /\ ~Greater(ELEM_NAN, Exact(prob, q))
    BY <1>1, <2>2, <2>3, ContextOfOR, NeverGreater, TimesLaws
  <2>6. NodeOK(prob, q, NewOR(Var(q), a))
    <3> HIDE DEF a
    <3> QED  BY <1>1, <1>2, <2>2, <2>3, <2>4, <2>5, NewORFits
  <2> QED  BY <1>6, <2>1, <2>2, <2>3, <2>6
<1>8. KidVars(K) = ChildSet(Var(n))
  <2>1. \A y \in ChildSet(Var(n)) : Append(n, y) \in K /\ Var(Append(n, y)) = y
    BY <1>3 DEF OrChildren
  <2> QED  BY <1>7, <2>1 DEF KidVars
<1>9. \A q \in Live : NodeOK(prob, q, node'[q])
  BY <1>6 DEF CostInv, NodesFit
<1>10. CacheSound(prob, cache', Live \ (O \ {n}))
  BY <1>1, <1>5, HandledCache
<1> HIDE DEF K, a
<1>11. CostInv((O \ {n}) \cup K)'
  BY <1>4, <1>5, <1>6, <1>7, <1>8, <1>9, <1>10, GrowTree
<1> QED  BY <1>4, <1>11

(* The children of an OR node take the labels computed when it was made.   *)
LEMMA ExpandORFits ==
  ASSUME NEW O, SearchInv(O), CostInv(O), phase = "next", NEW n \in O,
         Agrees(assignment, Parent(n)),
         NEW s \in Seqs!SetToSeqs(AndChildren(n)), ProcessExpandOR(n, s)
  PROVE  CostInv((O \ {n}) \cup Elements(s))'
<1> DEFINE K == Elements(s)
           new == [q \in K |-> NewAND(node[n].heurCache[Val(q)])]
           nd == AfterCaching(n)[n]
<1>1. /\ n \in Live /\ IsNodePath(n) /\ IsSearchPath(n) /\ IsOR(n) /\ ~IsAND(n)
      /\ prob \in Problems /\ NodeOK(prob, n, node[n])
  BY OpenNode, NodeVariable DEF CostInv, NodesFit, ProcessExpandOR
<1>2. /\ prob' = prob /\ cache' = cache /\ curCost' = curCost
      /\ node' = [Added(K, new) EXCEPT ![n] = nd]
  BY DEF ProcessExpandOR, Elements
<1>3. K \subseteq AndChildren(n) /\ K \cap Live = {}
  <2>1. Var(n) \in Vars /\ IsFiniteSet(AndChildren(n))
    BY <1>1, NodeVariable, FiniteAndChildren
  <2>2. AndChildren(n) \in SUBSET Path
    <3>1. ASSUME NEW v \in Values(Var(n)) PROVE Append(n, v) \in Path
      BY <1>1, ChildOfOR DEF IsSearchPath, IsNodePath
    <3> QED  BY <3>1 DEF AndChildren
  <2>3. Elements(s) = AndChildren(n)
    BY <2>1, <2>2, ChildOrder
  <2> QED  BY <2>3, ExpandKeeps
<1>4. /\ Live' = Live \cup K
      /\ \A q \in K : node'[q] = new[q]
      /\ node'[n] = nd
      /\ \A q \in Live : q # n => node'[q] = node[q]
  <2> HIDE DEF K, new, nd
  <2> QED  BY <1>1, <1>2, <1>3 DEF Added, Live
<1>5. ASSUME NEW q \in K
      PROVE  /\ IsSearchPath(q) /\ Len(q) = Len(n) + 1 /\ Parent(q) = n
             /\ NodeOK(prob, q, node'[q]) /\ node'[q].subSolved = ELEM_ONE
  <2>1. PICK v \in Values(Var(n)) : q = Append(n, v)
    BY <1>3 DEF AndChildren
  <2>2. IsSearchPath(q) /\ Len(q) = Len(n) + 1 /\ Parent(q) = n /\ Val(q) = v
    BY <1>1, <2>1, ChildOfOR
  <2>3. node'[q] = NewAND(node[n].heurCache[v])
    <3>1. new[q] = NewAND(node[n].heurCache[v])
      BY <1>5, <2>2
    <3> QED  BY <1>4, <3>1
  <2>4. LET nw == NewAND(node[n].heurCache[v])
        IN  NodeOK(prob, q, nw) /\ nw.subSolved = ELEM_ONE
    BY <1>1, <2>1, NewANDFits
  <2> QED  BY <2>2, <2>3, <2>4
<1>6. NodeOK(prob, n, nd)
  BY <1>1, AfterCachingFits
<1> HIDE DEF K, new, nd
<1>7. ASSUME NEW q \in Live
      PROVE  /\ NodeOK(prob, q, node'[q])
             /\ IsAND(q) => node'[q].subSolved = node[q].subSolved
  BY <1>1, <1>4, <1>6 DEF CostInv, NodesFit
<1>8. CacheSound(prob, cache', Live \ (O \ {n}))
  <2>1. CacheAt(n) = cache'
    BY <1>1, <1>2 DEF CacheAt
  <2> QED  BY <1>1, <2>1, HandledCache
<1>9. CostInv((O \ {n}) \cup K)'
  BY <1>1, <1>2, <1>3, <1>4, <1>5, <1>7, <1>8, GrowTree
<1> QED  BY <1>9 DEF K

(* A new bound does not touch what a node is worth.                        *)
LEMMA NewHeurFits ==
  ASSUME NEW P, NEW p, IsNodePath(p), NEW nd, NodeOK(P, p, nd), NEW h
  PROVE  /\ NodeOK(P, p, [nd EXCEPT !.heur = h])
         /\ IsAND(p) => [nd EXCEPT !.heur = h].subSolved = nd.subSolved
<1>1. DOMAIN nd = IF IsOR(p) THEN OrFields ELSE AndFields
  BY DEF NodeOK
<1> DEFINE new == [nd EXCEPT !.heur = h]
<1>2. /\ DOMAIN new = DOMAIN nd /\ new.value = nd.value
      /\ IF IsOR(p)
         THEN new.heurCache = nd.heurCache /\ new.cachable = nd.cachable /\ new.context = nd.context
         ELSE new.label = nd.label /\ new.subSolved = nd.subSolved
  BY <1>1 DEF OrFields, AndFields
<1> HIDE DEF new
<1> QED  BY <1>2, NodeVariable DEF NodeOK, new

(* A step that leaves all costs but the bounds of the nodes alone.         *)
LEMMA BoundsOnly ==
  ASSUME NEW O, CostInv(O), prob' = prob, curCost' = curCost, cache' = cache,
         Live' = Live,
         \A q \in Live : node'[q] = node[q] \/ \E h : node'[q] = [node[q] EXCEPT !.heur = h]
  PROVE  CostInv(O)'
<1>1. ASSUME NEW q \in Live
      PROVE  NodeOK(prob, q, node'[q]) /\ (IsAND(q) => node'[q].subSolved = node[q].subSolved)
  <2>1. NodeOK(prob, q, node[q]) /\ IsNodePath(q)
    BY DEF CostInv, NodesFit, IsSearchPath
  <2>2. CASE node'[q] = node[q]
    BY <2>1, <2>2
  <2>3. CASE \E h : node'[q] = [node[q] EXCEPT !.heur = h]
    <3>1. PICK h : node'[q] = [node[q] EXCEPT !.heur = h]
      BY <2>3
    <3> DEFINE nd == node[q]
    <3> HIDE DEF nd
    <3>2. /\ NodeOK(prob, q, [nd EXCEPT !.heur = h])
          /\ IsAND(q) => [nd EXCEPT !.heur = h].subSolved = nd.subSolved
      BY <2>1, NewHeurFits DEF nd
    <3> QED  BY <3>1, <3>2 DEF nd
  <2> QED  BY <2>2, <2>3
<1>2. CacheSound(prob, cache', Live \ O)
  BY DEF CostInv
<1> QED  BY <1>1, <1>2, SameTree

(* The loop of propHeuristic.                                              *)
LEMMA HeurFits ==
  ASSUME NEW O, CostInv(O), PropHeurAND \/ PropHeurOR \/ PropHeurEnd
  PROVE  CostInv(O)'
<1>1. CASE PropHeurAND \/ PropHeurOR
  <2>1. PICK h, delta, goOn : HeurUp(h, delta, goOn)
    BY <1>1 DEF PropHeurAND, PropHeurOR
  <2>2. /\ node' = [node EXCEPT ![reg.prev].heur = h]
        /\ prob' = prob /\ curCost' = curCost /\ cache' = cache
    BY <2>1 DEF HeurUp
  <2>3. /\ Live' = Live
        /\ \A q \in Live : node'[q] = IF q = reg.prev THEN [node[q] EXCEPT !.heur = h] ELSE node[q]
    BY <2>2 DEF Live
  <2> QED  BY <2>2, <2>3, BoundsOnly
<1>2. CASE PropHeurEnd
  <2>1. node' = node /\ prob' = prob /\ curCost' = curCost /\ cache' = cache
    BY <1>2 DEF PropHeurEnd
  <2> QED  BY <2>1, BoundsOnly DEF Live
<1> QED  BY <1>1, <1>2

-----------------------------------------------------------------------------
(* The node that propagate updates is the parent of the one it comes from. *)
LEMMA ClimbingNode ==
  ASSUME NEW O, SearchInv(O), CostInv(O), phase = "climb", Len(cur) > 0
  PROVE  /\ reg.prev \in Live /\ cur \in Live /\ reg.prev \in KidsIn(Live, cur)
         /\ IsSearchPath(reg.prev) /\ IsSearchPath(cur) /\ Parent(reg.prev) = cur
         /\ Len(reg.prev) = Len(cur) + 1 /\ Len(cur) \in Nat
         /\ KidPaths(cur, KidsIn(Live, cur))
<1>1. reg.prev \in Live /\ Tree(Live)
  BY DEF SearchInv, SearchTypeOK, Pointers, Climbing, Closing
<1>2. reg.prev \in Path /\ Len(reg.prev) \in Nat /\ Len(reg.prev) >= 1
  BY <1>1, ParentPath DEF Tree, IsNodePath
<1>3. Len(cur) = Len(reg.prev) - 1
  BY <1>2, ParentPath DEF cur
<1>4. Len(reg.prev) >= 2
  BY <1>2, <1>3
<1>5. cur \in Live /\ reg.prev \in KidsIn(Live, cur)
  BY <1>1, <1>4, LiveParent DEF cur
<1>6. KidPaths(cur, KidsIn(Live, cur))
  BY DEF KidPaths, KidsIn, CostInv, NodesFit
<1> QED  BY <1>1, <1>2, <1>3, <1>5, <1>6 DEF CostInv, NodesFit, cur

(* What a closed child writes to its table.                                *)
LEMMA CacheWriteFits ==
  ASSUME NEW O, SearchInv(O), CostInv(O), phase = "climb", IsAND(cur),
         OneValued(Live \ O)
  PROVE  CacheSound(prob, CacheWrite(reg.prev), Live \ O)
<1> DEFINE p == reg.prev
           A == Live \ O
           x == Var(p)
           v == node[p].value
           c == node[p].context
           new == [cache EXCEPT ![x] =
                     [k \in DOMAIN cache[x] \cup {c} |-> IF k = c THEN v ELSE cache[x][k]]]
<1>1. /\ p \in Live /\ IsSearchPath(p) /\ IsSearchPath(cur) /\ Parent(p) = cur
      /\ Len(p) = Len(cur) + 1
  BY ClimbingNode DEF IsAND
<1>2. prob \in Problems /\ CacheSound(prob, cache, A) /\ NodeOK(prob, p, node[p])
  BY <1>1 DEF CostInv, NodesFit
<1>3. IsOR(p) /\ x \in Vars
  BY <1>1, <1>2, KidOfAND, NodeVariable DEF IsSearchPath
<1>4. /\ v \in Cost /\ ~Greater(v, ExactOR(prob, p))
      /\ node[p].cachable => c = PathRestriction(p, CacheCtx(x))
  BY <1>2, <1>3 DEF NodeOK, Exact
<1>5. ResetIn(A, p, x)
  BY <1>1, HandledAbove
<1>6. A \subseteq Path /\ OneValued(A)
  BY DEF SearchInv, SearchTypeOK
<1>7. Entered(cache, x, c, v, new)
  <2>1. DOMAIN cache = Vars
    BY DEF SearchInv, SearchTypeOK
  <2> HIDE DEF x, v, c
  <2> QED  BY <2>1 DEF Entered
<1>8. CacheWrite(p) = cache \/ (node[p].cachable /\ CacheWrite(p) = new)
  BY DEF CacheWrite
<1>9. CASE node[p].cachable /\ CacheWrite(p) = new
  <2>1. c = PathRestriction(p, CacheCtx(x))
    BY <1>4, <1>9
  <2> HIDE DEF new, A, v, c, p
  <2>2. /\ IsSearchPath(p) /\ ResetIn(A, p, Var(p))
        /\ c = PathRestriction(p, CacheCtx(Var(p)))
        /\ Entered(cache, Var(p), c, v, new)
    BY <1>1, <1>5, <1>7, <2>1
  <2>3. <<v, ExactOR(prob, p)>> \in AtMost
    <3>1. ExactOR(prob, p) \in Cost
      BY <1>1, <1>2, <1>3, ContextOfOR, TimesLaws
    <3> QED  BY <1>4, <3>1 DEF AtMost
  <2>4. CacheSound(prob, new, A)
    BY ONLY <1>2, <1>3, <1>4, <1>6, <2>2, <2>3, WriteSound DEF CacheSound
  <2> QED  BY <1>9, <2>4 DEF p, A
<1> QED  BY <1>2, <1>8, <1>9

(* propagate at an AND node. *)
LEMMA PropagateANDFits ==
  ASSUME NEW O, SearchInv(O), CostInv(O), PropagateAND,
         OneValued(Live \ O)
  PROVE  CostInv(O)'
<1> DEFINE K == KidsIn(Live, cur)
           val == [q \in K |-> node[q].value]
           sub == node[cur].subSolved
           d == Times(sub, Product(val))
<1>1. phase = "climb" /\ IsAND(cur) /\ Len(cur) > 0
  BY DEF PropagateAND, IsAND
<1>2. cur \in Live /\ IsSearchPath(cur) /\ K # {} /\ KidPaths(cur, K)
  BY <1>1, ClimbingNode
<1>3. /\ prob \in Problems /\ sub \in Cost /\ RestOK(prob, cur, sub, K)
      /\ NodeOK(prob, cur, node[cur])
  <2>1. prob \in Problems /\ NodeOK(prob, cur, node[cur]) /\ RestOK(prob, cur, sub, K)
    BY <1>1, <1>2 DEF CostInv, NodesFit, RestsFit
  <2>2. ~IsOR(cur)
    BY <1>1, <1>2, NodeVariable DEF IsSearchPath
  <2> QED  BY <2>1, <2>2 DEF NodeOK
<1>4. val \in [K -> Cost] /\ \A q \in K : ~Greater(val[q], Exact(prob, q))
  <2>1. \A q \in K : node[q].value \in Cost /\ ~Greater(node[q].value, Exact(prob, q))
    BY DEF CostInv, NodesFit, NodeOK, KidsIn
  <2> QED  BY <2>1
<1>5. d \in Cost /\ ~Greater(d, Exact(prob, cur))
  <2> HIDE DEF K, val, sub
  <2> QED  BY <1>1, <1>2, <1>3, <1>4, ValueAtAND
<1>6. /\ prob' = prob /\ curCost' = curCost /\ cache' = CacheWrite(reg.prev)
      /\ node' = node \/ node' = [node EXCEPT ![cur].value = d]
  <2>1. Kids(cur) = K
    BY DEF Kids, KidsIn
  <2> HIDE DEF K
  <2> QED  BY <2>1 DEF PropagateAND
<1>7. CacheSound(prob, cache', Live \ O)
  BY <1>1, <1>6, CacheWriteFits
<1> HIDE DEF d
<1>8. CASE node' = node
  BY <1>6, <1>7, <1>8, SameTree DEF CostInv, NodesFit, Live
<1>9. CASE node' = [node EXCEPT ![cur].value = d]
  BY <1>2, <1>5, <1>6, <1>7, <1>9, ValueStep
<1> QED  BY <1>6, <1>8, <1>9

(* propagate at an OR node. *)
LEMMA PropagateORFits ==
  ASSUME NEW O, SearchInv(O), CostInv(O), PropagateOR
  PROVE  CostInv(O)'
<1> DEFINE d == Times(node[reg.prev].value, node[reg.prev].label)
<1>1. phase = "climb" /\ Len(cur) % 2 = 1
  BY DEF PropagateOR, IsOR
<1>2. Len(cur) > 0
  <2>1. reg.prev \in Path /\ Parent(reg.prev) \in Path
    BY ParentPath DEF SearchInv, SearchTypeOK
  <2>2. Len(cur) \in Nat
    BY <2>1, ParentPath DEF cur
  <2> QED  BY <1>1, <2>2
<1>3. /\ reg.prev \in Live /\ IsSearchPath(reg.prev) /\ cur \in Live
      /\ Parent(reg.prev) = cur /\ Len(reg.prev) = Len(cur) + 1 /\ Len(cur) \in Nat
  BY <1>1, <1>2, ClimbingNode
<1>4. IsAND(reg.prev)
  BY <1>1, <1>3 DEF IsAND
<1>5. prob \in Problems /\ NodeOK(prob, reg.prev, node[reg.prev])
  BY <1>3 DEF CostInv, NodesFit
<1>6. d \in Cost /\ ~Greater(d, Exact(prob, cur))
  BY <1>3, <1>4, <1>5, ValueAtOR
<1>7. /\ prob' = prob /\ curCost' = curCost /\ cache' = cache
      /\ node' = node \/ node' = [node EXCEPT ![cur].value = d]
  BY DEF PropagateOR
<1>8. CacheSound(prob, cache', Live \ O)
  BY <1>7 DEF CostInv
<1> HIDE DEF d
<1>9. CASE node' = node
  BY <1>7, <1>8, <1>9, SameTree DEF CostInv, NodesFit, Live
<1>10. CASE node' = [node EXCEPT ![cur].value = d]
  BY <1>3, <1>6, <1>7, <1>8, <1>10, ValueStep
<1> QED  BY <1>7, <1>9, <1>10

(* The end of propagate: the value of the root is reported, and the parent *)
(* of what is erased keeps its value in subSolved.                         *)
LEMMA FinishFits ==
  ASSUME NEW O, SearchInv(O), CostInv(O), PropagateFinish
  PROVE  CostInv(O)'
<1> DEFINE high == reg.high
           par  == Parent(high)
<1>1. /\ Tree(Live) /\ Frontier(Live, O, {reg.leaf}) /\ reg.prev \in Live
      /\ high # NULL => high \in Live
      /\ \A q \in O : KidsIn(Live, q) = {}
  BY DEF PropagateFinish, SearchInv, Pointers, Climbing, Closing, Frontier
<1>2. /\ prob' = prob /\ cache' = cache
      /\ curCost' = IF AtRoot THEN UpdateSolution(node[RootNode].value) ELSE curCost
      /\ node' = IF high = NULL THEN node ELSE Erased(high)
  BY DEF PropagateFinish
<1>3. curCost' \in Cost /\ ~Greater(curCost', Optimum(prob)) /\ prob \in Problems
  <2>1. curCost \in Cost /\ ~Greater(curCost, Optimum(prob)) /\ prob \in Problems
    BY DEF CostInv
  <2>2. CASE AtRoot
    <3>1. RootNode \in Live
      BY <1>1, <2>2 DEF AtRoot
    <3>2. NodeOK(prob, RootNode, node[RootNode])
      BY <3>1 DEF CostInv, NodesFit
    <3>3. IsOR(RootNode)
      BY DEF IsOR, RootNode
    <3>4. node[RootNode].value \in Cost /\ ~Greater(node[RootNode].value, Optimum(prob))
      BY <3>2, <3>3 DEF NodeOK, Exact, Optimum
    <3> QED  BY <1>2, <2>1, <2>2, <3>4 DEF UpdateSolution
  <2> QED  BY <1>2, <2>1, <2>2
<1>4. CASE high = NULL
  <2>1. node' = node /\ Live' = Live
    BY <1>2, <1>4 DEF Live
  <2>2. NodesFit' /\ RestsFit(O)' /\ CacheSound(prob, cache, Live \ O)'
    BY <1>2, <2>1 DEF CostInv, NodesFit, RestsFit
  <2> QED  BY <1>2, <1>3, <2>2 DEF CostInv
<1>5. CASE high # NULL
  <2>1. /\ high \in Live /\ high \in Path /\ Len(high) \in Nat /\ Len(high) >= 1
    BY <1>1, <1>5, ParentPath DEF Tree, IsNodePath
  <2>2. Len(par) = Len(high) - 1
    BY <2>1, ParentPath
  <2> HIDE DEF high, par
  <2>3. /\ Live' = {q \in Live : ~Above(high, q)}
        /\ \A q \in Live' : node'[q] = IF q = par /\ IsAND(par)
                                       THEN [node[q] EXCEPT !.subSolved = Times(@, node[high].value)]
                                       ELSE node[q]
    BY <1>2, <1>5 DEF Erased, Live, par
  <2>4. IsAND(par) /\ par \in Live =>
          /\ IsSearchPath(par) /\ high \in KidsIn(Live, par) /\ ~IsOR(par)
          /\ KidPaths(par, KidsIn(Live, par))
          /\ node[par].subSolved \in Cost /\ node[high].value \in Cost
          /\ ~Greater(node[high].value, Exact(prob, high))
          /\ RestOK(prob, par, node[par].subSolved, KidsIn(Live, par))
    <3> SUFFICES ASSUME IsAND(par), par \in Live
                 PROVE  /\ IsSearchPath(par) /\ high \in KidsIn(Live, par) /\ ~IsOR(par)
                        /\ KidPaths(par, KidsIn(Live, par))
                        /\ node[par].subSolved \in Cost /\ node[high].value \in Cost
                        /\ ~Greater(node[high].value, Exact(prob, high))
                        /\ RestOK(prob, par, node[par].subSolved, KidsIn(Live, par))
      OBVIOUS
    <3>1. IsSearchPath(par) /\ NodeOK(prob, par, node[par]) /\ NodeOK(prob, high, node[high])
      BY <2>1 DEF CostInv, NodesFit
    <3>2. high \in KidsIn(Live, par)
      BY <2>1, <2>2 DEF KidsIn, par
    <3>3. KidPaths(par, KidsIn(Live, par))
      BY DEF KidPaths, KidsIn, CostInv, NodesFit
    <3>4. ~IsOR(par)
      BY <3>1, NodeVariable DEF IsSearchPath
    <3>5. RestOK(prob, par, node[par].subSolved, KidsIn(Live, par))
      BY <3>2 DEF CostInv, RestsFit
    <3> QED  BY <3>1, <3>2, <3>3, <3>4, <3>5 DEF NodeOK
  <2>5. IsAND(par) /\ par \in Live =>
          /\ Times(node[par].subSolved, node[high].value) \in Cost
          /\ RestOK(prob, par, Times(node[par].subSolved, node[high].value),
                    KidsIn(Live, par) \ {high})
    BY <1>3, <2>4, RestAfterErase
  <2>6. ASSUME NEW p \in Live'
        PROVE  IsSearchPath(p) /\ NodeOK(prob, p, node'[p])
    <3>1. p \in Live /\ IsSearchPath(p) /\ NodeOK(prob, p, node[p])
      BY <2>3 DEF CostInv, NodesFit
    <3>2. CASE p = par /\ IsAND(par)
      <4> DEFINE nd == [node[p] EXCEPT !.subSolved = Times(@, node[high].value)]
      <4>1. DOMAIN node[p] = AndFields /\ ~IsOR(p)
        BY <2>4, <3>1, <3>2 DEF NodeOK
      <4>2. /\ DOMAIN nd = AndFields /\ nd.value = node[p].value /\ nd.label = node[p].label
            /\ nd.subSolved = Times(node[p].subSolved, node[high].value)
        BY <4>1 DEF AndFields
      <4>3. node'[p] = nd
        BY <2>3, <3>2
      <4> HIDE DEF nd
      <4> QED  BY <2>5, <3>1, <3>2, <4>1, <4>2, <4>3 DEF NodeOK
    <3>3. CASE ~(p = par /\ IsAND(par))
      BY <2>3, <3>1, <3>3
    <3> QED  BY <3>2, <3>3
  <2>7. /\ high \notin Live'
        /\ \A p \in Live' : p # par => KidsIn(Live', p) = KidsIn(Live, p)
        /\ KidsIn(Live', par) = KidsIn(Live, par) \ {high}
    BY <1>1, <2>1, <2>3, KidsAfterErase DEF par
  <2>10. ASSUME NEW p \in Live', IsAND(p)
         PROVE  /\ p \in O => node'[p].subSolved = ELEM_ONE
                /\ KidsIn(Live', p) # {} => RestOK(prob, p, node'[p].subSolved, KidsIn(Live', p))
    <3>1. p \in Live
      BY <2>3
    <3>2. CASE p # par
      <4>1. node'[p] = node[p] /\ KidsIn(Live', p) = KidsIn(Live, p)
        BY <2>3, <2>7, <3>2
      <4> QED  BY <2>10, <3>1, <4>1 DEF CostInv, RestsFit
    <3>3. CASE p = par
      <4>1. p \notin O
        BY <1>1, <2>4, <2>10, <3>1, <3>3
      <4>2. KidsIn(Live', p) = KidsIn(Live, par) \ {high}
        BY <2>7, <3>3
      <4>3. node'[p].subSolved = Times(node[par].subSolved, node[high].value)
        <5>1. DOMAIN node[p] = AndFields
          BY <2>4, <2>10, <3>1, <3>3 DEF CostInv, NodesFit, NodeOK
        <5>2. node'[p] = [node[p] EXCEPT !.subSolved = Times(@, node[high].value)]
          BY <2>3, <2>10, <3>3
        <5> QED  BY <3>3, <5>1, <5>2 DEF AndFields
      <4> QED  BY <2>5, <2>10, <3>1, <3>3, <4>1, <4>2, <4>3
    <3> QED  BY <3>2, <3>3
  <2>11. NodesFit' /\ RestsFit(O)'
    BY <1>2, <2>6, <2>10 DEF NodesFit, RestsFit
  <2>12. CacheSound(prob, cache, Live' \ O)
    <3>1. Live' \ O \in SUBSET (Live \ O)
      BY <2>3
    <3> QED  BY <3>1, FewerActive DEF CostInv, CacheSound
  <2> QED  BY <1>2, <1>3, <2>11, <2>12 DEF CostInv
<1> QED  BY <1>4, <1>5

(* The root node as the search begins.                                     *)
LEMMA InitFits == SearchInit => CostInv({RootNode})
<1> SUFFICES ASSUME SearchInit PROVE CostInv({RootNode})
  OBVIOUS
<1>1. PICK k \in prob.known : /\ curCost \in {k, ELEM_NAN}
                              /\ node = [p \in {RootNode} |->
                                           [NewOR(Root, assignment) EXCEPT !.value = k]]
  BY DEF SearchInit
<1>2. prob \in Problems /\ cache = [x \in Vars |-> NoTable] /\ assignment = [x \in Vars |-> NONE]
  BY DEF SearchInit
<1>3. SearchInv({RootNode}) /\ Live = {RootNode}
  BY <1>1, InitSearch DEF Live
<1>4. /\ IsNodePath(RootNode) /\ Len(RootNode) = 1 /\ IsOR(RootNode) /\ Var(RootNode) = Root
  BY <1>3 DEF SearchInv, Tree, RootNode, IsOR, Var
<1>5. IsSearchPath(RootNode) /\ ~IsAND(RootNode)
  <2>1. InDomain(RootNode)
    BY <1>4 DEF InDomain
  <2> QED  BY <1>4, <2>1, NodeVariable DEF IsSearchPath
<1>6. Exact(prob, RootNode) = Optimum(prob) /\ Optimum(prob) \in Known
  BY <1>2, <1>4, <1>5, ContextOfOR DEF Optimum
<1>7. k \in Cost /\ ~Greater(k, Optimum(prob))
  BY <1>2, ProblemAssumption
<1>8. curCost \in Cost /\ ~Greater(curCost, Optimum(prob))
  BY <1>1, <1>6, <1>7, NeverGreater, TimesLaws
<1>9. NodeOK(prob, RootNode, node[RootNode])
  <2>1. assignment \in [Vars -> Int] /\ \A y \in Ctx[Root] : assignment[y] = PathValue(RootNode, y)
    BY <1>2, PseudotreeAssumption DEF NONE
  <2>2. NodeOK(prob, RootNode, [NewOR(Root, assignment) EXCEPT !.value = k])
    BY <1>2, <1>4, <1>5, <1>6, <1>7, <2>1, NewORFits
  <2> QED  BY <1>1, <2>2
<1>10. NodesFit /\ RestsFit({RootNode})
  BY <1>3, <1>5, <1>9 DEF NodesFit, RestsFit
<1>11. CacheSound(prob, cache, Live \ {RootNode})
  <2>1. \A x \in Vars : DOMAIN cache[x] = {}
    BY <1>2 DEF NoTable
  <2> QED  BY <2>1, Zenon DEF CacheSound, CacheHolds
<1> QED  BY <1>2, <1>8, <1>10, <1>11 DEF CostInv
=============================================================================
