------------------------- MODULE SolverMain_proofs -------------------------
(***************************************************************************)
(* Proofs about preprocessing, the variable order, the mini-buckets and    *)
(* the stages of main(), under the specification of SolverMain: the width  *)
(* that min-fill reports is that of the tree, the trees that build() and   *)
(* buildChain() make are what the search assumes, the heuristic that is    *)
(* computed over them without moment matching never underestimates, and    *)
(* what is printed at the end is the optimum whichever stages are skipped. *)
(***************************************************************************)
EXTENDS SolverMain, CommonLemmas

Graph(H, S) ==
  /\ H \in [S -> SUBSET S]
  /\ \A x \in S : x \notin H[x] /\ \A y \in H[x] : x \in H[y]

Clique(H, C) == \A x, y \in C : x # y => y \in H[x]

Without(H, x) == RemoveNode(AddClique(H, H[x]), x)

-----------------------------------------------------------------------------
(* Eliminating a node leaves a graph, with no edge lost among the others,  *)
(* in which the former neighbours are connected.                           *)
LEMMA WithoutNode ==
  ASSUME NEW S, NEW H, Graph(H, S), NEW x \in S
  PROVE  /\ Graph(Without(H, x), S \ {x})
         /\ \A y \in S \ {x} : \A z \in H[y] : z # x => z \in Without(H, x)[y]
         /\ \A y \in S \ {x} : y \notin H[x] => Without(H, x)[y] \subseteq H[y]
         /\ Clique(Without(H, x), H[x])
<1>1. H[x] \subseteq S /\ DOMAIN H = S /\ x \notin H[x]
  BY DEF Graph
<1>2. S \cup H[x] = S
  BY <1>1
<1>3. /\ DOMAIN Without(H, x) = S \ {x}
      /\ \A y \in S \ {x} :
           Without(H, x)[y] = (H[y] \cup (IF y \in H[x] THEN H[x] \ {y} ELSE {})) \ {x}
      /\ Without(H, x) = [y \in S \ {x} |-> Without(H, x)[y]]
  BY <1>1, <1>2 DEF Without, RemoveNode, RemoveNodes, AddClique, NodesOf
<1>4. \A y \in S \ {x} : Without(H, x)[y] \subseteq S \ {x}
  BY <1>1, <1>3 DEF Graph
<1>5. ASSUME NEW y \in S \ {x}, NEW z \in Without(H, x)[y]
      PROVE  y \in Without(H, x)[z]
  BY <1>1, <1>3, <1>4 DEF Graph
<1>6. \A y \in S \ {x} : y \notin Without(H, x)[y]
  BY <1>1, <1>3 DEF Graph
<1>7. Without(H, x) \in [S \ {x} -> SUBSET (S \ {x})]
  BY <1>3, <1>4
<1>8. Clique(Without(H, x), H[x])
  BY <1>1, <1>3 DEF Clique
<1> QED  BY <1>3, <1>5, <1>6, <1>7, <1>8 DEF Graph

(* Nodes can be removed one by one.                                        *)
LEMMA RemovedNext ==
  ASSUME NEW H, NEW T, NEW x
  PROVE  RemoveNode(RemoveNodes(H, T), x) = RemoveNodes(H, T \cup {x})
<1> DEFINE S == DOMAIN H
<1>1. /\ RemoveNodes(H, T \cup {x}) = [y \in S \ (T \cup {x}) |-> H[y] \ (T \cup {x})]
      /\ RemoveNodes(H, T) = [y \in S \ T |-> H[y] \ T]
  BY DEF RemoveNodes, NodesOf
<1>2. RemoveNode(RemoveNodes(H, T), x) = [y \in (S \ T) \ {x} |-> (H[y] \ T) \ {x}]
  BY <1>1 DEF RemoveNode, RemoveNodes, NodesOf
<1>3. (S \ T) \ {x} = S \ (T \cup {x})
  OBVIOUS
<1>4. \A y : (H[y] \ T) \ {x} = H[y] \ (T \cup {x})
  OBVIOUS
<1> QED  BY <1>1, <1>2, <1>3, <1>4

(* Removing nodes leaves a graph.                                          *)
LEMMA NodesRemoved ==
  ASSUME NEW S, NEW H, Graph(H, S), NEW T
  PROVE  /\ Graph(RemoveNodes(H, T), S \ T)
         /\ \A y \in S \ T : RemoveNodes(H, T)[y] = H[y] \ T
         /\ RemoveNodes(H, {}) = H
<1>1. DOMAIN H = S
  BY DEF Graph
<1>2. /\ RemoveNodes(H, T) = [y \in S \ T |-> H[y] \ T]
      /\ RemoveNodes(H, {}) = [y \in S |-> H[y] \ {}]
  BY <1>1 DEF RemoveNodes, NodesOf
<1>3. Graph(RemoveNodes(H, T), S \ T)
  BY <1>2 DEF Graph
<1>5. RemoveNodes(H, {}) = H
  <2>1. H = [y \in S |-> H[y]] /\ \A y : H[y] \ {} = H[y]
    BY DEF Graph
  <2> QED  BY <1>2, <2>1
<1> QED  BY <1>2, <1>3, <1>5

(* To eliminate a node whose neighbours are connected is to remove it.     *)
LEMMA SimplicialNode ==
  ASSUME NEW S, NEW H, Graph(H, S), NEW x \in S, Clique(H, H[x])
  PROVE  Without(H, x) = RemoveNode(H, x)
<1>1. H[x] \subseteq S /\ DOMAIN H = S /\ S \cup H[x] = S
  BY DEF Graph
<1>2. AddClique(H, H[x]) = [y \in S |-> H[y] \cup (IF y \in H[x] THEN H[x] \ {y} ELSE {})]
  BY <1>1 DEF AddClique, NodesOf
<1>3. \A y \in S : H[y] \cup (IF y \in H[x] THEN H[x] \ {y} ELSE {}) = H[y]
  BY DEF Clique
<1>4. AddClique(H, H[x]) = [y \in S |-> H[y]]
  BY <1>2, <1>3
<1>5. H = [y \in S |-> H[y]]
  BY DEF Graph
<1> QED  BY <1>4, <1>5 DEF Without

-----------------------------------------------------------------------------
(* The number of edges to fill in is a natural number, and smaller if no   *)
(* pair of neighbours is unconnected that was not so before.               *)
LEMMA FillCounted ==
  ASSUME NEW S, IsFiniteSet(S), NEW H, Graph(H, S), NEW x \in S
  PROVE  /\ ScoreMinfill(H, x) \in Nat
         /\ \A A, y : FillIn(A, y) \subseteq FillIn(H, x) =>
              /\ ScoreMinfill(A, y) \in Nat
              /\ ScoreMinfill(A, y) <= ScoreMinfill(H, x)
<1>1. H[x] \subseteq S
  BY DEF Graph
<1>2. IsFiniteSet(H[x])
  BY <1>1, FS_Subset
<1>3. IsFiniteSet(SUBSET H[x])
  BY <1>2, FS_SUBSET
<1>4. FillIn(H, x) \in SUBSET (SUBSET H[x])
  BY DEF FillIn, kSubset
<1>5. IsFiniteSet(FillIn(H, x))
  BY <1>3, <1>4, FS_Subset
<1>6. ScoreMinfill(H, x) \in Nat
  BY <1>5, FS_CardinalityType DEF ScoreMinfill
<1>7. ASSUME NEW A, NEW y, FillIn(A, y) \subseteq FillIn(H, x)
      PROVE  ScoreMinfill(A, y) \in Nat /\ ScoreMinfill(A, y) <= ScoreMinfill(H, x)
  <2>1. FillIn(A, y) \in SUBSET FillIn(H, x)
    BY <1>7
  <2> QED  BY <1>5, <2>1, FS_Subset, FS_CardinalityType DEF ScoreMinfill
<1> QED  BY <1>6, <1>7

(* If there is nothing to fill in then all neighbours are connected.       *)
LEMMA NoFill ==
  ASSUME NEW S, IsFiniteSet(S), NEW H, Graph(H, S), NEW x \in S, ScoreMinfill(H, x) = 0
  PROVE  Clique(H, H[x])
<1>1. H[x] \subseteq S
  BY DEF Graph
<1>2. IsFiniteSet(FillIn(H, x))
  <2>1. IsFiniteSet(SUBSET H[x])
    BY <1>1, FS_Subset, FS_SUBSET
  <2>2. FillIn(H, x) \in SUBSET (SUBSET H[x])
    BY DEF FillIn, kSubset
  <2> QED  BY <2>1, <2>2, FS_Subset
<1>3. FillIn(H, x) = {}
  BY <1>2, FS_EmptySet DEF ScoreMinfill
<1> SUFFICES ASSUME NEW a \in H[x], NEW b \in H[x], a # b PROVE b \in H[a]
  BY DEF Clique
<1>4. Cardinality({a, b}) = 2
  <2>1. IsFiniteSet({a}) /\ Cardinality({a}) = 1
    BY FS_Singleton
  <2>2. b \notin {a}
    OBVIOUS
  <2>3. Cardinality({a} \cup {b}) = Cardinality({a}) + 1
    BY <2>1, <2>2, FS_AddElement
  <2>4. {a} \cup {b} = {a, b}
    OBVIOUS
  <2> QED  BY <2>1, <2>3, <2>4
<1>5. {a, b} \in kSubset(2, H[x])
  BY <1>4 DEF kSubset
<1>6. PICK y \in {a, b} : {a, b} \cap H[y] # {}
  BY <1>3, <1>5 DEF FillIn
<1> QED  BY <1>1, <1>6 DEF Graph

(* Eliminating x adds no unconnected pair to the neighbours of a node that *)
(* is not a neighbour of x.                                                *)
LEMMA FillAfterElimination ==
  ASSUME NEW S, IsFiniteSet(S), NEW H, Graph(H, S), NEW x \in S,
         NEW y \in S \ {x}, y \notin H[x]
  PROVE  FillIn(Without(H, x), y) \subseteq FillIn(H, y)
<1> DEFINE R == Without(H, x)
<1>1. /\ R[y] \subseteq H[y] /\ H[y] \subseteq S /\ x \notin R[y]
      /\ \A z \in S \ {x} : H[z] \ {x} \subseteq R[z]
  <2>1. H[y] \subseteq S
    BY DEF Graph
  <2>2. \A z \in S \ {x} : \A w \in H[z] : w # x => w \in Without(H, x)[z]
    BY WithoutNode
  <2>3. R[y] \subseteq H[y]
    BY WithoutNode
  <2>4. Graph(R, S \ {x})
    BY WithoutNode
  <2>5. x \notin R[y]
    BY <2>4 DEF Graph
  <2> QED  BY <2>1, <2>2, <2>3, <2>5
<1> HIDE DEF R
<1>2. ASSUME NEW e \in FillIn(R, y)
      PROVE  e \in FillIn(H, y)
  <2>1. e \in SUBSET R[y] /\ Cardinality(e) = 2 /\ \A z \in e : e \cap R[z] = {}
    BY DEF FillIn, kSubset
  <2>2. e \in kSubset(2, H[y])
    BY <1>1, <2>1 DEF kSubset
  <2>3. \A z \in e : e \cap H[z] = {}
    BY <1>1, <2>1
  <2> QED  BY <2>2, <2>3 DEF FillIn
<1> QED  BY <1>2 DEF R

(* So does removing nodes.                                                 *)
LEMMA FillAfterRemoval ==
  ASSUME NEW S, NEW H, Graph(H, S), NEW T, NEW y \in S \ T
  PROVE  FillIn(RemoveNodes(H, T), y) \subseteq FillIn(H, y)
<1> DEFINE R == RemoveNodes(H, T)
<1>1. H[y] \subseteq S /\ \A z \in S \ T : R[z] = H[z] \ T
  BY DEF Graph, RemoveNodes, NodesOf
<1> HIDE DEF R
<1>2. ASSUME NEW e \in FillIn(R, y)
      PROVE  e \in FillIn(H, y)
  <2>1. e \in SUBSET R[y] /\ Cardinality(e) = 2 /\ \A z \in e : e \cap R[z] = {}
    BY DEF FillIn, kSubset
  <2>2. e \subseteq H[y] \ T
    BY <1>1, <2>1
  <2>3. e \in kSubset(2, H[y])
    BY <2>1, <2>2 DEF kSubset
  <2>4. \A z \in e : e \cap H[z] = {}
    BY <1>1, <2>1, <2>2
  <2> QED  BY <2>3, <2>4 DEF FillIn
<1> QED  BY <1>2 DEF R

-----------------------------------------------------------------------------
(* A bounded set of integers has a greatest element.                       *)
LEMMA Greatest ==
  ASSUME NEW T, T \subseteq Int, T # {}, NEW b \in Int, \A x \in T : x <= b
  PROVE  Max(T) \in T /\ \A x \in T : x <= Max(T)
<1> DEFINE D == {b - x : x \in T}
<1>1. D \subseteq Nat /\ D # {}
  <2>1. \A x \in T : x \in Int /\ x <= b
    OBVIOUS
  <2>2. \A x \in T : b - x \in Nat
    BY <2>1
  <2> QED  BY <2>2
<1>2. PICK d \in D : \A c \in D : d <= c
  BY <1>1, LeastNat
<1>3. PICK m \in T : d = b - m
  OBVIOUS
<1>4. \A x \in T : m >= x
  <2> SUFFICES ASSUME NEW x \in T PROVE m >= x
    OBVIOUS
  <2>1. m \in Int /\ x \in Int
    OBVIOUS
  <2>2. b - m <= b - x
    BY <1>2, <1>3
  <2> QED  BY <2>1, <2>2
<1> QED  BY <1>4 DEF Max

(* ByIndex lists a finite set of numbers, each of them once.               *)
LEMMA ByIndexLists ==
  ASSUME NEW S, S \subseteq Int, IsFiniteSet(S)
  PROVE  /\ ByIndex(S) \in Seq(S) /\ Len(ByIndex(S)) = Cardinality(S)
         /\ NoRepeat(ByIndex(S)) /\ Elements(ByIndex(S)) = S
<1> DEFINE n == Cardinality(S)
           below(x) == {y \in S : y < x}
           rank == [x \in S |-> Cardinality(below(x))]
<1>1. n \in Nat
  BY FS_CardinalityType
<1>2. ASSUME NEW x \in S
      PROVE  IsFiniteSet(below(x)) /\ rank[x] \in 0 .. n - 1
  <2>1. below(x) \in SUBSET S /\ below(x) # S
    OBVIOUS
  <2>2. IsFiniteSet(below(x)) /\ Cardinality(below(x)) <= n /\ Cardinality(below(x)) # n
    BY <2>1, FS_Subset
  <2> QED  BY <1>1, <2>2, FS_CardinalityType
<1>3. ASSUME NEW x \in S, NEW z \in S, x < z
      PROVE  rank[x] < rank[z]
  <2>0. \A y \in S : y \in Int
    OBVIOUS
  <2>1. below(x) \in SUBSET below(z) /\ x \in below(z) /\ x \notin below(x)
    <3>1. \A y \in S : y < x => y < z
      BY <1>3, <2>0
    <3>2. ~(x < x)
      BY <2>0
    <3> QED  BY <1>3, <3>1, <3>2
  <2>2. Cardinality(below(x)) <= Cardinality(below(z))
        /\ Cardinality(below(x)) # Cardinality(below(z))
    BY <1>2, <2>1, FS_Subset
  <2> QED  BY <1>2, <2>2
<1>0. \A x \in S : Cardinality(below(x)) = rank[x]
  OBVIOUS
<1> HIDE DEF rank, n
<1>4. \A x, z \in S : rank[x] = rank[z] => x = z
  <2> SUFFICES ASSUME NEW x \in S, NEW z \in S, rank[x] = rank[z] PROVE x = z
    OBVIOUS
  <2>0. rank[x] \in 0 .. n - 1
    BY <1>2
  <2>1. rank[x] \in Int /\ x \in Int /\ z \in Int
    BY <1>1, <2>0
  <2>2. ~(rank[x] < rank[z]) /\ ~(rank[z] < rank[x])
    BY <2>1
  <2>3. ~(x < z) /\ ~(z < x)
    BY <1>3, <2>2
  <2> QED  BY <2>1, <2>3
<1>5. rank \in Injection(S, 0 .. n - 1)
  <2>1. rank \in [S -> 0 .. n - 1]
    BY <1>2 DEF rank
  <2> QED  BY <1>4, <2>1 DEF Injection, IsInjective
<1>6. IsFiniteSet(0 .. n - 1) /\ Cardinality(0 .. n - 1) = n
  BY <1>1, FS_Interval
<1>7. rank \in Surjection(S, 0 .. n - 1)
  BY <1>5, <1>6, FS_Injection DEF n
<1>8. \A i \in 1 .. n : \E x \in S : rank[x] = i - 1
  <2>1. \A k \in 0 .. n - 1 : \E x \in S : rank[x] = k
    BY <1>7 DEF Surjection
  <2> QED  BY <1>1, <2>1
<1> DEFINE s == ByIndex(S)
<1>9. DOMAIN s = 1 .. n /\ s = [i \in 1 .. n |-> s[i]]
      /\ \A i \in 1 .. n : s[i] = CHOOSE x \in S : rank[x] = i - 1
  <2>1. ByIndex(S) = [i \in 1 .. n |-> CHOOSE x \in S : Cardinality(below(x)) = i - 1]
    BY DEF ByIndex, n
  <2>2. \A i : (CHOOSE x \in S : Cardinality(below(x)) = i - 1)
               = CHOOSE x \in S : rank[x] = i - 1
    BY <1>0
  <2> QED  BY <2>1, <2>2
<1> HIDE DEF s
<1>10. \A i \in 1 .. n : s[i] \in S /\ rank[s[i]] = i - 1
  BY <1>8, <1>9
<1>11. s \in Seq(S) /\ Len(s) = n
  <2>1. s \in [1 .. n -> S]
    BY <1>9, <1>10
  <2> QED  BY <1>1, <2>1
<1>12. NoRepeat(s)
  BY <1>1, <1>9, <1>10 DEF NoRepeat
<1>13. ASSUME NEW x \in S PROVE x \in Elements(s)
  <2>0. rank[x] \in 0 .. n - 1
    BY <1>2
  <2> DEFINE k == rank[x] + 1
  <2>1. k \in 1 .. n /\ k - 1 = rank[x]
    BY <1>1, <2>0
  <2> HIDE DEF k
  <2>2. rank[s[k]] = rank[x]
    BY <1>10, <2>1
  <2>3. s[k] = x
    BY <1>4, <1>10, <2>1, <2>2
  <2> QED  BY <1>9, <2>1, <2>3 DEF Elements
<1>14. Elements(s) = S
  BY <1>9, <1>10, <1>13 DEF Elements
<1> QED  BY <1>11, <1>12, <1>14 DEF s, n

-----------------------------------------------------------------------------
(* Eliminating the nodes of the graph P in the order e, one by one, leaves *)
(* the graphs g[1], g[2], ...                                              *)

First(e, k) == {e[i] : i \in 1 .. k}

Trace(P, g, e) ==
  /\ DOMAIN g = 0 .. Len(e) /\ g[0] = P
  /\ \A i \in 1 .. Len(e) : e[i] \in NodesOf(g[i - 1]) /\ g[i] = Without(g[i - 1], e[i])
  /\ \A i \in 0 .. Len(e) : Graph(g[i], NodesOf(P) \ First(e, i))

Complete(P, g, e) ==
  /\ e \in Seq(NodesOf(P)) /\ Trace(P, g, e)
  /\ NodesOf(g[Len(e)]) = {}

Degrees(g, e, k) == {Cardinality(g[i - 1][e[i]]) : i \in 1 .. k}

(* The degrees of the nodes z of H, when one is removed after the other.   *)
Removals(H, z) == {Cardinality(H[z[i]] \ First(z, i - 1)) : i \in 1 .. Len(z)}

Widest(w, D) == w \in D \cup {UNKNOWN} /\ \A d \in D \cup {UNKNOWN} : d <= w

(* The contexts contain the neighbours that the nodes had in the trace.    *)
Covering(t, g, e, k) == \A i \in 1 .. k : g[i - 1][e[i]] \subseteq t.ctx[e[i]]

(* The trace g of e goes on as that of f, with the degrees E in addition,   *)
(* to the graph R.                                                         *)
Extended(P, g, e, f, R, E) ==
  \E h : /\ f \in Seq(NodesOf(P)) /\ Trace(P, h, f) /\ h[Len(f)] = R
         /\ Degrees(h, f, Len(f)) = Degrees(g, e, Len(e)) \cup E

(* The first k + 1 elements are the first k and one more.                  *)
LEMMA FirstNext ==
  ASSUME NEW e, NEW k \in Nat
  PROVE  /\ First(e, k + 1) = First(e, k) \cup {e[k + 1]}
         /\ First(e, 0) = {}
         /\ \A g : Degrees(g, e, k + 1) = Degrees(g, e, k) \cup {Cardinality(g[k][e[k + 1]])}
<1>1. 1 .. k + 1 = (1 .. k) \cup {k + 1} /\ 1 .. 0 = {} /\ k + 1 - 1 = k
  OBVIOUS
<1>2. First(e, k + 1) = First(e, k) \cup {e[k + 1]} /\ First(e, 0) = {}
  BY <1>1 DEF First
<1>3. ASSUME NEW g
      PROVE  Degrees(g, e, k + 1) = Degrees(g, e, k) \cup {Cardinality(g[k][e[k + 1]])}
  BY <1>1 DEF Degrees
<1> QED  BY <1>2, <1>3

(* A trace eliminates a node once, and has as many nodes as there are      *)
(* among the first.                                                        *)
LEMMA TraceOnce ==
  ASSUME NEW P, NEW g, NEW e \in Seq(NodesOf(P)), Trace(P, g, e)
  PROVE  /\ \A i, j \in 1 .. Len(e) : i # j => e[i] # e[j]
         /\ \A i \in 0 .. Len(e) : NodesOf(g[i]) = NodesOf(P) \ First(e, i)
         /\ \A i \in 0 .. Len(e) : First(e, i) \subseteq NodesOf(P)
         /\ \A k \in 0 .. Len(e) : Cardinality(First(e, k)) = k
<1>1. Len(e) \in Nat /\ \A i \in 1 .. Len(e) : e[i] \in NodesOf(P)
  BY LenProperties, ElementOfSeq
<1>2. \A i \in 0 .. Len(e) : NodesOf(g[i]) = NodesOf(P) \ First(e, i)
  BY DEF Trace, Graph, NodesOf
<1>3. ASSUME NEW i \in 1 .. Len(e), NEW j \in 1 .. Len(e), j < i
      PROVE  e[i] # e[j]
  <2>1. i - 1 \in 0 .. Len(e) /\ j \in 1 .. i - 1
    BY <1>1, <1>3
  <2>2. e[i] \in NodesOf(g[i - 1])
    BY DEF Trace
  <2>3. e[i] \notin First(e, i - 1)
    BY <1>2, <2>1, <2>2
  <2> QED  BY <2>1, <2>3 DEF First
<1>4. \A i, j \in 1 .. Len(e) : i # j => e[i] # e[j]
  <2> SUFFICES ASSUME NEW i \in 1 .. Len(e), NEW j \in 1 .. Len(e), i # j
               PROVE  e[i] # e[j]
    OBVIOUS
  <2>1. i < j \/ j < i
    BY <1>1
  <2> QED  BY <1>3, <2>1
<1>5. \A i \in 0 .. Len(e) : First(e, i) \subseteq NodesOf(P)
  BY <1>1 DEF First
<1>6. ASSUME NEW k \in 0 .. Len(e)
      PROVE  Cardinality(First(e, k)) = k
  <2> DEFINE f == [i \in 1 .. k |-> e[i]]
  <2>1. k \in Nat /\ \A i \in 1 .. k : i \in 1 .. Len(e)
    BY <1>1
  <2>2. f \in [1 .. k -> First(e, k)]
    BY DEF First
  <2>3. \A i, j \in 1 .. k : f[i] = f[j] => i = j
    BY <1>4, <2>1
  <2>4. \A x \in First(e, k) : \E i \in 1 .. k : f[i] = x
    BY DEF First
  <2> HIDE DEF f
  <2>5. f \in Bijection(1 .. k, First(e, k))
    BY <2>2, <2>3, <2>4 DEF Bijection, Injection, Surjection, IsInjective
  <2>6. ExistsBijection(1 .. k, First(e, k))
    BY <2>5 DEF ExistsBijection
  <2> QED  BY <2>1, <2>6, FS_CountingElements
<1> QED  BY <1>2, <1>4, <1>5, <1>6

(* The next graph of a trace has one node less and all edges of the others. *)
LEMMA TraceNext ==
  ASSUME NEW P, NEW g, NEW e \in Seq(NodesOf(P)), Trace(P, g, e),
         NEW k \in 0 .. Len(e), k + 1 \in 1 .. Len(e)
  PROVE  /\ e[k + 1] \in NodesOf(g[k])
         /\ NodesOf(g[k + 1]) = NodesOf(g[k]) \ {e[k + 1]}
         /\ g[k + 1] = Without(g[k], e[k + 1])
         /\ \A y \in NodesOf(g[k + 1]) : \A z \in g[k][y] :
              z # e[k + 1] => z \in g[k + 1][y]
         /\ Clique(g[k + 1], g[k][e[k + 1]])
         /\ Graph(g[k], NodesOf(g[k]))
<1>1. k + 1 - 1 = k /\ k \in Nat /\ k \in 0 .. Len(e) /\ k + 1 \in 0 .. Len(e)
  BY LenProperties
<1>2. /\ e[k + 1] \in NodesOf(g[k]) /\ g[k + 1] = Without(g[k], e[k + 1])
      /\ Graph(g[k], NodesOf(P) \ First(e, k))
  BY <1>1 DEF Trace
<1>3. /\ NodesOf(g[k]) = NodesOf(P) \ First(e, k)
      /\ NodesOf(g[k + 1]) = NodesOf(P) \ First(e, k + 1)
  BY <1>1, TraceOnce
<1>4. First(e, k + 1) = First(e, k) \cup {e[k + 1]}
  BY <1>1, FirstNext
<1>5. NodesOf(g[k + 1]) = NodesOf(g[k]) \ {e[k + 1]}
  BY <1>3, <1>4
<1>6. Graph(g[k], NodesOf(g[k]))
  BY <1>2, <1>3, Zenon
<1>7. \A y \in NodesOf(g[k]) \ {e[k + 1]} : \A z \in g[k][y] :
        z # e[k + 1] => z \in Without(g[k], e[k + 1])[y]
  <2>1. \A S, H, x : Graph(H, S) /\ x \in S =>
          \A y \in S \ {x} : \A z \in H[y] : z # x => z \in Without(H, x)[y]
    BY WithoutNode
  <2>2. e[k + 1] \in NodesOf(g[k])
    BY <1>2
  <2> QED  BY <1>6, <2>1, <2>2, Zenon
<1>8. Clique(g[k + 1], g[k][e[k + 1]])
  <2>1. \A S, H, x : Graph(H, S) /\ x \in S => Clique(Without(H, x), H[x])
    BY WithoutNode
  <2>2. Clique(Without(g[k], e[k + 1]), g[k][e[k + 1]])
    BY <1>2, <1>6, <2>1, Zenon
  <2> QED  BY <1>2, <2>2, Zenon
<1> QED  BY <1>2, <1>5, <1>6, <1>7, <1>8

(* The degrees along a trace are natural numbers, none above the number of *)
(* nodes.                                                                  *)
LEMMA DegreesBounded ==
  ASSUME NEW P, IsFiniteSet(NodesOf(P)), NEW g, NEW e \in Seq(NodesOf(P)), Trace(P, g, e),
         NEW k \in 0 .. Len(e)
  PROVE  \A d \in Degrees(g, e, k) : d \in Nat /\ d <= Cardinality(NodesOf(P))
<1> SUFFICES ASSUME NEW i \in 1 .. k
             PROVE  /\ Cardinality(g[i - 1][e[i]]) \in Nat
                    /\ Cardinality(g[i - 1][e[i]]) <= Cardinality(NodesOf(P))
  BY DEF Degrees
<1>1. i \in 1 .. Len(e) /\ i - 1 \in 0 .. Len(e)
  BY LenProperties
<1>2. Graph(g[i - 1], NodesOf(P) \ First(e, i - 1)) /\ e[i] \in NodesOf(g[i - 1])
  BY <1>1 DEF Trace
<1>3. g[i - 1][e[i]] \in SUBSET NodesOf(P)
  BY <1>2 DEF Graph, NodesOf
<1> QED  BY <1>3, FS_Subset, FS_CardinalityType

(* Of one set there is one greatest number.                                *)
LEMMA WidestUnique ==
  ASSUME NEW D, D \subseteq Nat, NEW v, NEW w, Widest(v, D), Widest(w, D)
  PROVE  v = w
<1>1. v <= w /\ w <= v /\ v \in Int /\ w \in Int
  BY DEF Widest, UNKNOWN
<1> QED  BY <1>1

(* When the set grows it is the greater one of the old and the new numbers. *)
LEMMA WidestGrows ==
  ASSUME NEW D, D \subseteq Nat, NEW w, Widest(w, D),
         NEW b \in Int, w <= b, NEW E, E \subseteq 0 .. b
  PROVE  Widest(Max({w} \cup E), D \cup E)
<1> DEFINE T == {w} \cup E
           m == Max(T)
<1>1. w \in Int
  BY DEF Widest, UNKNOWN
<1>2. /\ T \subseteq Int /\ T # {}
      /\ \A x \in T : x \in Int /\ x <= b
  BY <1>1
<1> HIDE DEF T
<1>3. m \in T /\ \A x \in T : x <= m
  BY <1>2, Greatest
<1> HIDE DEF m
<1>4. w <= m /\ m \in Int
  BY <1>1, <1>2, <1>3 DEF T
<1>5. \A d \in D \cup {UNKNOWN} : d <= w /\ d \in Int
  BY DEF Widest, UNKNOWN
<1>6. \A d \in (D \cup E) \cup {UNKNOWN} : d <= m
  <2>1. \A d \in D \cup {UNKNOWN} : d <= m
    BY <1>1, <1>4, <1>5
  <2>2. \A d \in E : d <= m
    BY <1>3 DEF T
  <2> QED  BY <2>1, <2>2
<1>7. m \in (D \cup E) \cup {UNKNOWN}
  BY <1>3 DEF T, Widest
<1> QED  BY <1>6, <1>7 DEF Widest, m, T

(* A trace goes on with one node that is eliminated.                       *)
LEMMA TraceExtended ==
  ASSUME NEW P, NEW g, NEW e \in Seq(NodesOf(P)), Trace(P, g, e),
         NEW x \in NodesOf(g[Len(e)])
  PROVE  Extended(P, g, e, Append(e, x), Without(g[Len(e)], x), {Cardinality(g[Len(e)][x])})
<1> DEFINE m == Len(e)
           f == Append(e, x)
           h == [i \in 0 .. m + 1 |-> IF i <= m THEN g[i] ELSE Without(g[m], x)]
<1>1. m \in Nat /\ 0 \in 0 .. m /\ m \in 0 .. m
  BY LenProperties
<1>2. Graph(g[m], NodesOf(P) \ First(e, m)) /\ NodesOf(g[m]) = NodesOf(P) \ First(e, m)
  BY <1>1, TraceOnce DEF Trace
<1>3. x \in NodesOf(P)
  BY <1>2
<1>4. /\ f \in Seq(NodesOf(P)) /\ Len(f) = m + 1 /\ f[m + 1] = x
      /\ \A i \in 1 .. m : f[i] = e[i]
  BY <1>1, <1>3, AppendProperties
<1>5. /\ DOMAIN h = 0 .. m + 1 /\ h[m + 1] = Without(g[m], x)
      /\ \A i \in 0 .. m : h[i] = g[i]
  BY <1>1
<1> HIDE DEF f, h
<1>6. \A k \in 0 .. m : First(f, k) = First(e, k)
  <2> SUFFICES ASSUME NEW k \in 0 .. m PROVE First(f, k) = First(e, k)
    OBVIOUS
  <2>1. \A i \in 1 .. k : i \in 1 .. m
    BY <1>1
  <2> QED  BY <1>4, <2>1 DEF First
<1>7. First(f, m + 1) = First(e, m) \cup {x}
  BY <1>1, <1>4, <1>6, FirstNext
<1>8. ASSUME NEW i \in 1 .. m + 1
      PROVE  f[i] \in NodesOf(h[i - 1]) /\ h[i] = Without(h[i - 1], f[i])
  <2>1. CASE i \in 1 .. m
    <3>1. i - 1 \in 0 .. m /\ i \in 0 .. m
      BY <1>1, <2>1
    <3> QED  BY <1>4, <1>5, <2>1, <3>1 DEF Trace
  <2>2. CASE i = m + 1
    <3>1. i - 1 = m
      BY <1>1, <2>2
    <3> QED  BY <1>1, <1>4, <1>5, <2>2, <3>1
  <2> QED  BY <1>1, <2>1, <2>2
<1>9. ASSUME NEW i \in 0 .. m + 1
      PROVE  Graph(h[i], NodesOf(P) \ First(f, i))
  <2>1. CASE i \in 0 .. m
    BY <1>5, <1>6, <2>1 DEF Trace
  <2>2. CASE i = m + 1
    <3>1. Graph(Without(g[m], x), (NodesOf(P) \ First(e, m)) \ {x})
      BY <1>2, WithoutNode
    <3>2. (NodesOf(P) \ First(e, m)) \ {x} = NodesOf(P) \ (First(e, m) \cup {x})
      OBVIOUS
    <3> QED  BY <1>5, <1>7, <2>2, <3>1, <3>2
  <2> QED  BY <1>1, <2>1, <2>2
<1>10. Trace(P, h, f)
  BY <1>1, <1>4, <1>5, <1>8, <1>9 DEF Trace
<1>11. Degrees(h, f, m) = Degrees(g, e, m)
  <2>1. \A i \in 1 .. m : h[i - 1] = g[i - 1] /\ f[i] = e[i]
    BY <1>1, <1>4, <1>5
  <2> QED  BY <2>1 DEF Degrees
<1>12. Degrees(h, f, m + 1) = Degrees(g, e, m) \cup {Cardinality(g[m][x])}
  <2>1. Degrees(h, f, m + 1) = Degrees(h, f, m) \cup {Cardinality(h[m][f[m + 1]])}
    BY <1>1, FirstNext
  <2>2. h[m] = g[m] /\ f[m + 1] = x
    BY <1>1, <1>4, <1>5
  <2> QED  BY <1>11, <2>1, <2>2
<1> QED  BY <1>4, <1>5, <1>10, <1>12 DEF f, Extended

(* A trace goes on with nodes that are removed together, each of which has *)
(* neighbours that are connected.                                          *)
LEMMA TraceRemoved ==
  ASSUME NEW P, NEW g, NEW e \in Seq(NodesOf(P)), Trace(P, g, e),
         NEW H, H = g[Len(e)], NEW Z, Z \subseteq NodesOf(H), \A x \in Z : Clique(H, H[x]),
         NEW z \in Seq(Z), NoRepeat(z), Elements(z) = Z
  PROVE  Extended(P, g, e, e \o z, RemoveNodes(H, Z), Removals(H, z))
<1> DEFINE m == Len(e)
           n == Len(z)
           f == e \o z
           h == [i \in 0 .. m + n |-> IF i <= m THEN g[i] ELSE RemoveNodes(H, First(z, i - m))]
           S == NodesOf(P) \ First(e, m)
<1>1. m \in Nat /\ n \in Nat /\ 0 \in 0 .. m /\ m \in 0 .. m
  BY LenProperties
<1>2. Graph(H, S) /\ NodesOf(H) = S
  BY <1>1, TraceOnce DEF Trace
<1>3. z \in Seq(NodesOf(P)) /\ \A i \in 1 .. n : z[i] \in Z
  <2>1. \A i \in 1 .. n : z[i] \in Z
    BY ElementOfSeq
  <2>2. Z \subseteq NodesOf(P)
    BY <1>2
  <2>3. z \in Seq(NodesOf(P))
    BY <2>2
  <2> QED  BY <2>1, <2>3
<1>4. /\ f \in Seq(NodesOf(P)) /\ Len(f) = m + n
      /\ \A i \in 1 .. m : f[i] = e[i]
      /\ \A i \in 1 .. n : f[m + i] = z[i]
  BY <1>1, <1>3, ConcatProperties
<1>5. /\ DOMAIN h = 0 .. m + n
      /\ \A i \in 0 .. m : h[i] = g[i]
      /\ \A i \in 0 .. n : h[m + i] = RemoveNodes(H, First(z, i))
  <2>1. \A i \in 0 .. m : i \in 0 .. m + n /\ i <= m
    BY <1>1
  <2>2. ASSUME NEW i \in 1 .. n
        PROVE  h[m + i] = RemoveNodes(H, First(z, i))
    <3>1. m + i \in 0 .. m + n /\ ~(m + i <= m) /\ m + i - m = i
      BY <1>1
    <3> QED  BY <3>1
  <2>3. h[m + 0] = RemoveNodes(H, First(z, 0))
    <3>1. First(z, 0) = {}
      BY FirstNext
    <3>2. RemoveNodes(H, {}) = H
      BY <1>2, NodesRemoved
    <3>3. m + 0 = m /\ h[m] = g[m]
      BY <1>1, <2>1
    <3> QED  BY <3>1, <3>2, <3>3
  <2> QED  BY <1>1, <2>1, <2>2, <2>3
<1> HIDE DEF f, h, S
<1>6. \A k \in 0 .. m : First(f, k) = First(e, k)
  <2> SUFFICES ASSUME NEW k \in 0 .. m PROVE First(f, k) = First(e, k)
    OBVIOUS
  <2>1. \A i \in 1 .. k : i \in 1 .. m
    BY <1>1
  <2> QED  BY <1>4, <2>1 DEF First
<1>7. ASSUME NEW k \in 0 .. n
      PROVE  First(f, m + k) = First(e, m) \cup First(z, k)
  <2>1. First(f, m + k) = {f[i] : i \in 1 .. m} \cup {f[m + i] : i \in 1 .. k}
    <3>1. \A i \in 1 .. m + k : i \in 1 .. m \/ (i - m \in 1 .. k /\ i = m + (i - m))
      BY <1>1
    <3>2. \A i \in 1 .. m : i \in 1 .. m + k
      BY <1>1
    <3>3. \A i \in 1 .. k : m + i \in 1 .. m + k
      BY <1>1
    <3> QED  BY <3>1, <3>2, <3>3 DEF First
  <2>2. {f[i] : i \in 1 .. m} = First(e, m)
    BY <1>4 DEF First
  <2>3. {f[m + i] : i \in 1 .. k} = First(z, k)
    <3>1. \A i \in 1 .. k : i \in 1 .. n
      BY <1>1
    <3> QED  BY <1>4, <3>1 DEF First
  <2> QED  BY <2>1, <2>2, <2>3
<1>8. ASSUME NEW i \in 1 .. n
      PROVE  /\ z[i] \in S \ First(z, i - 1)
             /\ RemoveNodes(H, First(z, i - 1))[z[i]] = H[z[i]] \ First(z, i - 1)
             /\ RemoveNodes(H, First(z, i)) = Without(RemoveNodes(H, First(z, i - 1)), z[i])
  <2> DEFINE T == First(z, i - 1)
             R == RemoveNodes(H, T)
  <2>1. i - 1 \in Nat /\ i - 1 + 1 = i /\ i \in DOMAIN z /\ \A j \in 1 .. i - 1 : j \in DOMAIN z
    BY <1>1, LenProperties
  <2>2. z[i] \in S \ T
    <3>1. z[i] \in S
      BY <1>2, <1>3
    <3>2. \A j \in 1 .. i - 1 : z[j] # z[i]
      BY <2>1 DEF NoRepeat
    <3> QED  BY <3>1, <3>2 DEF First
  <2>3. First(z, i) = T \cup {z[i]}
    BY <2>1, FirstNext
  <2> HIDE DEF T
  <2>4. Graph(R, S \ T) /\ RemoveNode(R, z[i]) = RemoveNodes(H, T \cup {z[i]})
    <3>1. Graph(H, S)
      BY <1>2
    <3>2. Graph(RemoveNodes(H, T), S \ T)
      BY <3>1, NodesRemoved
    <3>3. RemoveNode(RemoveNodes(H, T), z[i]) = RemoveNodes(H, T \cup {z[i]})
      BY RemovedNext
    <3> QED  BY <3>2, <3>3
  <2>5. \A y \in S \ T : R[y] = H[y] \ T
    BY <1>2 DEF RemoveNodes
  <2>6. Clique(R, R[z[i]])
    <3>1. Clique(H, H[z[i]])
      BY <1>3
    <3>2. R[z[i]] = H[z[i]] \ T /\ H[z[i]] \subseteq S
      BY <1>2, <2>2, <2>5 DEF Graph
    <3> HIDE DEF R
    <3>3. ASSUME NEW a \in R[z[i]], NEW b \in R[z[i]], a # b
          PROVE  b \in R[a]
      <4>1. b \in H[a] /\ b \notin T /\ a \in S \ T
        BY <3>1, <3>2, <3>3 DEF Clique
      <4> QED  BY <2>5, <4>1
    <3> QED  BY <3>3 DEF Clique
  <2>7. Without(R, z[i]) = RemoveNode(R, z[i])
    BY <2>2, <2>4, <2>6, SimplicialNode
  <2> QED  BY <2>2, <2>3, <2>4, <2>5, <2>7 DEF T
<1>9. ASSUME NEW i \in 1 .. m + n
      PROVE  f[i] \in NodesOf(h[i - 1]) /\ h[i] = Without(h[i - 1], f[i])
  <2>1. CASE i \in 1 .. m
    <3>1. i - 1 \in 0 .. m /\ i \in 0 .. m
      BY <1>1, <2>1
    <3> QED  BY <1>4, <1>5, <2>1, <3>1 DEF Trace
  <2>2. CASE i > m
    <3>1. PICK j \in 1 .. n : i = m + j /\ i - 1 = m + (j - 1) /\ j - 1 \in 0 .. n /\ j \in 0 .. n
      <4>1. i - m \in 1 .. n /\ i = m + (i - m) /\ i - 1 = m + ((i - m) - 1)
            /\ (i - m) - 1 \in 0 .. n /\ i - m \in 0 .. n
        BY <1>1, <2>2
      <4> QED  BY <4>1
    <3>2. h[i - 1] = RemoveNodes(H, First(z, j - 1)) /\ h[i] = RemoveNodes(H, First(z, j))
          /\ f[i] = z[j]
      BY <1>4, <1>5, <3>1
    <3>3. NodesOf(RemoveNodes(H, First(z, j - 1))) = S \ First(z, j - 1)
      BY <1>2 DEF RemoveNodes, NodesOf
    <3> QED  BY <1>8, <3>2, <3>3
  <2> QED  BY <1>1, <2>1, <2>2
<1>10. ASSUME NEW i \in 0 .. m + n
       PROVE  Graph(h[i], NodesOf(P) \ First(f, i))
  <2>1. CASE i \in 0 .. m
    BY <1>5, <1>6, <2>1 DEF Trace
  <2>2. CASE i > m
    <3>1. PICK j \in 0 .. n : i = m + j
      <4>1. i - m \in 0 .. n /\ i = m + (i - m)
        BY <1>1, <2>2
      <4> QED  BY <4>1
    <3>2. Graph(RemoveNodes(H, First(z, j)), S \ First(z, j))
      BY <1>2, NodesRemoved
    <3>3. S \ First(z, j) = NodesOf(P) \ First(f, i)
      BY <1>7, <3>1 DEF S
    <3> QED  BY <1>5, <3>1, <3>2, <3>3
  <2> QED  BY <1>1, <2>1, <2>2
<1>11. Trace(P, h, f)
  BY <1>1, <1>4, <1>5, <1>9, <1>10 DEF Trace
<1>12. h[m + n] = RemoveNodes(H, Z)
  <2>1. First(z, n) = Z
    BY LenProperties DEF First, Elements
  <2> QED  BY <1>1, <1>5, <2>1
<1>13. Degrees(h, f, m + n) = Degrees(g, e, m)
         \cup {Cardinality(H[z[i]] \ First(z, i - 1)) : i \in 1 .. n}
  <2>1. Degrees(h, f, m + n) = {Cardinality(h[i - 1][f[i]]) : i \in 1 .. m}
          \cup {Cardinality(h[m + i - 1][f[m + i]]) : i \in 1 .. n}
    <3>1. \A i \in 1 .. m + n : i \in 1 .. m \/ (i - m \in 1 .. n /\ i = m + (i - m))
      BY <1>1
    <3>2. \A i \in 1 .. m : i \in 1 .. m + n
      BY <1>1
    <3>3. \A i \in 1 .. n : m + i \in 1 .. m + n
      BY <1>1
    <3> DEFINE d(i) == Cardinality(h[i - 1][f[i]])
    <3>4. \A i \in 1 .. n : Cardinality(h[m + i - 1][f[m + i]]) = d(m + i)
      OBVIOUS
    <3> HIDE DEF d
    <3>5. {d(i) : i \in 1 .. m + n} = {d(i) : i \in 1 .. m} \cup {d(m + i) : i \in 1 .. n}
      BY <3>1, <3>2, <3>3
    <3> QED  BY <3>4, <3>5 DEF Degrees, d
  <2>2. \A i \in 1 .. m : h[i - 1] = g[i - 1] /\ f[i] = e[i]
    BY <1>1, <1>4, <1>5
  <2>3. {Cardinality(h[i - 1][f[i]]) : i \in 1 .. m} = Degrees(g, e, m)
    BY <2>2 DEF Degrees
  <2>4. ASSUME NEW i \in 1 .. n
        PROVE  h[m + i - 1][f[m + i]] = H[z[i]] \ First(z, i - 1)
    <3>1. i - 1 \in 0 .. n /\ m + i - 1 = m + (i - 1)
      BY <1>1
    <3>2. h[m + i - 1] = RemoveNodes(H, First(z, i - 1)) /\ f[m + i] = z[i]
      BY <1>4, <1>5, <3>1
    <3> QED  BY <1>8, <3>2
  <2>5. {Cardinality(h[m + i - 1][f[m + i]]) : i \in 1 .. n}
          = {Cardinality(H[z[i]] \ First(z, i - 1)) : i \in 1 .. n}
    BY <2>4
  <2> QED  BY <2>1, <2>3, <2>5
<1> DEFINE E == {Cardinality(H[z[i]] \ First(z, i - 1)) : i \in 1 .. n}
<1>14. /\ f \in Seq(NodesOf(P)) /\ Trace(P, h, f) /\ h[Len(f)] = RemoveNodes(H, Z)
       /\ Degrees(h, f, Len(f)) = Degrees(g, e, Len(e)) \cup E
  BY <1>4, <1>11, <1>12, <1>13
<1> HIDE DEF h, f, E
<1>15. Extended(P, g, e, f, RemoveNodes(H, Z), E)
  BY <1>14 DEF Extended
<1> QED  BY <1>15 DEF f, E, Removals

-----------------------------------------------------------------------------
(* The tree over the first k nodes of e, with the graph H left and the     *)
(* scopes SC of the functions.                                             *)

TreeFields == {"order", "parent", "ctx", "above", "roots", "running", "width"}

Partial(t, e, k, H, SC) ==
  /\ DOMAIN t = TreeFields
  /\ DOMAIN t.ctx = First(e, k)
  /\ t.roots \subseteq First(e, k) /\ DOMAIN t.parent = First(e, k) \ t.roots
  /\ \A i \in 1 .. k :
       \/ e[i] \in t.roots
       \/ \E j \in i + 1 .. k : /\ t.parent[e[i]] = e[j]
                                /\ t.ctx[e[i]] \subseteq t.ctx[e[j]] \cup {e[j]}
  /\ \A y \in t.roots : t.ctx[y] \subseteq NodesOf(H)
  /\ \A s \in SC : s \cap First(e, k) = {} => Clique(H, s)
  /\ \A s \in SC, i \in 1 .. k :
       e[i] \in s /\ s \cap First(e, i - 1) = {} => s \subseteq t.ctx[e[i]] \cup {e[i]}

(* In the tree of build(), a parent is in the context of its children.     *)
PartialTree(t, e, k, H, SC) ==
  /\ Partial(t, e, k, H, SC)
  /\ \A y \in t.roots : Clique(H, t.ctx[y])
  /\ \A y \in DOMAIN t.parent : t.parent[y] \in t.ctx[y]

PartialChain(t, e, k, H, SC) ==
  /\ Partial(t, e, k, H, SC)
  /\ t.running \subseteq NodesOf(H)
  /\ \A y \in t.roots : t.ctx[y] \subseteq t.running

(* The tree is empty at first.                                             *)
LEMMA EmptyTree ==
  ASSUME NEW e, NEW H, NEW SC, \A s \in SC : Clique(H, s),
         NEW t, t = NoTree \/ \E w : t = [NoTree EXCEPT !.width = w]
  PROVE  PartialTree(t, e, 0, H, SC) /\ PartialChain(t, e, 0, H, SC)
<1>1. /\ DOMAIN t = TreeFields /\ t.ctx = <<>> /\ t.parent = <<>> /\ t.roots = {} /\ t.running = {}
  BY DEF NoTree, TreeFields
<1>2. First(e, 0) = {} /\ 1 .. 0 = {} /\ DOMAIN <<>> = {}
  BY FirstNext
<1>3. Partial(t, e, 0, H, SC)
  BY <1>1, <1>2 DEF Partial
<1> QED  BY <1>1, <1>2, <1>3 DEF PartialTree, PartialChain

(* One more node x: it becomes the parent of some roots, among them all    *)
(* that have it in their context.                                          *)
LEMMA TreeGrows ==
  ASSUME NEW P, NEW g, NEW e \in Seq(NodesOf(P)), Trace(P, g, e),
         NEW k \in 0 .. Len(e), k + 1 \in 1 .. Len(e),
         NEW SC, \A s \in SC : s \subseteq NodesOf(P),
         NEW t, Partial(t, e, k, g[k], SC),
         NEW x, x = e[k + 1],
         NEW attached, attached \subseteq t.roots,
         NEW c, g[k][x] \subseteq c, c \subseteq NodesOf(g[k]) \ {x},
         \A y \in attached : t.ctx[y] \subseteq c \cup {x},
         \A y \in t.roots \ attached : x \notin t.ctx[y],
         NEW u, DOMAIN u = TreeFields,
         u.ctx = Mapped(t.ctx, {x}, c), u.parent = Mapped(t.parent, attached, x),
         u.roots = (t.roots \ attached) \cup {x}
  PROVE  Partial(u, e, k + 1, g[k + 1], SC)
<1> DEFINE D == First(e, k)
           E == First(e, k + 1)
           H == g[k]
           R == g[k + 1]
<1>1. k \in Nat /\ Len(e) \in Nat /\ k + 1 - 1 = k
  BY LenProperties
<1>2. E = D \cup {x}
  BY <1>1, FirstNext
<1>3. x \notin D /\ \A i \in 1 .. k : e[i] \in D /\ e[i] # x
  <2>1. \A i \in 1 .. k : i \in 1 .. Len(e) /\ i # k + 1
    BY <1>1
  <2>2. \A i, j \in 1 .. Len(e) : i # j => e[i] # e[j]
    BY TraceOnce
  <2> QED  BY <2>1, <2>2 DEF First
<1>4. /\ NodesOf(H) = NodesOf(P) \ D
      /\ NodesOf(R) = NodesOf(H) \ {x} /\ x \in NodesOf(H)
  <2>1. NodesOf(H) = NodesOf(P) \ D /\ NodesOf(R) = NodesOf(P) \ E
    BY <1>1, TraceOnce
  <2>2. e[k + 1] \in NodesOf(g[k])
    BY TraceNext
  <2> QED  BY <1>2, <2>1, <2>2
<1>5. \A y \in NodesOf(R) : \A z \in H[y] : z # x => z \in R[y]
  BY TraceNext
<1>6. /\ DOMAIN t.ctx = D /\ t.roots \subseteq D /\ DOMAIN t.parent = D \ t.roots
      /\ \A y \in t.roots : t.ctx[y] \subseteq NodesOf(H)
  BY DEF Partial
<1>7. /\ DOMAIN u.ctx = E /\ u.ctx[x] = c /\ \A y \in D : u.ctx[y] = t.ctx[y]
  BY <1>2, <1>3, <1>6 DEF Mapped
<1>8. /\ DOMAIN u.parent = E \ u.roots /\ u.roots \subseteq E
      /\ \A y \in attached : u.parent[y] = x
      /\ \A y \in DOMAIN t.parent : u.parent[y] = t.parent[y]
  <2>1. DOMAIN u.parent = DOMAIN t.parent \cup attached
    BY DEF Mapped
  <2> QED  BY <1>2, <1>3, <1>6, <2>1 DEF Mapped
<1> HIDE DEF D, E, H, R
<1>9. ASSUME NEW i \in 1 .. k + 1, e[i] \notin u.roots
      PROVE  \E j \in i + 1 .. k + 1 : /\ u.parent[e[i]] = e[j]
                                       /\ u.ctx[e[i]] \subseteq u.ctx[e[j]] \cup {e[j]}
  <2>1. i \in 1 .. k
    BY <1>1, <1>9
  <2>2. e[i] \in D
    BY <1>3, <2>1
  <2>3. CASE e[i] \in attached
    <3>1. k + 1 \in i + 1 .. k + 1
      BY <1>1, <2>1
    <3>2. u.parent[e[i]] = x /\ u.ctx[e[i]] \subseteq u.ctx[x] \cup {x}
      BY <1>7, <1>8, <2>2, <2>3
    <3> QED  BY <3>1, <3>2
  <2>4. CASE e[i] \notin attached
    <3>1. e[i] \notin t.roots
      BY <1>9, <2>4
    <3>2. PICK j \in i + 1 .. k : /\ t.parent[e[i]] = e[j]
                                  /\ t.ctx[e[i]] \subseteq t.ctx[e[j]] \cup {e[j]}
      BY <2>1, <3>1 DEF Partial
    <3>3. j \in 1 .. k /\ j \in i + 1 .. k + 1
      BY <1>1, <2>1
    <3>4. e[j] \in D /\ e[i] \in DOMAIN t.parent
      BY <1>3, <1>6, <2>2, <3>1, <3>3
    <3>5. u.parent[e[i]] = e[j] /\ u.ctx[e[i]] \subseteq u.ctx[e[j]] \cup {e[j]}
      BY <1>7, <1>8, <2>2, <3>2, <3>4
    <3> QED  BY <3>3, <3>5
  <2> QED  BY <2>3, <2>4
<1>10. \A y \in u.roots : u.ctx[y] \subseteq NodesOf(R)
  <2>1. u.ctx[x] \subseteq NodesOf(R)
    BY <1>4, <1>7 DEF H
  <2>2. ASSUME NEW y \in t.roots \ attached
        PROVE  u.ctx[y] \subseteq NodesOf(R)
    <3>1. u.ctx[y] = t.ctx[y] /\ t.ctx[y] \subseteq NodesOf(H) /\ x \notin t.ctx[y]
      BY <1>6, <1>7
    <3> QED  BY <1>4, <3>1
  <2> QED  BY <2>1, <2>2
<1>11. ASSUME NEW s \in SC, s \cap E = {}
       PROVE  Clique(R, s)
  <2>1. s \cap D = {} /\ x \notin s /\ s \subseteq NodesOf(R)
    BY <1>2, <1>4, <1>11
  <2>2. Clique(H, s)
    BY <2>1 DEF Partial, D, H
  <2>3. ASSUME NEW a \in s, NEW b \in s, a # b
        PROVE  b \in R[a]
    <3>1. b \in H[a] /\ b # x /\ a \in NodesOf(R)
      BY <2>1, <2>2, <2>3 DEF Clique
    <3> QED  BY <1>5, <3>1
  <2> QED  BY <2>3 DEF Clique
<1>12. ASSUME NEW s \in SC, NEW i \in 1 .. k + 1, e[i] \in s, s \cap First(e, i - 1) = {}
       PROVE  s \subseteq u.ctx[e[i]] \cup {e[i]}
  <2>1. CASE i \in 1 .. k
    <3>1. s \subseteq t.ctx[e[i]] \cup {e[i]}
      BY <1>12, <2>1 DEF Partial
    <3> QED  BY <1>3, <1>7, <2>1, <3>1
  <2>2. CASE i = k + 1
    <3>1. s \cap D = {} /\ x \in s
      BY <1>1, <1>12, <2>2 DEF D
    <3>2. Clique(H, s)
      BY <3>1 DEF Partial, D, H
    <3>3. \A b \in s : b # x => b \in H[x]
      BY <3>1, <3>2 DEF Clique
    <3>4. s \subseteq c \cup {x}
      BY <3>3 DEF H
    <3>5. e[i] = x
      BY <2>2
    <3>6. s \subseteq u.ctx[x] \cup {x}
      BY <1>7, <3>4
    <3> QED  BY <3>5, <3>6, Zenon
  <2>3. i \in 1 .. k \/ i = k + 1
    BY <1>1
  <2> QED  BY <2>1, <2>2, <2>3, Zenon
<1>13. \A i \in 1 .. k + 1 :
         \/ e[i] \in u.roots
         \/ \E j \in i + 1 .. k + 1 : /\ u.parent[e[i]] = e[j]
                                      /\ u.ctx[e[i]] \subseteq u.ctx[e[j]] \cup {e[j]}
  BY <1>9
<1> QED  BY <1>7, <1>8, <1>10, <1>11, <1>12, <1>13 DEF Partial, E, R

(* One round of build() keeps the tree as it must be.                      *)
LEMMA TreeInserted ==
  ASSUME NEW P, NEW g, NEW e \in Seq(NodesOf(P)), Trace(P, g, e),
         NEW k \in 0 .. Len(e), k + 1 \in 1 .. Len(e),
         NEW SC, \A s \in SC : s \subseteq NodesOf(P),
         NEW t, PartialTree(t, e, k, g[k], SC),
         NEW x, x = e[k + 1]
  PROVE  PartialTree(Inserted(t, x, g[k][x]), e, k + 1, g[k + 1], SC)
<1> DEFINE nb == g[k][x]
           u == Inserted(t, x, nb)
           attached == {y \in t.roots : x \in t.ctx[y]}
<1>1. /\ Partial(t, e, k, g[k], SC)
      /\ \A y \in t.roots : Clique(g[k], t.ctx[y])
      /\ \A y \in DOMAIN t.parent : t.parent[y] \in t.ctx[y]
  BY DEF PartialTree
<1>2. /\ DOMAIN t = TreeFields /\ DOMAIN t.parent = First(e, k) \ t.roots
      /\ DOMAIN t.ctx = First(e, k) /\ t.roots \subseteq First(e, k)
      /\ \A y \in t.roots : t.ctx[y] \subseteq NodesOf(g[k])
  BY <1>1 DEF Partial
<1>3. /\ DOMAIN u = TreeFields
      /\ u.ctx = Mapped(t.ctx, {x}, nb) /\ u.parent = Mapped(t.parent, attached, x)
      /\ u.roots = (t.roots \ attached) \cup {x}
  BY <1>2 DEF Inserted, TreeFields
<1>4. /\ x \in NodesOf(g[k]) /\ Graph(g[k], NodesOf(g[k])) /\ Clique(g[k + 1], nb)
      /\ \A y \in NodesOf(g[k]) : y # x => y \in NodesOf(g[k + 1])
  <2>1. x \in NodesOf(g[k])
    BY TraceNext
  <2>2. Graph(g[k], NodesOf(g[k]))
    BY TraceNext
  <2>3. Clique(g[k + 1], g[k][e[k + 1]])
    BY TraceNext
  <2>4. NodesOf(g[k + 1]) = NodesOf(g[k]) \ {x}
    BY TraceNext
  <2>5. \A y \in NodesOf(g[k]) : y # x => y \in NodesOf(g[k + 1])
    BY <2>4
  <2> QED  BY <2>1, <2>2, <2>3, <2>5
<1>5. \A y \in NodesOf(g[k + 1]) : \A z \in g[k][y] : z # x => z \in g[k + 1][y]
  BY TraceNext
<1>6. NodesOf(g[k]) = NodesOf(P) \ First(e, k)
  BY TraceOnce
<1>7. nb \subseteq NodesOf(g[k]) \ {x}
  BY <1>4 DEF Graph
<1>8. ASSUME NEW y \in attached
      PROVE  t.ctx[y] \subseteq nb \cup {x}
  <2>1. Clique(g[k], t.ctx[y]) /\ x \in t.ctx[y]
    BY <1>1
  <2> QED  BY <2>1 DEF Clique
<1> HIDE DEF u, nb
<1>9. attached \subseteq t.roots /\ \A y \in t.roots \ attached : x \notin t.ctx[y]
  OBVIOUS
<1> HIDE DEF attached
<1>10. Partial(u, e, k + 1, g[k + 1], SC)
  <2>1. g[k][x] \subseteq nb
    BY DEF nb
  <2>2. \A y \in attached : t.ctx[y] \subseteq nb \cup {x}
    BY <1>8
  <2> QED  BY <1>1, <1>3, <1>7, <1>9, <2>1, <2>2, TreeGrows, Zenon
<1>11. x \notin First(e, k)
  BY <1>4, <1>6
<1>12. ASSUME NEW y \in u.roots
       PROVE  Clique(g[k + 1], u.ctx[y])
  <2>1. CASE y = x
    <3>1. u.ctx[y] = nb
      BY <1>3, <2>1 DEF Mapped
    <3> QED  BY <1>4, <3>1
  <2>2. CASE y # x
    <3>1. y \in t.roots /\ x \notin t.ctx[y]
      BY <1>3, <1>9, <2>2
    <3>2. u.ctx[y] = t.ctx[y]
      BY <1>2, <1>3, <2>2, <3>1 DEF Mapped
    <3>3. Clique(g[k], t.ctx[y]) /\ t.ctx[y] \subseteq NodesOf(g[k + 1])
      BY <1>1, <1>2, <1>4, <3>1
    <3>4. ASSUME NEW a \in t.ctx[y], NEW b \in t.ctx[y], a # b
          PROVE  b \in g[k + 1][a]
      <4>1. b \in g[k][a] /\ a \in NodesOf(g[k + 1]) /\ b # x
        BY <3>1, <3>3, <3>4 DEF Clique
      <4> QED  BY <1>5, <4>1
    <3> QED  BY <3>2, <3>4 DEF Clique
  <2> QED  BY <2>1, <2>2
<1>13. ASSUME NEW y \in DOMAIN u.parent
       PROVE  u.parent[y] \in u.ctx[y]
  <2>1. DOMAIN u.parent = DOMAIN t.parent \cup attached
    BY <1>3 DEF Mapped
  <2>2. y \in First(e, k) /\ y # x
    BY <1>2, <1>9, <1>11, <2>1
  <2>3. u.ctx[y] = t.ctx[y]
    BY <1>2, <1>3, <2>2 DEF Mapped
  <2>4. CASE y \in attached
    <3>1. u.parent[y] = x
      BY <1>3, <2>4 DEF Mapped
    <3>2. x \in t.ctx[y]
      BY <2>4 DEF attached
    <3> QED  BY <2>3, <3>1, <3>2
  <2>5. CASE y \notin attached
    <3>1. y \in DOMAIN t.parent /\ u.parent[y] = t.parent[y]
      BY <1>3, <2>1, <2>5 DEF Mapped
    <3> QED  BY <1>1, <2>3, <3>1
  <2> QED  BY <2>4, <2>5
<1> QED  BY <1>3, <1>10, <1>12, <1>13 DEF PartialTree, u, nb

(* One round of buildChain() keeps the chain as it must be.                *)
LEMMA ChainGrows ==
  ASSUME NEW P, NEW g, NEW e \in Seq(NodesOf(P)), Trace(P, g, e),
         NEW k \in 0 .. Len(e), k + 1 \in 1 .. Len(e),
         NEW SC, \A s \in SC : s \subseteq NodesOf(P),
         NEW t, PartialChain(t, e, k, g[k], SC),
         NEW x, x = e[k + 1]
  PROVE  PartialChain(Chained(t, x, g[k][x]), e, k + 1, g[k + 1], SC)
<1> DEFINE nb == g[k][x]
           c == (t.running \ {x}) \cup nb
           u == Chained(t, x, nb)
<1>1. /\ Partial(t, e, k, g[k], SC) /\ t.running \subseteq NodesOf(g[k])
      /\ \A y \in t.roots : t.ctx[y] \subseteq t.running
  BY DEF PartialChain
<1>2. DOMAIN t = TreeFields
  BY <1>1 DEF Partial
<1>3. /\ DOMAIN u = TreeFields /\ u.running = c
      /\ u.ctx = Mapped(t.ctx, {x}, c) /\ u.parent = Mapped(t.parent, t.roots, x)
      /\ u.roots = (t.roots \ t.roots) \cup {x}
  BY <1>2 DEF Chained, TreeFields
<1>4. /\ x \in NodesOf(g[k]) /\ Graph(g[k], NodesOf(g[k]))
      /\ NodesOf(g[k + 1]) = NodesOf(g[k]) \ {x}
  BY TraceNext
<1>5. nb \subseteq NodesOf(g[k]) \ {x}
  BY <1>4 DEF Graph
<1>6. nb \subseteq c /\ c \subseteq NodesOf(g[k]) \ {x}
  BY <1>1, <1>5
<1>7. \A y \in t.roots : t.ctx[y] \subseteq c \cup {x}
  BY <1>1
<1> HIDE DEF u, nb, c
<1>8. Partial(u, e, k + 1, g[k + 1], SC)
  BY <1>1, <1>3, <1>6, <1>7, TreeGrows DEF nb
<1>9. u.ctx[x] = c
  BY <1>3 DEF Mapped
<1>10. u.running \subseteq NodesOf(g[k + 1]) /\ \A y \in u.roots : u.ctx[y] \subseteq u.running
  BY <1>3, <1>4, <1>6, <1>9
<1> QED  BY <1>8, <1>10 DEF PartialChain, u, nb

-----------------------------------------------------------------------------
(* What FromScopes makes is a graph over the variables, in which the       *)
(* arguments of a function are connected.                                  *)
LEMMA PrimalOfProblem ==
  ASSUME problem \in Instances, primal = FromScopes(Scopes(problem))
  PROVE  /\ Graph(primal, Vars)
         /\ \A s \in Scopes(problem) : s # {} /\ s \subseteq Vars /\ Clique(primal, s)
         /\ IsFiniteSet(Vars) /\ Vars \subseteq Nat
         /\ Dummy \in Nat /\ Dummy \notin Vars /\ Dummy < INT_MAX
<1> DEFINE SC == Scopes(problem)
<1>1. Vars = UNION SC
  BY DEF Vars, NodesOf, FromScopes
<1>2. /\ IsFiniteSet(Vars) /\ Dummy < INT_MAX
      /\ Vars = 0 .. Dummy - 1
  BY <1>1, InstancesAssumption DEF Dummy
<1>3. Dummy \in Nat
  BY <1>2, FS_CardinalityType DEF Dummy
<1>4. Vars \subseteq Nat /\ Dummy \notin Vars
  BY <1>2, <1>3
<1>5. \A s \in SC : s # {} /\ s \subseteq Vars
  BY <1>1 DEF Scopes
<1>6. \A x \in Vars : primal[x] = (UNION {s \in SC : x \in s}) \ {x}
  BY <1>1 DEF FromScopes
<1>7. \A x \in Vars : \A y : y \in primal[x] <=> y # x /\ \E s \in SC : x \in s /\ y \in s
  <2>1. ASSUME NEW x \in Vars, NEW y
        PROVE  y \in UNION {s \in SC : x \in s} <=> \E s \in SC : x \in s /\ y \in s
    OBVIOUS
  <2> QED  BY <1>6, <2>1
<1>8. primal = [x \in Vars |-> primal[x]]
  BY <1>1 DEF FromScopes
<1> HIDE DEF SC
<1>9. Graph(primal, Vars)
  <2>1. \A x \in Vars : primal[x] \subseteq Vars
    BY <1>5, <1>7
  <2>2. primal \in [Vars -> SUBSET Vars]
    BY <1>8, <2>1
  <2>3. \A x \in Vars : x \notin primal[x] /\ \A y \in primal[x] : x \in primal[y]
    BY <1>5, <1>7
  <2> QED  BY <2>2, <2>3 DEF Graph
<1>10. \A s \in SC : Clique(primal, s)
  BY <1>5, <1>7 DEF Clique
<1> QED  BY <1>2, <1>3, <1>4, <1>5, <1>9, <1>10 DEF SC

(* Above computes the ancestors: the parent, and those of the parent.      *)
LEMMA AncestorsOfNode ==
  ASSUME Dummy \notin Vars, NEW parent \in [Vars -> Vars \cup {Dummy}]
  PROVE  /\ Above(parent)[Dummy] = {}
         /\ \A x \in Vars : Above(parent)[x] = {parent[x]} \cup Above(parent)[parent[x]]
<1> DEFINE N == Vars \cup {Dummy}
           Closed(T) == \A z \in T \cap Vars : parent[z] \in T
           Reached(x) == {y \in N : \A T \in SUBSET N : Closed(T) /\ parent[x] \in T => y \in T}
           w == [x \in N |-> IF x = Dummy THEN {} ELSE Reached(x)]
<1>1. \A x \in Vars : parent[x] \in N /\ parent[x] \in Reached(x)
  OBVIOUS
<1>2. \A x \in Vars : Reached(x) \subseteq N /\ Closed(Reached(x))
  <2>1. ASSUME NEW x \in Vars, NEW z \in Reached(x) \cap Vars
        PROVE  parent[z] \in Reached(x)
    OBVIOUS
  <2> QED  BY <2>1
<1>3. \A x \in Vars : parent[x] \in Vars => Reached(parent[x]) \subseteq Reached(x)
  <2>1. ASSUME NEW x \in Vars, parent[x] \in Vars, NEW y \in Reached(parent[x]),
               NEW T \in SUBSET N, Closed(T), parent[x] \in T
        PROVE  y \in T
    <3>1. parent[parent[x]] \in T
      BY <2>1
    <3> QED  BY <2>1, <3>1
  <2> QED  BY <2>1
<1>4. \A x \in Vars : \A y \in Reached(x) :
        \A T \in SUBSET N : Closed(T) /\ parent[x] \in T => y \in T
  OBVIOUS
<1>5. w = [x \in N |-> IF x = Dummy THEN {} ELSE w[x]] /\ w[Dummy] = {}
      /\ \A x \in Vars : w[x] = Reached(x)
  OBVIOUS
<1> HIDE DEF Reached, w
<1>6. ASSUME NEW x \in Vars
      PROVE  w[x] = {parent[x]} \cup w[parent[x]]
  <2> DEFINE p == parent[x]
             T == {p} \cup w[p]
  <2>1. p \in Vars \/ p = Dummy
    BY <1>1
  <2>2. T \subseteq Reached(x)
    BY <1>1, <1>3, <1>5, <2>1
  <2>3. T \in SUBSET N
    BY <1>2, <2>2
  <2>4. Closed(T)
    <3>1. CASE p = Dummy
      BY <1>5, <3>1
    <3>2. CASE p \in Vars
      <4>1. w[p] = Reached(p) /\ parent[p] \in Reached(p) /\ Closed(Reached(p))
        BY <1>1, <1>2, <1>5, <3>2
      <4> QED  BY <4>1
    <3> QED  BY <2>1, <3>1, <3>2
  <2>5. p \in T
    OBVIOUS
  <2>6. w[x] = Reached(x)
    BY <1>5
  <2> HIDE DEF T, Closed
  <2>7. \A y \in Reached(x) : y \in T
    BY <1>4, <2>3, <2>4, <2>5, Zenon
  <2> QED  BY <2>2, <2>6, <2>7 DEF T
<1> DEFINE Fits(f) == f = [x \in N |-> IF x = Dummy THEN {} ELSE {parent[x]} \cup f[parent[x]]]
<1>7. Fits(w)
  BY <1>5, <1>6
<1>8. Above(parent) = CHOOSE f : Fits(f)
  BY DEF Above
<1> HIDE DEF Fits
<1>9. Fits(Above(parent))
  BY <1>7, <1>8
<1> QED  BY <1>9 DEF Fits

-----------------------------------------------------------------------------
(* The finished tree t over the variables V with the artificial root d,    *)
(* for functions with the scopes SC: what ContextsSeparate says of it.     *)

Earliest(order, s) == order[Min({i \in DOMAIN order : order[i] \in s})]

(* The ancestors are the parent and those of the parent, up to the root d. *)
Rooted(t, V, d) ==
  /\ t.parent \in [V -> V \cup {d}] /\ t.above[d] = {}
  /\ \A x \in V : t.above[x] = {t.parent[x]} \cup t.above[t.parent[x]]
  /\ \E rank : /\ \A x \in V \cup {d} : rank[x] \in Int
               /\ \A x \in V : rank[x] < rank[t.parent[x]]

Separates(t, V, d, SC) ==
  /\ Rooted(t, V, d) /\ DOMAIN t.parent = V
  /\ \A x \in V :
       /\ d \in t.above[x] /\ t.ctx[x] \subseteq t.above[x] \ {d}
       /\ t.ctx[x] \subseteq t.ctx[t.parent[x]] \cup {t.parent[x]}
  /\ \A s \in SC :
       /\ Earliest(t.order, s) \in s
       /\ s \subseteq t.ctx[Earliest(t.order, s)] \cup {Earliest(t.order, s)}

ParentInContext(t, V, d) ==
  \A x \in V : IF t.parent[x] = d THEN t.ctx[x] = {} ELSE t.parent[x] \in t.ctx[x]

ParentsLater(e, n, parent, ctx, d) ==
  \A i \in 1 .. n :
    \/ parent[e[i]] = d /\ ctx[e[i]] = {}
    \/ \E j \in i + 1 .. n : /\ parent[e[i]] = e[j]
                             /\ ctx[e[i]] \subseteq ctx[e[j]] \cup {e[j]}

UnderRoot(t, V, d, parent, ctx) ==
  /\ parent \in [V -> V \cup {d}]
  /\ ctx[d] = {} /\ \A x \in V : ctx[x] = t.ctx[x]
  /\ \A x \in t.roots : parent[x] = d /\ ctx[x] = {}
  /\ \A x \in V \ t.roots : parent[x] = t.parent[x] /\ parent[x] # d

(* The parents of a finished tree come later in the order, the artificial  *)
(* root at the very end, and the context of a node is that of its parent,  *)
(* and the parent, at most.                                                *)
LEMMA RootAdded ==
  ASSUME NEW e, NEW n \in Nat, NEW H, NodesOf(H) = {}, NEW SC,
         NEW V, First(e, n) = V, NEW d, d \notin V,
         NEW t, Partial(t, e, n, H, SC),
         NEW parent, parent = Mapped(t.parent, t.roots, d),
         NEW ctx, ctx = Mapped(t.ctx, {d}, {})
  PROVE  UnderRoot(t, V, d, parent, ctx) /\ ParentsLater(e, n, parent, ctx, d)
<1>1. /\ DOMAIN t.ctx = V /\ t.roots \subseteq V /\ DOMAIN t.parent = V \ t.roots
      /\ \A x \in t.roots : t.ctx[x] = {}
  BY DEF Partial
<1>2. \A i \in 1 .. n :
        \/ e[i] \in t.roots
        \/ \E j \in i + 1 .. n : /\ t.parent[e[i]] = e[j]
                                 /\ t.ctx[e[i]] \subseteq t.ctx[e[j]] \cup {e[j]}
  BY DEF Partial
<1>3. \A i \in 1 .. n : e[i] \in V
  BY DEF First
<1>4. \A x \in V : \E i \in 1 .. n : x = e[i]
  BY DEF First
<1>5. /\ ctx[d] = {} /\ \A x \in V : ctx[x] = t.ctx[x]
      /\ DOMAIN parent = V
      /\ \A x \in t.roots : parent[x] = d
      /\ \A x \in V \ t.roots : parent[x] = t.parent[x]
  BY <1>1 DEF Mapped
<1>6. parent = [x \in V |-> parent[x]]
  BY <1>1 DEF Mapped
<1>7. ASSUME NEW i \in 1 .. n
      PROVE  \/ e[i] \in t.roots /\ parent[e[i]] = d /\ ctx[e[i]] = {}
             \/ \E j \in i + 1 .. n : /\ parent[e[i]] = e[j] /\ e[j] \in V
                                      /\ ctx[e[i]] \subseteq ctx[e[j]] \cup {e[j]}
  <2>1. CASE e[i] \in t.roots
    BY <1>1, <1>3, <1>5, <2>1
  <2>2. CASE e[i] \notin t.roots
    <3>1. PICK j \in i + 1 .. n : /\ t.parent[e[i]] = e[j]
                                  /\ t.ctx[e[i]] \subseteq t.ctx[e[j]] \cup {e[j]}
      BY <1>2, <2>2
    <3>2. j \in 1 .. n
      BY <3>1
    <3>3. e[i] \in V /\ e[j] \in V
      BY <1>3, <3>2
    <3> QED  BY <1>5, <2>2, <3>1, <3>3
  <2> QED  BY <2>1, <2>2
<1>8. \A x \in V \ t.roots : parent[x] \in V
  BY <1>4, <1>7
<1>9. parent \in [V -> V \cup {d}]
  BY <1>1, <1>5, <1>6, <1>8
<1> QED  BY <1>1, <1>5, <1>7, <1>8, <1>9 DEF ParentsLater, UnderRoot

(* The function with scope s is owned by the first variable of the order   *)
(* that is in s.                                                           *)
LEMMA EarliestOf ==
  ASSUME NEW V, NEW e \in Seq(V), First(e, Len(e)) = V, NEW d,
         NEW s, s # {}, s \subseteq V
  PROVE  \E i \in 1 .. Len(e) : /\ Earliest(Append(e, d), s) = e[i]
                                /\ e[i] \in s /\ s \cap First(e, i - 1) = {}
<1> DEFINE o == Append(e, d)
           I == {i \in DOMAIN o : o[i] \in s}
<1>1. Len(e) \in Nat /\ DOMAIN o = 1 .. Len(e) + 1 /\ \A i \in 1 .. Len(e) : o[i] = e[i]
  OBVIOUS
<1>2. PICK a \in 1 .. Len(e) : e[a] \in s
  BY DEF First
<1>3. a \in I
  BY <1>1, <1>2
<1>4. I \subseteq Nat
  BY <1>1
<1>5. PICK m \in I : \A j \in I : m <= j
  BY <1>3, <1>4, LeastNat
<1>6. Min(I) \in I /\ \A j \in I : Min(I) <= j
  BY <1>5 DEF Min
<1>7. Earliest(o, s) = o[Min(I)]
  BY DEF Earliest
<1>8. \A j \in I : j \in DOMAIN o /\ o[j] \in s
  OBVIOUS
<1>9. PICK i : i = Min(I)
  OBVIOUS
<1>10. i \in I /\ (\A j \in I : i <= j) /\ Earliest(o, s) = o[i]
  BY <1>6, <1>7, <1>9, Zenon
<1>11. \A j \in DOMAIN o : o[j] \in s => j \in I
  OBVIOUS
<1> HIDE DEF I, o
<1>12. i \in 1 .. Len(e)
  <2>1. i \in Nat /\ i >= 1 /\ i <= a
    BY <1>1, <1>3, <1>8, <1>10
  <2> QED  BY <2>1
<1>13. Earliest(o, s) = e[i] /\ e[i] \in s
  BY <1>1, <1>8, <1>10, <1>12
<1>14. ASSUME NEW j \in 1 .. i - 1
       PROVE  e[j] \notin s
  <2>1. j \in 1 .. Len(e) /\ j < i
    BY <1>12
  <2>2. j \notin I
    BY <1>10, <1>12, <2>1
  <2> QED  BY <1>1, <1>11, <2>1, <2>2
<1> QED  BY <1>12, <1>13, <1>14 DEF First, o

(* If parents come later in the order then the root is above every node,   *)
(* and so are the contexts.                                                *)
LEMMA ContextsAbove ==
  ASSUME NEW e, NEW n \in Nat, NEW V, First(e, n) = V, NEW d, d \notin V,
         NEW parent, NEW ctx, NEW up,
         \A x \in V : up[x] = {parent[x]} \cup up[parent[x]],
         ParentsLater(e, n, parent, ctx, d)
  PROVE  \A x \in V : d \in up[x] /\ ctx[x] \subseteq up[x] \ {d}
<1> DEFINE Fine(x) == d \in up[x] /\ ctx[x] \subseteq up[x] \ {d}
           Wrong == {m \in 0 .. n : \E i \in 1 .. n : m = n - i /\ ~Fine(e[i])}
<1>1. \A i \in 1 .. n : e[i] \in V
  BY DEF First
<1>2. ASSUME NEW i \in 1 .. n, \A j \in i + 1 .. n : Fine(e[j])
      PROVE  Fine(e[i])
  <2>1. e[i] \in V /\ up[e[i]] = {parent[e[i]]} \cup up[parent[e[i]]]
    BY <1>1
  <2>2. CASE parent[e[i]] = d /\ ctx[e[i]] = {}
    BY <2>1, <2>2
  <2>3. ASSUME NEW j \in i + 1 .. n, parent[e[i]] = e[j],
               ctx[e[i]] \subseteq ctx[e[j]] \cup {e[j]}
        PROVE  Fine(e[i])
    <3>1. Fine(e[j])
      BY <1>2
    <3>2. j \in 1 .. n
      OBVIOUS
    <3>3. e[j] # d
      BY <1>1, <3>2
    <3> QED  BY <2>1, <2>3, <3>1, <3>3
  <2> QED  BY <2>2, <2>3 DEF ParentsLater
<1> HIDE DEF Fine
<1>3. Wrong = {}
  <2> SUFFICES ASSUME Wrong # {}  PROVE FALSE
    OBVIOUS
  <2>1. Wrong \subseteq Nat
    OBVIOUS
  <2>2. PICK m \in Wrong : \A l \in Wrong : m <= l
    BY <2>1, LeastNat
  <2>3. PICK i \in 1 .. n : m = n - i /\ ~Fine(e[i])
    BY <2>2
  <2>4. ASSUME NEW j \in i + 1 .. n
        PROVE  Fine(e[j])
    <3>1. n - j \in 0 .. n /\ n - j < m /\ j \in 1 .. n
      BY <2>3
    <3>2. n - j \notin Wrong
      BY <2>2, <3>1
    <3> QED  BY <3>1, <3>2
  <2> QED  BY <1>2, <2>3, <2>4
<1>4. \A i \in 1 .. n : Fine(e[i])
  <2>1. ASSUME NEW i \in 1 .. n, ~Fine(e[i])  PROVE FALSE
    <3>1. n - i \in 0 .. n
      OBVIOUS
    <3>2. n - i \in Wrong
      BY <2>1, <3>1
    <3> QED  BY <1>3, <3>2
  <2> QED  BY <2>1
<1>5. \A x \in V : Fine(x)
  BY <1>4 DEF First
<1> QED  BY <1>5 DEF Fine

(* The tree that is built for a complete order is what ContextsSeparate    *)
(* says, and in that of build() the parent is in the context.              *)
LEMMA TreeFinished ==
  ASSUME Dummy \notin Vars, NEW g, NEW e, Complete(primal, g, e),
         NEW SC, \A s \in SC : s # {} /\ s \subseteq Vars,
         NEW t, Partial(t, e, Len(e), g[Len(e)], SC), NEW u, u = WithRoot(t, e)
  PROVE  /\ u.order = Append(e, Dummy) /\ Separates(u, Vars, Dummy, SC)
         /\ PartialTree(t, e, Len(e), g[Len(e)], SC) => ParentInContext(u, Vars, Dummy)
<1> DEFINE n == Len(e)
           parent == Mapped(t.parent, t.roots, Dummy)
           ctx == Mapped(t.ctx, {Dummy}, {})
           up == Above(parent)
<1>1. e \in Seq(Vars) /\ n \in Nat /\ Trace(primal, g, e) /\ NodesOf(g[n]) = {}
  BY DEF Complete, Vars
<1>2. n \in 0 .. Len(e)
  BY <1>1
<1>3. First(e, n) = Vars
  <2>1. /\ NodesOf(g[n]) = NodesOf(primal) \ First(e, n)
        /\ First(e, n) \subseteq NodesOf(primal)
    BY <1>1, <1>2, TraceOnce DEF Vars
  <2> QED  BY <1>1, <2>1 DEF Vars
<1>4. DOMAIN t = TreeFields
  BY DEF Partial
<1>5. /\ u.order = Append(e, Dummy)
      /\ u.parent = parent /\ u.ctx = ctx /\ u.above = up
  BY <1>4 DEF WithRoot, TreeFields
<1>6. n \in Nat /\ NodesOf(g[n]) = {} /\ First(e, n) = Vars /\ Partial(t, e, n, g[n], SC)
  BY <1>1, <1>3
<1>7. parent = Mapped(t.parent, t.roots, Dummy) /\ ctx = Mapped(t.ctx, {Dummy}, {})
  OBVIOUS
<1> HIDE DEF ctx, parent, n
<1>8. UnderRoot(t, Vars, Dummy, parent, ctx) /\ ParentsLater(e, n, parent, ctx, Dummy)
  BY <1>6, <1>7, RootAdded
<1>9. /\ parent \in [Vars -> Vars \cup {Dummy}]
      /\ ctx[Dummy] = {} /\ \A x \in Vars : ctx[x] = t.ctx[x]
      /\ \A x \in t.roots : parent[x] = Dummy /\ ctx[x] = {}
      /\ \A x \in Vars \ t.roots : parent[x] = t.parent[x] /\ parent[x] # Dummy
  BY <1>8 DEF UnderRoot
<1>10. \A x \in Vars : up[x] = {parent[x]} \cup up[parent[x]]
  BY <1>9, AncestorsOfNode
<1> HIDE DEF up
<1>11. \A x \in Vars : Dummy \in up[x] /\ ctx[x] \subseteq up[x] \ {Dummy}
  <2>1. n \in Nat
    BY <1>1
  <2> QED  BY <2>1, <1>3, <1>8, <1>10, ContextsAbove
<1>12. \A x \in Vars : ctx[x] \subseteq ctx[parent[x]] \cup {parent[x]}
  <2>1. \A i \in 1 .. n : ctx[e[i]] \subseteq ctx[parent[e[i]]] \cup {parent[e[i]]}
    BY <1>8 DEF ParentsLater
  <2>2. \A x \in Vars : \E i \in 1 .. n : x = e[i]
    BY <1>3 DEF First
  <2> QED  BY <2>1, <2>2
<1>13. ASSUME NEW s \in SC
       PROVE  /\ Earliest(u.order, s) \in s
              /\ s \subseteq ctx[Earliest(u.order, s)] \cup {Earliest(u.order, s)}
  <2>1. s # {} /\ s \subseteq Vars
    OBVIOUS
  <2>2. PICK i \in 1 .. n : /\ Earliest(Append(e, Dummy), s) = e[i]
                            /\ e[i] \in s /\ s \cap First(e, i - 1) = {}
    BY <1>1, <1>3, <2>1, EarliestOf DEF n
  <2>3. s \subseteq t.ctx[e[i]] \cup {e[i]}
    BY <2>2 DEF Partial, n
  <2>4. ctx[e[i]] = t.ctx[e[i]]
    BY <1>9, <2>1, <2>2
  <2> QED  BY <1>5, <2>2, <2>3, <2>4
<1>14. DOMAIN parent = Vars
  BY <1>9
<1>15. Rooted(u, Vars, Dummy)
  <2>1. up[Dummy] = {}
    BY <1>9, AncestorsOfNode DEF up
  <2>2. /\ \A i, j \in 1 .. n : i # j => e[i] # e[j]
        /\ \A i \in 1 .. n : e[i] \in Vars
    BY <1>1, <1>3, TraceOnce DEF n, First, Vars
  <2>3. PICK rank : rank = [x \in Vars \cup {Dummy} |->
                              IF x = Dummy THEN n + 1 ELSE CHOOSE i \in 1 .. n : e[i] = x]
    OBVIOUS
  <2>4. rank[Dummy] = n + 1 /\ \A i \in 1 .. n : rank[e[i]] = i
    BY <2>2, <2>3
  <2>5. ASSUME NEW x \in Vars
        PROVE  rank[x] \in Int /\ rank[x] < rank[parent[x]]
    <3>1. PICK i \in 1 .. n : x = e[i]
      BY <1>3 DEF First
    <3>2. parent[e[i]] = Dummy \/ \E j \in i + 1 .. n : parent[e[i]] = e[j]
      BY <1>8 DEF ParentsLater
    <3>3. \A j \in i + 1 .. n : j \in 1 .. n /\ i < j
      BY <1>6
    <3> QED  BY <1>6, <2>4, <3>1, <3>2, <3>3
  <2>6. \A x \in Vars \cup {Dummy} : rank[x] \in Int
    BY <1>6, <2>4, <2>5
  <2> QED  BY <1>5, <1>9, <1>10, <2>1, <2>5, <2>6 DEF Rooted
<1>16. Separates(u, Vars, Dummy, SC)
  BY <1>5, <1>11, <1>12, <1>13, <1>14, <1>15 DEF Separates
<1>17. ASSUME PartialTree(t, e, n, g[n], SC), NEW x \in Vars
       PROVE  IF parent[x] = Dummy THEN ctx[x] = {} ELSE parent[x] \in ctx[x]
  <2>1. CASE x \in t.roots
    BY <1>9, <2>1
  <2>2. CASE x \notin t.roots
    <3>1. x \in DOMAIN t.parent
      BY <1>3, <2>2 DEF Partial, n
    <3>2. t.parent[x] \in t.ctx[x]
      BY <1>17, <3>1 DEF PartialTree
    <3> QED  BY <1>9, <2>2, <3>2
  <2> QED  BY <2>1, <2>2
<1>18. PartialTree(t, e, n, g[n], SC) => ParentInContext(u, Vars, Dummy)
  BY <1>5, <1>17 DEF ParentInContext
<1> QED  BY <1>5, <1>16, <1>18 DEF n

-----------------------------------------------------------------------------
(* What eliminate(), build() and buildChain() work on: P is the graph of   *)
(* the problem, H what is left of it, e the order, w its width, sc the     *)
(* scores, t the tree and SC the scopes of the functions.                  *)

Eliminating(P, H, sc, e, w) ==
  /\ e \in Seq(NodesOf(P))
  /\ \E g : /\ Trace(P, g, e) /\ H = g[Len(e)]
            /\ Widest(w, Degrees(g, e, Len(e)))
  /\ DOMAIN sc = NodesOf(P)
  /\ \A x \in NodesOf(H) : sc[x] \in Nat /\ ScoreMinfill(H, x) <= sc[x]

Measured(P, e, w) ==
  \E g : Complete(P, g, e) /\ Widest(w, Degrees(g, e, Len(e)))

Building(P, H, e, w, t, SC) ==
  \E g : /\ Complete(P, g, e) /\ Widest(w, Degrees(g, e, Len(e)))
         /\ \E k \in 0 .. Len(e) : /\ H = g[k] /\ PartialTree(t, e, k, H, SC)
                                   /\ Widest(t.width, Degrees(g, e, k))
                                   /\ Covering(t, g, e, k)

Chaining(P, H, order, t, SC) ==
  \E g, e : /\ Complete(P, g, e) /\ order = Append(e, Cardinality(NodesOf(P)))
            /\ Widest(t.width, Degrees(g, e, Len(e)))
            /\ \E k \in 0 .. Len(e) : /\ H = g[k] /\ PartialChain(t, e, k, H, SC)
                                      /\ Covering(t, g, e, k)

(* A finished tree has the order and the width of a trace. *)
Traced(P, t) ==
  \E g, e : /\ Complete(P, g, e) /\ t.order = Append(e, Cardinality(NodesOf(P)))
            /\ Widest(t.width, Degrees(g, e, Len(e))) /\ Covering(t, g, e, Len(e))

Kept(P, t, SC) ==
  Separates(t, NodesOf(P), Cardinality(NodesOf(P)), SC) /\ Traced(P, t)

(* At first nothing is eliminated.                                         *)
LEMMA EliminationStarts ==
  ASSUME NEW P, Graph(P, NodesOf(P)), IsFiniteSet(NodesOf(P)),
         NEW sc, sc = [x \in NodesOf(P) |-> ScoreMinfill(P, x)]
  PROVE  Eliminating(P, P, sc, <<>>, UNKNOWN)
<1> DEFINE g == [i \in 0 .. 0 |-> P]
<1>1. Len(<<>>) = 0 /\ <<>> \in Seq(NodesOf(P)) /\ 1 .. 0 = {}
  OBVIOUS
<1>2. First(<<>>, 0) = {} /\ Degrees(g, <<>>, 0) = {}
  BY DEF First, Degrees
<1>3. g[0] = P /\ DOMAIN g = 0 .. 0 /\ \A i \in 0 .. 0 : i = 0
  OBVIOUS
<1> HIDE DEF g
<1>4. Trace(P, g, <<>>)
  <2>1. Graph(g[0], NodesOf(P) \ First(<<>>, 0))
    <3>1. NodesOf(P) \ First(<<>>, 0) = NodesOf(P)
      BY <1>2
    <3> QED  BY <1>3, <3>1
  <2>2. \A i \in 0 .. 0 : Graph(g[i], NodesOf(P) \ First(<<>>, i))
    BY <1>3, <2>1, Zenon
  <2>3. \A e : Len(e) = 0 /\ (\A i \in 0 .. 0 : Graph(g[i], NodesOf(P) \ First(e, i)))
               => Trace(P, g, e)
    BY <1>3 DEF Trace
  <2> QED  BY <1>1, <2>2, <2>3
<1>5. Widest(UNKNOWN, Degrees(g, <<>>, 0))
  BY <1>2 DEF Widest, UNKNOWN
<1>6. \A x \in NodesOf(P) : ScoreMinfill(P, x) \in Nat
  BY FillCounted
<1>7. \A x \in NodesOf(P) : sc[x] \in Nat /\ ScoreMinfill(P, x) <= sc[x]
  BY <1>6
<1>8. P = g[Len(<<>>)] /\ Widest(UNKNOWN, Degrees(g, <<>>, Len(<<>>)))
  BY <1>1, <1>3, <1>5
<1> QED  BY <1>1, <1>4, <1>7, <1>8 DEF Eliminating

(* Widths stay below the number of nodes.                                  *)
LEMMA WidthBounded ==
  ASSUME NEW P, IsFiniteSet(NodesOf(P)), NEW g, NEW e \in Seq(NodesOf(P)), Trace(P, g, e),
         NEW k \in 0 .. Len(e), NEW w, Widest(w, Degrees(g, e, k))
  PROVE  w \in Int /\ w <= Cardinality(NodesOf(P)) /\ Cardinality(NodesOf(P)) \in Nat
<1>1. \A d \in Degrees(g, e, k) : d \in Nat /\ d <= Cardinality(NodesOf(P))
  BY DegreesBounded
<1>2. Cardinality(NodesOf(P)) \in Nat
  BY FS_CardinalityType
<1> QED  BY <1>1, <1>2 DEF Widest, UNKNOWN

(* The width of a trace is that of the longer trace once the new degrees   *)
(* are taken in.                                                           *)
LEMMA WidthGrows ==
  ASSUME NEW P, IsFiniteSet(NodesOf(P)),
         NEW g, NEW e \in Seq(NodesOf(P)), Trace(P, g, e), NEW k \in 0 .. Len(e),
         NEW h, NEW f \in Seq(NodesOf(P)), Trace(P, h, f), NEW m \in 0 .. Len(f),
         NEW E, Degrees(h, f, m) = Degrees(g, e, k) \cup E,
         NEW w, Widest(w, Degrees(g, e, k))
  PROVE  Widest(Max({w} \cup E), Degrees(h, f, m))
<1> DEFINE b == Cardinality(NodesOf(P))
<1>1. w \in Int /\ w <= b /\ b \in Nat
  BY WidthBounded
<1>2. \A d \in Degrees(g, e, k) : d \in Nat
  BY DegreesBounded
<1>3. \A d \in Degrees(h, f, m) : d \in Nat /\ d <= b
  BY DegreesBounded
<1>4. Degrees(g, e, k) \subseteq Nat /\ E \subseteq 0 .. b
  BY <1>1, <1>2, <1>3
<1>5. ASSUME NEW D, D \subseteq Nat, Widest(w, D)
      PROVE  Widest(Max({w} \cup E), D \cup E)
  <2> HIDE DEF b
  <2>1. b \in Int
    BY <1>1
  <2> QED  BY <1>1, <2>1, <1>4, <1>5, WidestGrows, Zenon
<1>6. Widest(Max({w} \cup E), Degrees(g, e, k) \cup E)
  BY <1>4, <1>5
<1> QED  BY <1>6

(* What is left is a graph over nodes of the problem.                      *)
LEMMA GraphLeft ==
  ASSUME NEW P, IsFiniteSet(NodesOf(P)), NEW g, NEW e \in Seq(NodesOf(P)), Trace(P, g, e),
         NEW k \in 0 .. Len(e)
  PROVE  /\ Graph(g[k], NodesOf(g[k])) /\ IsFiniteSet(NodesOf(g[k]))
         /\ NodesOf(g[k]) \subseteq NodesOf(P)
<1>1. NodesOf(g[k]) = NodesOf(P) \ First(e, k)
  BY TraceOnce
<1>2. Graph(g[k], NodesOf(P) \ First(e, k))
  BY DEF Trace
<1>3. NodesOf(g[k]) \subseteq NodesOf(P)
  BY <1>1
<1>4. IsFiniteSet(NodesOf(g[k]))
  BY <1>3, FS_Subset
<1> QED  BY <1>1, <1>2, <1>3, <1>4

(* The nodes of score 0 go together.  The scores of the others are still   *)
(* not too low, although none of them is computed again.                   *)
LEMMA SimplicialRemoved ==
  ASSUME NEW P, IsFiniteSet(NodesOf(P)), NodesOf(P) \subseteq Int,
         NEW H, NEW sc, NEW e, NEW w, Eliminating(P, H, sc, e, w),
         NEW Z, Z = {x \in NodesOf(H) : sc[x] = 0}, NEW z, z = ByIndex(Z),
         NEW E, E = Removals(H, z)
  PROVE  Eliminating(P, RemoveNodes(H, Z), sc, e \o z, Max({w} \cup E))
<1> DEFINE f == e \o z
           R == RemoveNodes(H, Z)
<1>1. /\ e \in Seq(NodesOf(P)) /\ DOMAIN sc = NodesOf(P)
      /\ \A x \in NodesOf(H) : sc[x] \in Nat /\ ScoreMinfill(H, x) <= sc[x]
  BY DEF Eliminating
<1>2. PICK g : Trace(P, g, e) /\ H = g[Len(e)] /\ Widest(w, Degrees(g, e, Len(e)))
  BY DEF Eliminating
<1>3. Len(e) \in Nat /\ Len(e) \in 0 .. Len(e)
  BY <1>1, LenProperties
<1>4. Graph(H, NodesOf(H)) /\ IsFiniteSet(NodesOf(H)) /\ NodesOf(H) \subseteq NodesOf(P)
  BY <1>1, <1>2, <1>3, GraphLeft
<1>5. Z \subseteq NodesOf(H) /\ Z \subseteq Int /\ IsFiniteSet(Z)
  BY <1>4, FS_Subset
<1>6. ASSUME NEW x \in Z
      PROVE  Clique(H, H[x])
  <2>1. x \in NodesOf(H) /\ sc[x] = 0
    OBVIOUS
  <2>2. ScoreMinfill(H, x) \in Nat
    BY <1>4, <2>1, FillCounted
  <2>3. ScoreMinfill(H, x) = 0
    BY <1>1, <2>1, <2>2
  <2> QED  BY <1>4, <2>1, <2>3, NoFill
<1>7. z \in Seq(Z) /\ NoRepeat(z) /\ Elements(z) = Z
  BY <1>5, ByIndexLists
<1>8. PICK h : /\ f \in Seq(NodesOf(P)) /\ Trace(P, h, f) /\ h[Len(f)] = R
               /\ Degrees(h, f, Len(f)) = Degrees(g, e, Len(e)) \cup E
  <2>1. H = g[Len(e)] /\ Trace(P, g, e) /\ Z \subseteq NodesOf(H)
    BY <1>2, <1>5
  <2>2. \A x \in Z : Clique(H, H[x])
    BY <1>6
  <2>3. e \in Seq(NodesOf(P)) /\ z \in Seq(Z) /\ NoRepeat(z) /\ Elements(z) = Z
    BY <1>1, <1>7
  <2>4. Extended(P, g, e, f, R, E)
    BY <2>1, <2>2, <2>3, TraceRemoved, Zenon
  <2> QED  BY <2>4, Zenon DEF Extended
<1> HIDE DEF f
<1>9. Widest(Max({w} \cup E), Degrees(h, f, Len(f)))
  <2>1. Len(f) \in 0 .. Len(f)
    BY <1>8, LenProperties
  <2> QED  BY <1>1, <1>2, <1>3, <1>8, <2>1, WidthGrows
<1>10. ASSUME NEW x \in NodesOf(R)
       PROVE  sc[x] \in Nat /\ ScoreMinfill(R, x) <= sc[x]
  <2>1. x \in NodesOf(H) \ Z
    BY DEF RemoveNodes, NodesOf
  <2>2. FillIn(R, x) \subseteq FillIn(H, x)
    BY <1>4, <2>1, FillAfterRemoval
  <2>3. /\ ScoreMinfill(H, x) \in Nat /\ ScoreMinfill(R, x) \in Nat
        /\ ScoreMinfill(R, x) <= ScoreMinfill(H, x)
    BY <1>4, <2>1, <2>2, FillCounted
  <2> QED  BY <1>1, <2>1, <2>3
<1> QED  BY <1>1, <1>8, <1>9, <1>10 DEF Eliminating, f

(* A node is eliminated with edges added among its neighbours.  Only those *)
(* and their neighbours get new scores: the others have no more to fill in *)
(* than before.                                                            *)
LEMMA NodeEliminated ==
  ASSUME NEW P, IsFiniteSet(NodesOf(P)),
         NEW H, NEW sc, NEW e, NEW w, Eliminating(P, H, sc, e, w),
         NEW x \in NodesOf(H), NEW T, T = Touched(AddClique(H, H[x]), H[x]) \ {x},
         NEW sd, sd = [y \in DOMAIN sc |-> IF y \in T THEN ScoreMinfill(Without(H, x), y)
                                           ELSE sc[y]]
  PROVE  Eliminating(P, Without(H, x), sd, Append(e, x), Max({w} \cup {Cardinality(H[x])}))
<1> DEFINE f == Append(e, x)
           R == Without(H, x)
           E == {Cardinality(H[x])}
<1>1. /\ e \in Seq(NodesOf(P)) /\ DOMAIN sc = NodesOf(P)
      /\ \A y \in NodesOf(H) : sc[y] \in Nat /\ ScoreMinfill(H, y) <= sc[y]
  BY DEF Eliminating
<1>2. PICK g : Trace(P, g, e) /\ H = g[Len(e)] /\ Widest(w, Degrees(g, e, Len(e)))
  BY DEF Eliminating
<1>3. Len(e) \in Nat /\ Len(e) \in 0 .. Len(e)
  BY <1>1, LenProperties
<1>4. Graph(H, NodesOf(H)) /\ IsFiniteSet(NodesOf(H)) /\ NodesOf(H) \subseteq NodesOf(P)
  BY <1>1, <1>2, <1>3, GraphLeft
<1>5. PICK h : /\ f \in Seq(NodesOf(P)) /\ Trace(P, h, f) /\ h[Len(f)] = R
               /\ Degrees(h, f, Len(f)) = Degrees(g, e, Len(e)) \cup E
  <2>1. Extended(P, g, e, f, R, E)
    BY <1>1, <1>2, TraceExtended
  <2> QED  BY <2>1, Zenon DEF Extended
<1> HIDE DEF f, E
<1>6. Widest(Max({w} \cup E), Degrees(h, f, Len(f)))
  <2>1. Len(f) \in 0 .. Len(f)
    BY <1>5, LenProperties
  <2> QED  BY <1>1, <1>2, <1>3, <1>5, <2>1, WidthGrows
<1>7. Graph(R, NodesOf(H) \ {x})
  BY <1>4, WithoutNode
<1>8. NodesOf(R) = NodesOf(H) \ {x}
  BY <1>7 DEF Graph, NodesOf
<1>9. IsFiniteSet(NodesOf(R)) /\ Graph(R, NodesOf(R))
  BY <1>4, <1>7, <1>8, FS_Subset
<1> HIDE DEF R
<1>10. DOMAIN sd = NodesOf(P)
  BY <1>1
<1>11. ASSUME NEW y \in NodesOf(R)
       PROVE  sd[y] \in Nat /\ ScoreMinfill(R, y) <= sd[y]
  <2>1. y \in NodesOf(H) \ {x} /\ y \in DOMAIN sc
    BY <1>1, <1>4, <1>8
  <2>2. ScoreMinfill(R, y) \in Nat
    BY <1>9, FillCounted
  <2>3. CASE y \in T
    <3>1. sd[y] = ScoreMinfill(R, y)
      BY <2>1, <2>3 DEF R
    <3> QED  BY <2>2, <3>1
  <2>4. CASE y \notin T
    <3>1. sd[y] = sc[y]
      BY <2>1, <2>4
    <3>2. y \notin H[x]
      BY <2>1, <2>4 DEF Touched
    <3>3. FillIn(R, y) \subseteq FillIn(H, y)
      BY <1>4, <2>1, <3>2, FillAfterElimination DEF R
    <3>4. ScoreMinfill(H, y) \in Nat /\ ScoreMinfill(R, y) <= ScoreMinfill(H, y)
      BY <1>4, <2>1, <3>3, FillCounted
    <3> QED  BY <1>1, <2>1, <2>2, <3>1, <3>4
  <2> QED  BY <2>3, <2>4
<1> QED  BY <1>1, <1>5, <1>6, <1>10, <1>11 DEF Eliminating, R, E, f

(* The nodes of a complete trace are used up exactly at its end.           *)
LEMMA EndOfTrace ==
  ASSUME NEW P, IsFiniteSet(NodesOf(P)), NEW g, NEW e, Complete(P, g, e),
         NEW k \in 0 .. Len(e)
  PROVE  /\ IF NodesOf(g[k]) = {} THEN k = Len(e) ELSE k + 1 \in 1 .. Len(e)
         /\ Len(e) = Cardinality(NodesOf(P)) /\ k \in Nat
<1>1. /\ e \in Seq(NodesOf(P)) /\ Trace(P, g, e) /\ NodesOf(g[Len(e)]) = {}
      /\ Len(e) \in Nat
  BY LenProperties DEF Complete
<1>2. ASSUME k = Len(e)
      PROVE  NodesOf(g[k]) = {}
  BY <1>1, <1>2
<1>3. ASSUME k # Len(e)
      PROVE  k + 1 \in 1 .. Len(e) /\ NodesOf(g[k]) # {}
  <2>1. k + 1 \in 1 .. Len(e)
    BY <1>1, <1>3
  <2>2. e[k + 1] \in NodesOf(g[k])
    BY <1>1, <2>1, TraceNext
  <2> QED  BY <2>1, <2>2
<1>4. Len(e) = Cardinality(NodesOf(P))
  <2>1. Len(e) \in 0 .. Len(e)
    BY <1>1
  <2>2. /\ NodesOf(g[Len(e)]) = NodesOf(P) \ First(e, Len(e))
        /\ First(e, Len(e)) \subseteq NodesOf(P)
    BY <1>1, <2>1, TraceOnce
  <2>3. First(e, Len(e)) = NodesOf(P)
    BY <1>1, <2>2
  <2>4. Cardinality(First(e, Len(e))) = Len(e)
    BY <1>1, <2>1, TraceOnce
  <2> QED  BY <2>3, <2>4
<1>5. k \in Nat
  BY <1>1
<1> QED  BY <1>2, <1>3, <1>4, <1>5

(* An order is complete when no node is left, and has a width then.        *)
LEMMA OrderFound ==
  ASSUME NEW P, NEW H, NEW sc, NEW e, NEW w, Eliminating(P, H, sc, e, w), NodesOf(H) = {}
  PROVE  Measured(P, e, w)
  BY DEF Eliminating, Measured, Complete

(* That is less than the number of nodes allows.                           *)
LEMMA MeasuredWidth ==
  ASSUME NEW P, IsFiniteSet(NodesOf(P)), NEW e, NEW w, Measured(P, e, w)
  PROVE  w \in Int /\ w <= Cardinality(NodesOf(P))
<1>1. PICK g : Complete(P, g, e) /\ Widest(w, Degrees(g, e, Len(e)))
  BY DEF Measured
<1>2. e \in Seq(NodesOf(P)) /\ Trace(P, g, e) /\ Len(e) \in 0 .. Len(e)
  BY <1>1, LenProperties DEF Complete
<1> QED  BY <1>1, <1>2, WidthBounded

(* One more node whose context covers its neighbours.                      *)
LEMMA CoveringNext ==
  ASSUME NEW P, NEW g, NEW e \in Seq(NodesOf(P)), Trace(P, g, e),
         NEW k \in 0 .. Len(e), k + 1 \in 1 .. Len(e), NEW x, x = e[k + 1],
         NEW t, DOMAIN t.ctx = First(e, k), Covering(t, g, e, k),
         NEW c, g[k][x] \subseteq c, NEW u, u.ctx = Mapped(t.ctx, {x}, c)
  PROVE  Covering(u, g, e, k + 1)
<1>1. x \notin First(e, k)
  <2>1. x \in NodesOf(g[k])
    BY TraceNext
  <2>2. NodesOf(g[k]) = NodesOf(P) \ First(e, k)
    BY TraceOnce
  <2> QED  BY <2>1, <2>2
<1>2. k \in Nat
  BY LenProperties
<1>3. ASSUME NEW i \in 1 .. k + 1
      PROVE  g[i - 1][e[i]] \subseteq u.ctx[e[i]]
  <2>1. CASE i = k + 1
    <3>1. u.ctx[x] = c
      BY DEF Mapped
    <3>2. i - 1 = k /\ e[i] = x
      BY <1>2, <2>1
    <3> QED  BY <3>1, <3>2
  <2>2. CASE i # k + 1
    <3>1. i \in 1 .. k
      BY <1>2, <2>2
    <3>2. e[i] \in First(e, k)
      BY <3>1 DEF First
    <3>3. u.ctx[e[i]] = t.ctx[e[i]]
      BY <1>1, <3>2 DEF Mapped
    <3> QED  BY <3>1, <3>3 DEF Covering
  <2> QED  BY <2>1, <2>2
<1> QED  BY <1>3 DEF Covering

(* build() starts with an empty tree and the graph of the problem.         *)
LEMMA BuildStarts ==
  ASSUME NEW P, NEW e, NEW w, Measured(P, e, w), NEW SC, \A s \in SC : Clique(P, s)
  PROVE  Building(P, P, e, w, NoTree, SC)
<1>1. PICK g : Complete(P, g, e) /\ Widest(w, Degrees(g, e, Len(e)))
  BY DEF Measured
<1>2. g[0] = P /\ 0 \in 0 .. Len(e)
  BY <1>1, LenProperties DEF Complete, Trace
<1>3. NoTree.width = UNKNOWN
  BY DEF NoTree
<1>4. PartialTree(NoTree, e, 0, P, SC)
  BY EmptyTree
<1>5. Widest(UNKNOWN, Degrees(g, e, 0))
  BY DEF Widest, Degrees, UNKNOWN
<1>6. Covering(NoTree, g, e, 0)
  BY DEF Covering
<1> QED  BY <1>1, <1>2, <1>3, <1>4, <1>5, <1>6 DEF Building

(* It inserts the nodes in the order, and keeps the width so far.          *)
LEMMA BuildGoesOn ==
  ASSUME NEW P, IsFiniteSet(NodesOf(P)), NEW SC, \A s \in SC : s \subseteq NodesOf(P),
         NEW H, NodesOf(H) # {}, NEW e, NEW w, NEW t, Building(P, H, e, w, t, SC),
         NEW x, x = e[1 + Cardinality(DOMAIN t.ctx)]
  PROVE  Building(P, Without(H, x), e, w, Inserted(t, x, H[x]), SC)
<1> DEFINE u == Inserted(t, x, H[x])
<1>1. PICK g : /\ Complete(P, g, e) /\ Widest(w, Degrees(g, e, Len(e)))
               /\ \E k \in 0 .. Len(e) : /\ H = g[k] /\ PartialTree(t, e, k, H, SC)
                                         /\ Widest(t.width, Degrees(g, e, k))
                                         /\ Covering(t, g, e, k)
  BY DEF Building
<1>2. PICK k \in 0 .. Len(e) : /\ H = g[k] /\ PartialTree(t, e, k, H, SC)
                               /\ Widest(t.width, Degrees(g, e, k))
                               /\ Covering(t, g, e, k)
  BY <1>1
<1>3. e \in Seq(NodesOf(P)) /\ Trace(P, g, e)
  BY <1>1 DEF Complete
<1>4. k + 1 \in 1 .. Len(e) /\ k \in Nat
  BY <1>1, <1>2, EndOfTrace
<1>5. x = e[k + 1]
  <2>1. DOMAIN t.ctx = First(e, k)
    BY <1>2 DEF PartialTree, Partial
  <2>2. Cardinality(First(e, k)) = k
    BY <1>3, TraceOnce
  <2> QED  BY <1>4, <2>1, <2>2
<1>6. PartialTree(u, e, k + 1, g[k + 1], SC)
  BY <1>2, <1>3, <1>4, <1>5, TreeInserted
<1>7. u.width = Max({t.width, Cardinality(H[x])})
  <2>1. DOMAIN t = TreeFields
    BY <1>2 DEF PartialTree, Partial
  <2> QED  BY <2>1 DEF Inserted, TreeFields
<1>14. Covering(u, g, e, k + 1)
  <2>1. DOMAIN t = TreeFields /\ DOMAIN t.ctx = First(e, k)
    BY <1>2 DEF PartialTree, Partial
  <2>2. u.ctx = Mapped(t.ctx, {x}, H[x])
    BY <2>1 DEF Inserted, TreeFields
  <2> HIDE DEF u
  <2> QED  BY <1>2, <1>3, <1>4, <1>5, <2>1, <2>2, CoveringNext
<1> HIDE DEF u
<1>8. g[k + 1] = Without(H, x)
  BY <1>2, <1>3, <1>4, <1>5, TraceNext
<1>9. Degrees(g, e, k + 1) = Degrees(g, e, k) \cup {Cardinality(H[x])}
  BY <1>2, <1>4, <1>5, FirstNext
<1>10. k + 1 \in 0 .. Len(e)
  BY <1>4
<1>11. Widest(Max({t.width} \cup {Cardinality(H[x])}), Degrees(g, e, k + 1))
  BY <1>2, <1>3, <1>9, <1>10, WidthGrows
<1>12. {t.width} \cup {Cardinality(H[x])} = {t.width, Cardinality(H[x])}
  OBVIOUS
<1>13. Widest(u.width, Degrees(g, e, k + 1))
  BY <1>7, <1>11, <1>12
<1> QED  BY <1>1, <1>6, <1>8, <1>10, <1>13, <1>14 DEF Building, u

(* When no node is left, the tree has the width of the order.              *)
LEMMA BuildEnds ==
  ASSUME NEW P, IsFiniteSet(NodesOf(P)),
         NEW H, NodesOf(H) = {}, NEW e, NEW w, NEW t, NEW SC, Building(P, H, e, w, t, SC)
  PROVE  /\ t.width = w /\ Measured(P, e, w)
         /\ \E g : /\ Complete(P, g, e) /\ PartialTree(t, e, Len(e), g[Len(e)], SC)
                   /\ Widest(t.width, Degrees(g, e, Len(e))) /\ Covering(t, g, e, Len(e))
<1>1. PICK g : /\ Complete(P, g, e) /\ Widest(w, Degrees(g, e, Len(e)))
               /\ \E k \in 0 .. Len(e) : /\ H = g[k] /\ PartialTree(t, e, k, H, SC)
                                         /\ Widest(t.width, Degrees(g, e, k))
                                         /\ Covering(t, g, e, k)
  BY DEF Building
<1>2. PICK k \in 0 .. Len(e) : /\ H = g[k] /\ PartialTree(t, e, k, H, SC)
                               /\ Widest(t.width, Degrees(g, e, k))
                               /\ Covering(t, g, e, k)
  BY <1>1
<1>3. k = Len(e)
  BY <1>1, <1>2, EndOfTrace
<1>4. e \in Seq(NodesOf(P)) /\ Trace(P, g, e) /\ Len(e) \in 0 .. Len(e)
  BY <1>1, LenProperties DEF Complete
<1>5. Degrees(g, e, Len(e)) \subseteq Nat
  BY <1>4, DegreesBounded
<1>6. t.width = w
  BY <1>1, <1>2, <1>3, <1>5, WidestUnique
<1> QED  BY <1>1, <1>2, <1>3, <1>6 DEF Measured

(* buildChain() starts with the order of the tree that is kept.            *)
LEMMA ChainStarts ==
  ASSUME NEW P, NEW SC, \A s \in SC : Clique(P, s), NEW t, Kept(P, t, SC),
         NEW w, w = t.width
  PROVE  Chaining(P, P, t.order, [NoTree EXCEPT !.width = w], SC)
<1>1. PICK g, e : /\ Complete(P, g, e) /\ t.order = Append(e, Cardinality(NodesOf(P)))
                  /\ Widest(t.width, Degrees(g, e, Len(e)))
  BY DEF Kept, Traced
<1>2. g[0] = P /\ 0 \in 0 .. Len(e)
  BY <1>1, LenProperties DEF Complete, Trace
<1>3. PartialChain([NoTree EXCEPT !.width = w], e, 0, P, SC)
  BY EmptyTree
<1>4. [NoTree EXCEPT !.width = w].width = w
  BY DEF NoTree
<1>5. Covering([NoTree EXCEPT !.width = w], g, e, 0)
  BY DEF Covering
<1> QED  BY <1>1, <1>2, <1>3, <1>4, <1>5 DEF Chaining

(* It takes the nodes in that order.                                       *)
LEMMA ChainGoesOn ==
  ASSUME NEW P, IsFiniteSet(NodesOf(P)), NEW SC, \A s \in SC : s \subseteq NodesOf(P),
         NEW H, NodesOf(H) # {}, NEW order, NEW t, Chaining(P, H, order, t, SC),
         NEW x, x = order[1 + Cardinality(DOMAIN t.ctx)]
  PROVE  Chaining(P, Without(H, x), order, Chained(t, x, H[x]), SC)
<1> DEFINE u == Chained(t, x, H[x])
           d == Cardinality(NodesOf(P))
<1>1. PICK g, e : /\ Complete(P, g, e) /\ order = Append(e, d)
                  /\ Widest(t.width, Degrees(g, e, Len(e)))
                  /\ \E k \in 0 .. Len(e) : /\ H = g[k] /\ PartialChain(t, e, k, H, SC)
                                            /\ Covering(t, g, e, k)
  BY DEF Chaining
<1>2. PICK k \in 0 .. Len(e) : /\ H = g[k] /\ PartialChain(t, e, k, H, SC)
                               /\ Covering(t, g, e, k)
  BY <1>1
<1>3. e \in Seq(NodesOf(P)) /\ Trace(P, g, e)
  BY <1>1 DEF Complete
<1>4. k + 1 \in 1 .. Len(e) /\ k \in Nat
  BY <1>1, <1>2, EndOfTrace
<1>5. x = e[k + 1]
  <2>1. DOMAIN t.ctx = First(e, k)
    BY <1>2 DEF PartialChain, Partial
  <2>2. Cardinality(First(e, k)) = k
    BY <1>3, TraceOnce
  <2>3. order[k + 1] = e[k + 1]
    BY <1>1, <1>3, <1>4
  <2> QED  BY <1>4, <2>1, <2>2, <2>3
<1>6. PartialChain(u, e, k + 1, g[k + 1], SC)
  BY <1>2, <1>3, <1>4, <1>5, ChainGrows
<1>9. u.width = t.width /\ Covering(u, g, e, k + 1)
  <2>1. DOMAIN t = TreeFields /\ DOMAIN t.ctx = First(e, k)
    BY <1>2 DEF PartialChain, Partial
  <2>2. /\ u.ctx = Mapped(t.ctx, {x}, (t.running \ {x}) \cup H[x])
        /\ u.width = t.width
    BY <2>1 DEF Chained, TreeFields
  <2>3. g[k][x] \subseteq (t.running \ {x}) \cup H[x]
    BY <1>2
  <2> HIDE DEF u
  <2> QED  BY <1>2, <1>3, <1>4, <1>5, <2>1, <2>2, <2>3, CoveringNext
<1> HIDE DEF u
<1>7. g[k + 1] = Without(H, x)
  BY <1>2, <1>3, <1>4, <1>5, TraceNext
<1>8. k + 1 \in 0 .. Len(e)
  BY <1>4
<1> QED  BY <1>1, <1>6, <1>7, <1>8, <1>9 DEF Chaining, u

(* When no node is left, the chain has the order of the tree.              *)
LEMMA ChainEnds ==
  ASSUME NEW P, IsFiniteSet(NodesOf(P)), NEW SC,
         NEW H, NodesOf(H) = {}, NEW order, NEW t, Chaining(P, H, order, t, SC),
         NEW e, e = SubSeq(order, 1, Cardinality(NodesOf(P)))
  PROVE  \E g : /\ Complete(P, g, e) /\ PartialChain(t, e, Len(e), g[Len(e)], SC)
                /\ Widest(t.width, Degrees(g, e, Len(e))) /\ Covering(t, g, e, Len(e))
<1> DEFINE d == Cardinality(NodesOf(P))
<1>1. PICK g, f : /\ Complete(P, g, f) /\ order = Append(f, d)
                  /\ Widest(t.width, Degrees(g, f, Len(f)))
                  /\ \E k \in 0 .. Len(f) : /\ H = g[k] /\ PartialChain(t, f, k, H, SC)
                                            /\ Covering(t, g, f, k)
  BY DEF Chaining
<1>2. PICK k \in 0 .. Len(f) : /\ H = g[k] /\ PartialChain(t, f, k, H, SC)
                               /\ Covering(t, g, f, k)
  BY <1>1
<1>3. k = Len(f) /\ Len(f) = d
  BY <1>1, <1>2, EndOfTrace
<1>4. f \in Seq(NodesOf(P))
  BY <1>1 DEF Complete
<1>5. e = f
  BY <1>1, <1>3, <1>4
<1> QED  BY <1>1, <1>2, <1>3, <1>5

(* Nor does a width exceed the number of nodes while it is computed.       *)
LEMMA EliminatingWidth ==
  ASSUME NEW P, IsFiniteSet(NodesOf(P)),
         NEW H, NEW sc, NEW e, NEW w, Eliminating(P, H, sc, e, w)
  PROVE  w \in Int /\ w <= Cardinality(NodesOf(P))
<1>1. PICK g : Trace(P, g, e) /\ Widest(w, Degrees(g, e, Len(e)))
  BY DEF Eliminating
<1>2. e \in Seq(NodesOf(P)) /\ Len(e) \in 0 .. Len(e)
  BY LenProperties DEF Eliminating
<1> QED  BY <1>1, <1>2, WidthBounded

(* A tree that is finished for a complete order has the order, the width   *)
(* and the neighbours of its trace.                                        *)
LEMMA TreeTraced ==
  ASSUME Dummy \notin Vars, NEW g, NEW e, Complete(primal, g, e),
         NEW t, DOMAIN t = TreeFields, DOMAIN t.ctx = First(e, Len(e)),
         Widest(t.width, Degrees(g, e, Len(e))), Covering(t, g, e, Len(e)),
         NEW u, u = WithRoot(t, e)
  PROVE  Traced(primal, u)
<1>1. e \in Seq(Vars) /\ Len(e) \in Nat
  BY LenProperties DEF Complete, Vars
<1>2. u.order = Append(e, Dummy) /\ u.width = t.width /\ u.ctx = Mapped(t.ctx, {Dummy}, {})
  BY DEF WithRoot, TreeFields
<1>3. ASSUME NEW i \in 1 .. Len(e)
      PROVE  g[i - 1][e[i]] \subseteq u.ctx[e[i]]
  <2>1. e[i] \in Vars /\ e[i] \in DOMAIN t.ctx
    BY <1>1, ElementOfSeq DEF First
  <2>2. u.ctx[e[i]] = t.ctx[e[i]]
    BY <1>2, <2>1 DEF Mapped
  <2> QED  BY <2>2 DEF Covering
<1>4. Covering(u, g, e, Len(e))
  BY <1>3 DEF Covering
<1> QED  BY <1>2, <1>4 DEF Traced, Dummy, Vars

-----------------------------------------------------------------------------
(* The inductive invariant.                                                *)

Static == problem \in Instances /\ primal = FromScopes(Scopes(problem))

(* The best tree, once there is one, is as ContextsSeparate says; until    *)
(* then the loop over orders goes on.                                      *)
BestTree ==
  IF best = NoTree THEN remaining > 0
  ELSE /\ Kept(primal, best, Scopes(problem))
       /\ ~orSearch => ParentInContext(best, NodesOf(primal), Cardinality(NodesOf(primal)))

Work ==
  /\ stage \in {"simplicial", "pick"} => Eliminating(primal, G, scores, elim, width)
  /\ stage = "candidate" =>
       (best # NoTree /\ width = INT_MAX) \/ Measured(primal, elim, width)
  /\ stage = "build" => Building(primal, G, elim, width, tree, Scopes(problem))
  /\ stage = "chain" =>
       orSearch /\ best # NoTree /\ Chaining(primal, G, best.order, tree, Scopes(problem))
  /\ stage = "ordered" => best # NoTree

OrderInv == Static /\ BestTree /\ Work

(* It holds initially.                                                     *)
LEMMA OrderInvInit == Init => OrderInv
<1> SUFFICES ASSUME Init  PROVE OrderInv
  OBVIOUS
<1>1. Static
  BY DEF Init, OrderInit, Static
<1>2. BestTree
  BY OrderAssumption DEF Init, OrderInit, BestTree
<1>3. Work
  BY DEF Init, Work
<1> QED  BY <1>1, <1>2, <1>3 DEF OrderInv

(* What the invariant says of the graph of the problem.                    *)
LEMMA StaticGraph ==
  ASSUME Static
  PROVE  /\ Graph(primal, NodesOf(primal)) /\ IsFiniteSet(NodesOf(primal))
         /\ NodesOf(primal) \subseteq Int
         /\ Cardinality(NodesOf(primal)) \in Nat
         /\ Cardinality(NodesOf(primal)) < INT_MAX
         /\ Cardinality(NodesOf(primal)) \notin NodesOf(primal)
         /\ \A s \in Scopes(problem) : s # {} /\ s \subseteq NodesOf(primal)
         /\ \A s \in Scopes(problem) : Clique(primal, s)
<1>1. problem \in Instances /\ primal = FromScopes(Scopes(problem))
  BY DEF Static
<1> HIDE DEF Static
<1> QED  BY <1>1, PrimalOfProblem DEF Vars, Dummy

(* The steps of eliminate().                                               *)
LEMMA EliminationSteps ==
  ASSUME OrderInv, StartElimination \/ RemoveSimplicial \/ \E x \in Vars : EliminateNode(x)
  PROVE  OrderInv'
<1>1. Static /\ BestTree /\ Work
  BY DEF OrderInv
<1>2. /\ Graph(primal, NodesOf(primal)) /\ IsFiniteSet(NodesOf(primal))
      /\ NodesOf(primal) \subseteq Int /\ Cardinality(NodesOf(primal)) < INT_MAX
      /\ Cardinality(NodesOf(primal)) \in Nat
  BY <1>1, StaticGraph
<1>3. UNCHANGED <<problem, primal, best, orSearch, remaining>>
  BY DEF StartElimination, RemoveSimplicial, EliminateNode, loopVars
<1>4. Static'
  BY <1>1, <1>3 DEF Static
<1>5. BestTree'
  BY <1>1, <1>3 DEF BestTree
<1>6. CASE StartElimination
  <2>1. /\ stage' = "simplicial" /\ G' = primal /\ elim' = <<>> /\ width' = UNKNOWN
        /\ scores' = [x \in NodesOf(primal) |-> ScoreMinfill(primal, x)]
    BY <1>6 DEF StartElimination, Vars
  <2>2. Eliminating(primal, primal, scores', <<>>, UNKNOWN)
    BY <1>2, <2>1, EliminationStarts
  <2>3. Work'
    BY <1>3, <2>1, <2>2 DEF Work
  <2> QED  BY <1>4, <1>5, <2>3 DEF OrderInv
<1>7. CASE RemoveSimplicial
  <2> DEFINE Z == ScoreZero
             z == ByIndex(Z)
             E == Removals(G, z)
  <2>1. Eliminating(primal, G, scores, elim, width)
    BY <1>1, <1>7 DEF Work, RemoveSimplicial
  <2>2. Z = {x \in NodesOf(G) : scores[x] = 0}
    BY DEF ScoreZero
  <2>3. z \in Seq(Z)
    <3>1. PICK g : Trace(primal, g, elim) /\ G = g[Len(elim)]
      BY <2>1 DEF Eliminating
    <3>2. elim \in Seq(NodesOf(primal)) /\ Len(elim) \in 0 .. Len(elim)
      BY <2>1, LenProperties DEF Eliminating
    <3>3. IsFiniteSet(NodesOf(G)) /\ NodesOf(G) \subseteq NodesOf(primal)
      BY <1>2, <3>1, <3>2, GraphLeft
    <3>4. Z \subseteq Int /\ IsFiniteSet(Z)
      BY <1>2, <2>2, <3>3, FS_Subset
    <3> QED  BY <3>4, ByIndexLists
  <2>4. {Degree(z, i) : i \in DOMAIN z} = E
    <3>1. \A i : Degree(z, i) = Cardinality(G[z[i]] \ First(z, i - 1))
      BY DEF Degree, First
    <3>2. DOMAIN z = 1 .. Len(z)
      BY <2>3
    <3> HIDE DEF z
    <3> QED  BY <3>1, <3>2 DEF Removals
  <2>5. /\ elim' = elim \o z /\ width' = Max({width} \cup {Degree(z, i) : i \in DOMAIN z})
        /\ G' = RemoveNodes(G, Z)
        /\ stage' = IF NodesOf(G) = Z THEN "candidate" ELSE "pick"
        /\ scores' = scores
    BY <1>7 DEF RemoveSimplicial
  <2> HIDE DEF Z, z, E
  <2>6. Eliminating(primal, G', scores', elim', width')
    BY <1>2, <2>1, <2>2, <2>4, <2>5, SimplicialRemoved DEF z, E
  <2>7. stage' = "candidate" => Measured(primal, elim', width')
    <3>1. ASSUME NodesOf(G) = Z
          PROVE  NodesOf(G') = {}
      BY <2>5, <3>1 DEF RemoveNodes, NodesOf
    <3> QED  BY <2>5, <2>6, <3>1, OrderFound
  <2>8. Work'
    BY <1>3, <2>5, <2>6, <2>7 DEF Work
  <2> QED  BY <1>4, <1>5, <2>8 DEF OrderInv
<1>8. ASSUME NEW x \in Vars, EliminateNode(x)
      PROVE  OrderInv'
  <2> DEFINE nb == G[x]
             T == Touched(AddClique(G, nb), nb) \ {x}
             rest == Without(G, x)
             sd == [y \in DOMAIN scores |-> IF y \in T THEN ScoreMinfill(rest, y)
                                            ELSE scores[y]]
             w == Max({width, Cardinality(nb)})
  <2>1. Eliminating(primal, G, scores, elim, width) /\ x \in NodesOf(G)
    BY <1>1, <1>8 DEF Work, EliminateNode, Candidates
  <2>2. elim' = Append(elim, x)
    BY <1>8 DEF EliminateNode
  <2>3. \/ w > Limit /\ width' = INT_MAX /\ stage' = "candidate"
        \/ width' = w /\ G' = rest /\ scores' = sd /\ stage' = "simplicial"
    BY <1>8 DEF EliminateNode, Filled, Without
  <2>4. w = Max({width} \cup {Cardinality(nb)})
    <3>1. {width} \cup {Cardinality(nb)} = {width, Cardinality(nb)}
      OBVIOUS
    <3> QED  BY <3>1
  <2> HIDE DEF w
  <2>5. Eliminating(primal, rest, sd, Append(elim, x), w)
    BY <1>2, <2>1, <2>4, NodeEliminated
  <2> HIDE DEF sd, rest
  <2>6. w \in Int /\ w <= Cardinality(NodesOf(primal))
    BY <1>2, <2>5, EliminatingWidth
  <2>7. CASE w > Limit /\ width' = INT_MAX /\ stage' = "candidate"
    <3>1. best # NoTree
      BY <1>2, <2>6, <2>7 DEF Limit, INT_MAX
    <3>2. Work'
      BY <1>3, <2>7, <3>1 DEF Work
    <3> QED  BY <1>4, <1>5, <3>2 DEF OrderInv
  <2>8. CASE width' = w /\ G' = rest /\ scores' = sd /\ stage' = "simplicial"
    <3>1. Work'
      BY <1>3, <2>2, <2>5, <2>8 DEF Work
    <3> QED  BY <1>4, <1>5, <3>1 DEF OrderInv
  <2> QED  BY <2>3, <2>7, <2>8
<1> QED  BY <1>6, <1>7, <1>8

(* The steps of build() and of the loop over orders.                       *)
LEMMA BuildSteps ==
  ASSUME OrderInv, StartBuild \/ InsertNewNode \/ FinishBuild \/ DropCandidate
  PROVE  OrderInv'
<1> DEFINE P == primal
           d == Cardinality(NodesOf(primal))
           SC == Scopes(problem)
<1>1. Static /\ BestTree /\ Work
  BY DEF OrderInv
<1>2. /\ IsFiniteSet(NodesOf(P)) /\ d \in Nat /\ d < INT_MAX /\ d \notin NodesOf(P)
      /\ \A s \in SC : s # {} /\ s \subseteq NodesOf(P)
      /\ \A s \in SC : Clique(P, s)
  BY <1>1, StaticGraph
<1>3. UNCHANGED <<problem, primal, orSearch>>
  BY DEF StartBuild, InsertNewNode, FinishBuild, DropCandidate
<1>4. Static'
  BY <1>1, <1>3 DEF Static
<1>5. CASE StartBuild
  <2>1. /\ stage = "candidate" /\ width # INT_MAX /\ stage' = "build"
        /\ G' = primal /\ tree' = NoTree
        /\ UNCHANGED <<elim, width, best, remaining>>
    BY <1>5 DEF StartBuild, loopVars
  <2>2. BestTree'
    BY <1>1, <1>3, <2>1 DEF BestTree
  <2>3. Measured(P, elim, width)
    BY <1>1, <2>1 DEF Work
  <2>4. Building(P, P, elim, width, NoTree, SC)
    BY <1>2, <2>3, BuildStarts
  <2>5. Work'
    BY <1>3, <2>1, <2>4 DEF Work
  <2> QED  BY <1>4, <2>2, <2>5 DEF OrderInv
<1>6. CASE InsertNewNode
  <2> DEFINE x == elim[1 + Cardinality(DOMAIN tree.ctx)]
  <2>1. /\ stage = "build" /\ NodesOf(G) # {} /\ stage' = stage
        /\ tree' = Inserted(tree, x, G[x]) /\ G' = Without(G, x)
        /\ UNCHANGED <<elim, width, best, remaining>>
    BY <1>6 DEF InsertNewNode, Next1, Without, loopVars
  <2>2. BestTree'
    BY <1>1, <1>3, <2>1 DEF BestTree
  <2>3. Building(P, G, elim, width, tree, SC)
    BY <1>1, <2>1 DEF Work
  <2>4. Building(P, Without(G, x), elim, width, Inserted(tree, x, G[x]), SC)
    BY <1>2, <2>1, <2>3, BuildGoesOn
  <2> HIDE DEF x
  <2>5. Work'
    BY <1>3, <2>1, <2>4 DEF Work
  <2> QED  BY <1>4, <2>2, <2>5 DEF OrderInv
<1>7. CASE FinishBuild
  <2> DEFINE built == WithRoot(tree, elim)
             improved == width < Limit \/ Lower(built)
  <2>1. /\ stage = "build" /\ NodesOf(G) = {} /\ stage' = "ordering"
        /\ best' = IF improved THEN built ELSE best
    BY <1>7 DEF FinishBuild
  <2>2. Building(P, G, elim, width, tree, SC)
    BY <1>1, <2>1 DEF Work
  <2>3. /\ Measured(P, elim, width)
        /\ \E g : /\ Complete(P, g, elim)
                  /\ PartialTree(tree, elim, Len(elim), g[Len(elim)], SC)
                  /\ Widest(tree.width, Degrees(g, elim, Len(elim)))
                  /\ Covering(tree, g, elim, Len(elim))
    BY <1>2, <2>1, <2>2, BuildEnds
  <2>4. PICK g : /\ Complete(P, g, elim)
                 /\ PartialTree(tree, elim, Len(elim), g[Len(elim)], SC)
                 /\ Widest(tree.width, Degrees(g, elim, Len(elim)))
                 /\ Covering(tree, g, elim, Len(elim))
    BY <2>3
  <2>5. /\ built.order = Append(elim, d) /\ Separates(built, NodesOf(P), d, SC)
        /\ ParentInContext(built, NodesOf(P), d)
    <3>1. Partial(tree, elim, Len(elim), g[Len(elim)], SC)
      BY <2>4 DEF PartialTree
    <3>2. Dummy \notin Vars /\ \A s \in SC : s # {} /\ s \subseteq Vars
      BY <1>2 DEF Vars, Dummy
    <3>3. /\ built.order = Append(elim, Dummy) /\ Separates(built, Vars, Dummy, SC)
          /\ ParentInContext(built, Vars, Dummy)
      BY <2>4, <3>1, <3>2, TreeFinished
    <3> QED  BY <3>3 DEF Vars, Dummy
  <2>10. Traced(P, built)
    <3>1. DOMAIN tree = TreeFields /\ DOMAIN tree.ctx = First(elim, Len(elim))
      BY <2>4 DEF PartialTree, Partial
    <3>2. Dummy \notin Vars
      BY <1>2 DEF Vars, Dummy
    <3> QED  BY <2>4, <3>1, <3>2, TreeTraced
  <2> HIDE DEF built
  <2>6. built # NoTree /\ Kept(P, built, SC)
    <3>1. elim \in Seq(NodesOf(P))
      BY <2>4 DEF Complete
    <3>2. Append(elim, d) # <<>>
      <4>1. Len(Append(elim, d)) = Len(elim) + 1 /\ Len(elim) \in Nat /\ Len(<<>>) = 0
        BY <3>1, LenProperties
      <4> QED  BY <4>1
    <3>3. built # NoTree
      BY <2>5, <3>2 DEF NoTree
    <3> QED  BY <2>5, <2>10, <3>3 DEF Kept
  <2>7. best = NoTree => improved
    <3>1. width \in Int /\ width <= d
      BY <1>2, <2>3, MeasuredWidth
    <3> QED  BY <1>2, <3>1 DEF Limit, INT_MAX
  <2> HIDE DEF improved
  <2>8. BestTree' /\ best' # NoTree
    <3>1. CASE improved
      <4>1. best' = built
        BY <2>1, <3>1
      <4> QED  BY <1>3, <2>5, <2>6, <4>1 DEF BestTree
    <3>2. CASE ~improved
      <4>1. best' = best /\ best # NoTree
        BY <2>1, <2>7, <3>2
      <4> QED  BY <1>1, <1>3, <4>1 DEF BestTree
    <3> QED  BY <3>1, <3>2
  <2>9. Work'
    BY <2>1 DEF Work
  <2> QED  BY <1>4, <2>8, <2>9 DEF OrderInv
<1>8. CASE DropCandidate
  <2>1. /\ stage = "candidate" /\ (width = INT_MAX \/ width > Limit)
        /\ stage' = "ordering" /\ best' = best
    BY <1>8 DEF DropCandidate
  <2>2. best # NoTree
    <3>1. ASSUME best = NoTree
          PROVE  FALSE
      <4>1. Measured(P, elim, width)
        BY <1>1, <2>1, <3>1 DEF Work
      <4>2. width \in Int /\ width <= d
        BY <1>2, <4>1, MeasuredWidth
      <4> QED  BY <1>2, <2>1, <3>1, <4>2 DEF Limit, INT_MAX
    <3> QED  BY <3>1
  <2>3. BestTree'
    BY <1>1, <1>3, <2>1, <2>2 DEF BestTree
  <2>4. Work'
    BY <2>1 DEF Work
  <2> QED  BY <1>4, <2>3, <2>4 DEF OrderInv
<1> QED  BY <1>5, <1>6, <1>7, <1>8

(* The end of the loop over orders, and buildChain().                      *)
LEMMA ChainSteps ==
  ASSUME OrderInv, FinishOrdering \/ ChainNode \/ FinishChain
  PROVE  OrderInv'
<1> DEFINE P == primal
           d == Cardinality(NodesOf(primal))
           SC == Scopes(problem)
<1>1. Static /\ BestTree /\ Work
  BY DEF OrderInv
<1>2. /\ IsFiniteSet(NodesOf(P)) /\ d \in Nat /\ d \notin NodesOf(P)
      /\ \A s \in SC : s # {} /\ s \subseteq NodesOf(P)
      /\ \A s \in SC : Clique(P, s)
  BY <1>1, StaticGraph
<1>3. UNCHANGED <<problem, primal, orSearch, remaining>>
  BY DEF FinishOrdering, ChainNode, FinishChain, loopVars
<1>4. Static'
  BY <1>1, <1>3 DEF Static
<1>5. CASE FinishOrdering
  <2>1. remaining = 0 /\ best' = best
    BY <1>5 DEF FinishOrdering
  <2>2. best # NoTree
    BY <1>1, <2>1 DEF BestTree
  <2>3. BestTree'
    BY <1>1, <1>3, <2>1 DEF BestTree
  <2>4. CASE orSearch
    <3>1. stage' = "chain" /\ G' = P /\ tree' = [NoTree EXCEPT !.width = best.width]
      BY <1>5, <2>4 DEF FinishOrdering
    <3>2. Kept(P, best, SC)
      BY <1>1, <2>2 DEF BestTree
    <3>3. Chaining(P, P, best.order, [NoTree EXCEPT !.width = best.width], SC)
      BY <1>2, <3>2, ChainStarts
    <3>4. Work'
      BY <1>3, <2>1, <2>2, <2>4, <3>1, <3>3 DEF Work
    <3> QED  BY <1>4, <2>3, <3>4 DEF OrderInv
  <2>5. CASE ~orSearch
    <3>1. stage' = "ordered"
      BY <1>5, <2>5 DEF FinishOrdering
    <3>2. Work'
      BY <2>1, <2>2, <3>1 DEF Work
    <3> QED  BY <1>4, <2>3, <3>2 DEF OrderInv
  <2> QED  BY <2>4, <2>5
<1>6. CASE ChainNode
  <2> DEFINE x == best.order[1 + Cardinality(DOMAIN tree.ctx)]
  <2>1. /\ stage = "chain" /\ NodesOf(G) # {} /\ stage' = stage /\ best' = best
        /\ tree' = Chained(tree, x, G[x]) /\ G' = Without(G, x)
    BY <1>6 DEF ChainNode, Next1, Without
  <2>2. BestTree'
    BY <1>1, <1>3, <2>1 DEF BestTree
  <2>3. orSearch /\ best # NoTree /\ Chaining(P, G, best.order, tree, SC)
    BY <1>1, <2>1 DEF Work
  <2>4. Chaining(P, Without(G, x), best.order, Chained(tree, x, G[x]), SC)
    BY <1>2, <2>1, <2>3, ChainGoesOn
  <2> HIDE DEF x
  <2>5. Work'
    BY <1>3, <2>1, <2>3, <2>4 DEF Work
  <2> QED  BY <1>4, <2>2, <2>5 DEF OrderInv
<1>7. CASE FinishChain
  <2> DEFINE e == SubSeq(best.order, 1, d)
             chain == WithRoot(tree, e)
  <2>1. /\ stage = "chain" /\ NodesOf(G) = {} /\ stage' = "ordered" /\ best' = chain
    BY <1>7 DEF FinishChain, Dummy, Vars
  <2>2. Chaining(P, G, best.order, tree, SC)
    BY <1>1, <2>1 DEF Work
  <2> HIDE DEF e
  <2>3. PICK g : /\ Complete(P, g, e) /\ PartialChain(tree, e, Len(e), g[Len(e)], SC)
                 /\ Widest(tree.width, Degrees(g, e, Len(e))) /\ Covering(tree, g, e, Len(e))
    BY <1>2, <2>1, <2>2, ChainEnds DEF e
  <2>4. chain.order = Append(e, d) /\ Separates(chain, NodesOf(P), d, SC)
    <3>1. Partial(tree, e, Len(e), g[Len(e)], SC)
      BY <2>3 DEF PartialChain
    <3>2. Dummy \notin Vars /\ \A s \in SC : s # {} /\ s \subseteq Vars
      BY <1>2 DEF Vars, Dummy
    <3>3. chain.order = Append(e, Dummy) /\ Separates(chain, Vars, Dummy, SC)
      BY <2>3, <3>1, <3>2, TreeFinished
    <3> QED  BY <3>3 DEF Vars, Dummy
  <2>8. Traced(P, chain)
    <3>1. DOMAIN tree = TreeFields /\ DOMAIN tree.ctx = First(e, Len(e))
      BY <2>3 DEF PartialChain, Partial
    <3>2. Dummy \notin Vars
      BY <1>2 DEF Vars, Dummy
    <3> QED  BY <2>3, <3>1, <3>2, TreeTraced
  <2> HIDE DEF chain
  <2>5. Kept(P, chain, SC) /\ chain # NoTree
    <3>1. e \in Seq(NodesOf(P))
      BY <2>3 DEF Complete
    <3>2. Append(e, d) # <<>>
      <4>1. Len(Append(e, d)) = Len(e) + 1 /\ Len(e) \in Nat /\ Len(<<>>) = 0
        BY <3>1, LenProperties
      <4> QED  BY <4>1
    <3>3. chain # NoTree
      BY <2>4, <3>2 DEF NoTree
    <3> QED  BY <2>4, <2>8, <3>3 DEF Kept
  <2>6. orSearch
    BY <1>1, <2>1 DEF Work
  <2>7. BestTree' /\ Work'
    BY <1>3, <2>1, <2>5, <2>6 DEF BestTree, Work
  <2> QED  BY <1>4, <2>7 DEF OrderInv
<1> QED  BY <1>5, <1>6, <1>7

(* The other stages leave the problem and the tree alone, and do not come  *)
(* back to the order.                                                      *)
LEMMA OtherSteps ==
  ASSUME OrderInv,
         \/ Buckets \/ RunSLS \/ CompileHeuristic \/ RunLDS \/ FinishPreproc \/ RunSearch
         \/ UNCHANGED vars
  PROVE  OrderInv'
<1>1. UNCHANGED <<problem, primal, best, orSearch, remaining, G, scores, elim, width, tree>>
  BY DEF Buckets, StartBuckets, OpenBucket, PlaceFunction, MatchMoments, SendMessages, ProcessRootBucket,
         RunSLS, CompileHeuristic, RunLDS, FinishPreproc, RunSearch, vars, orderVars,
         workVars, loopVars
<1>2. \/ stage' = stage
      \/ stage' \in {"ordering", "bucket", "partition", "send", "built", "lds", "finish",
                     "search", "done"}
  BY DEF Buckets, StartBuckets, OpenBucket, PlaceFunction, MatchMoments, SendMessages, ProcessRootBucket,
         RunSLS, CompileHeuristic, RunLDS, FinishPreproc, RunSearch, vars, orderVars
<1>3. Static' /\ BestTree'
  BY <1>1 DEF OrderInv, Static, BestTree
<1>4. Work'
  BY <1>1, <1>2 DEF OrderInv, Work
<1> QED  BY <1>3, <1>4 DEF OrderInv

(* The order that is worked on is always that of a trace of the graph: the *)
(* nodes removed without connecting their neighbours had these connected,  *)
(* so elimination, tree and chain go through the same graphs               *)
(* (Pseudotree.cpp:207-264, 370-495).                                      *)
THEOREM OrderInvariance == Spec => []OrderInv
<1>1. OrderInv /\ [Next]_vars => OrderInv'
  <2> SUFFICES ASSUME OrderInv, [Next]_vars
               PROVE  OrderInv'
    OBVIOUS
  <2>1. CASE Ordering
    BY <2>1, EliminationSteps, BuildSteps, ChainSteps DEF Ordering
  <2>2. CASE Buckets
    BY <2>2, OtherSteps
  <2>3. CASE RunSLS \/ CompileHeuristic \/ RunLDS \/ FinishPreproc \/ RunSearch
    BY <2>3, OtherSteps
  <2>4. CASE UNCHANGED vars
    BY <2>4, OtherSteps
  <2> QED  BY <2>1, <2>2, <2>3, <2>4 DEF Next
<1> QED  BY <1>1, OrderInvInit, PTL DEF Spec

(* The width that eliminate() reports is that of the tree that build()     *)
(* makes of the same order, and the scores it works with are never too low *)
(* (Pseudotree.cpp:207-264, 392-398).                                      *)
THEOREM WidthIsThatOfTreeHolds == Spec => []WidthIsThatOfTree
<1>1. OrderInv => WidthIsThatOfTree
  <2> SUFFICES ASSUME OrderInv
               PROVE  WidthIsThatOfTree
    OBVIOUS
  <2>1. IsFiniteSet(NodesOf(primal))
    BY StaticGraph DEF OrderInv
  <2>2. ASSUME stage \in {"simplicial", "pick"}, NEW x \in NodesOf(G)
        PROVE  scores[x] >= ScoreMinfill(G, x)
    <3>1. Eliminating(primal, G, scores, elim, width)
      BY <2>2 DEF OrderInv, Work
    <3>2. scores[x] \in Nat /\ ScoreMinfill(G, x) <= scores[x]
      BY <2>2, <3>1 DEF Eliminating
    <3> QED  BY <3>2
  <2>3. ASSUME stage = "build", NodesOf(G) = {}
        PROVE  tree.width = width
    <3>1. Building(primal, G, elim, width, tree, Scopes(problem))
      BY <2>3 DEF OrderInv, Work
    <3> QED  BY <2>1, <2>3, <3>1, BuildEnds
  <2> QED  BY <2>2, <2>3 DEF WidthIsThatOfTree
<1> QED  BY <1>1, OrderInvariance, PTL

(* The tree or chain that the search is given has its contexts among the   *)
(* ancestors, growing by at most the parent, and every function at a node  *)
(* that has the other arguments in its context                             *)
(* (Pseudotree.cpp:84-108, 395-495, 938-958).                              *)
THEOREM ContextsSeparateHolds == Spec => []ContextsSeparate
<1>1. OrderInv => ContextsSeparate
  <2> SUFFICES ASSUME OrderInv, stage = "ordered"
               PROVE  /\ DOMAIN best.parent = Vars
                      /\ \A x \in Vars :
                           /\ Dummy \in Ancestors(best, x)
                           /\ best.ctx[x] \subseteq Ancestors(best, x) \ {Dummy}
                           /\ best.ctx[x] \subseteq best.ctx[best.parent[x]] \cup {best.parent[x]}
                           /\ ~orSearch => IF best.parent[x] = Dummy THEN best.ctx[x] = {}
                                           ELSE best.parent[x] \in best.ctx[x]
                      /\ \A f \in ToSet(problem.functions) :
                           f.scope \subseteq best.ctx[Owner(best, f)] \cup {Owner(best, f)}
    BY DEF ContextsSeparate
  <2>1. /\ Separates(best, Vars, Dummy, Scopes(problem))
        /\ ~orSearch => ParentInContext(best, Vars, Dummy)
    BY DEF OrderInv, Work, BestTree, Kept, Vars, Dummy
  <2>2. DOMAIN best.parent = Vars
    BY <2>1 DEF Separates
  <2>3. ASSUME NEW x \in Vars
        PROVE  /\ Dummy \in Ancestors(best, x)
               /\ best.ctx[x] \subseteq Ancestors(best, x) \ {Dummy}
               /\ best.ctx[x] \subseteq best.ctx[best.parent[x]] \cup {best.parent[x]}
               /\ ~orSearch => IF best.parent[x] = Dummy THEN best.ctx[x] = {}
                               ELSE best.parent[x] \in best.ctx[x]
    BY <2>1 DEF Separates, ParentInContext, Ancestors
  <2>4. ASSUME NEW f \in ToSet(problem.functions)
        PROVE  f.scope \subseteq best.ctx[Owner(best, f)] \cup {Owner(best, f)}
    <3>1. CASE f.scope = {}
      BY <3>1
    <3>2. CASE f.scope # {}
      <4>1. PICK i \in DOMAIN problem.functions : f = problem.functions[i]
        BY DEF ToSet
      <4>2. f.scope \in Scopes(problem)
        BY <3>2, <4>1 DEF Scopes
      <4>3. Owner(best, f) = Earliest(best.order, f.scope)
        BY <3>2 DEF Owner, Earliest
      <4>4. \A s \in Scopes(problem) :
              s \subseteq best.ctx[Earliest(best.order, s)] \cup {Earliest(best.order, s)}
        BY <2>1 DEF Separates
      <4> QED  BY <4>2, <4>3, <4>4
    <3> QED  BY <3>1, <3>2
  <2> QED  BY <2>2, <2>3, <2>4
<1> QED  BY <1>1, OrderInvariance, PTL

-----------------------------------------------------------------------------
(* The mini-buckets: the inductive invariant of MiniBucketElim::build, as  *)
(* long as no moments are matched.                                         *)

Below(z)  == {y \in Vars : z \in Ancestors(best, y)}
Done      == TreeNodes \ todo
Dest(n)   == Target(n[1], sent[n])      \* of the message named n
Disjoint(buckets) ==
  \A i, j \in DOMAIN buckets : i # j => buckets[i] \cap buckets[j] = {}

(* A table over some of the variables V. *)
Table(f, V) ==
  /\ f.scope \subseteq V /\ DOMAIN f.val = Assignments(f.scope)
  /\ \A a \in Assignments(f.scope) : f.val[a] \in Known

(* Messages come from buckets that are done, are tables over ancestors of  *)
(* these, and are in augmented and intermediate where Dest says.           *)
Delivered ==
  /\ todo \subseteq TreeNodes /\ \A x \in Done : Below(x) \cap todo = {}
  /\ IsFiniteSet(DOMAIN sent)
  /\ \A n \in DOMAIN sent :
       /\ n[1] \in Vars \cap Done /\ Table(sent[n], Vars)
       /\ sent[n].scope \subseteq Ancestors(best, n[1])
  /\ augmented = [y \in TreeNodes |-> {n \in DOMAIN sent : Dest(n) = y}]
  /\ intermediate = [y \in TreeNodes |-> {n \in DOMAIN sent : y \in PassedOn(n[1], sent[n])}]

(* The mini-buckets and what is unplaced share out the bucket. *)
Partitioned ==
  stage \in {"partition", "send"} =>
    /\ bucket \in Vars \cap todo /\ Below(bucket) \cap todo = {}
    /\ minibuckets \in Seq(SUBSET Collected(bucket)) /\ Disjoint(minibuckets)
    /\ \A i \in DOMAIN minibuckets : minibuckets[i] \cap unplaced = {}
    /\ unplaced \cup UNION {minibuckets[i] : i \in DOMAIN minibuckets} = Collected(bucket)
    /\ stage = "send" => unplaced = {} /\ shifts = [i \in DOMAIN minibuckets |-> <<>>]

GivenTo(S) == UNION {Given(x) : x \in S}

(* The messages from below z that no bucket below z has taken up.          *)
Pending(z) ==
  {n \in DOMAIN sent : n[1] \in Below(z) /\ Dest(n) \notin Done \cap Below(z)}

(* They are worth at least the functions of the buckets below z that are   *)
(* done.                                                                   *)
AccountedAt(a, z) ==
  ~Greater(ProductOf(Family(GivenTo(Done \cap Below(z))), a), ProductOf(Family(Pending(z)), a))

Accounted == \A a \in Assignments(Vars) : \A z \in TreeNodes : AccountedAt(a, z)

(* And no more than these, for some values of the variables of these       *)
(* buckets.                                                                *)
AttainedAt(a, z) ==
  LET E == Done \cap Below(z)
  IN  \E b \in Assignments(Vars) :
        /\ \A y \in Vars \ E : b[y] = a[y]
        /\ ~Greater(ProductOf(Family(Pending(z)), a), ProductOf(Family(GivenTo(E)), b))

Attained == \A a \in Assignments(Vars) : \A z \in TreeNodes : AttainedAt(a, z)

(* N are the neighbours that the variables have when they are eliminated:  *)
(* no more than the width, ancestors, connected with each other; and the   *)
(* arguments of a function are among its owner and those of the owner.     *)
Neighbours(N, V, t, SC) ==
  /\ N \in [V -> SUBSET V] /\ t.width \in Int
  /\ \A x \in V : N[x] \subseteq t.above[x] /\ Cardinality(N[x]) <= t.width
  /\ \A y \in V : \A x, w \in N[y] : w \in t.above[x] => w \in N[x]
  /\ \A s \in SC : s \subseteq N[Earliest(t.order, s)] \cup {Earliest(t.order, s)}

(* Messages are over neighbours, so one mini-bucket has room for a bucket. *)
Narrow ==
  /\ ibound \in Nat
  /\ \A N : Neighbours(N, Vars, best, Scopes(problem)) =>
       \A n \in DOMAIN sent : sent[n].scope \subseteq N[n[1]]
  /\ stage \in {"partition", "send"} => Len(minibuckets) <= 1

(* No moments are matched: with the option only where a bucket is split.   *)
Plain == ~match \/ IsAccurate

BucketInv ==
  stage \in {"bucket", "partition", "send", "built"} /\ Plain =>
    /\ best # NoTree /\ Delivered /\ Partitioned /\ Accounted
    /\ IsAccurate => Narrow /\ Attained
    /\ stage = "built" => todo = {}

-----------------------------------------------------------------------------
(* Tables. *)

(* The functions from one finite set to another are finitely many.         *)
LEMMA FunctionSets ==
  ASSUME NEW S, IsFiniteSet(S), NEW V, IsFiniteSet(V)
  PROVE  IsFiniteSet([S -> V])
<1> DEFINE Bad == {s \in SUBSET S : ~IsFiniteSet([s -> V])}
<1>1. ASSUME Bad # {} PROVE FALSE
  <2>1. Bad \in SUBSET (SUBSET S)
    OBVIOUS
  <2> HIDE DEF Bad
  <2>2. PICK s \in Bad : \A t \in SUBSET s : t # s => t \notin Bad
    BY <1>1, <2>1, SmallestSet
  <2>3. s \in SUBSET S /\ ~IsFiniteSet([s -> V])
    BY <2>2 DEF Bad
  <2>4. CASE s = {}
    <3> DEFINE e == [y \in {} |-> y]
    <3>1. \A f \in [s -> V] : f = e
      BY <2>4
    <3>2. [s -> V] \in SUBSET {e}
      BY <3>1
    <3>3. IsFiniteSet({e})
      BY FS_Singleton
    <3> QED  BY <2>3, <3>2, <3>3, FS_Subset
  <2>5. CASE s # {}
    <3>1. PICK x \in s : TRUE
      BY <2>5
    <3> DEFINE r == s \ {x}
               P == [r -> V] \X V
               join == [p \in P |-> [y \in s |-> IF y = x THEN p[2] ELSE p[1][y]]]
    <3>2. r \in SUBSET s /\ r # s /\ r \in SUBSET S
      BY <2>3, <3>1
    <3>3. IsFiniteSet([r -> V])
      BY <2>2, <3>2 DEF Bad
    <3>4. IsFiniteSet(P)
      BY <3>3, FS_Product
    <3>5. IsFiniteSet({join[p] : p \in P})
      <4> HIDE DEF P, join
      <4> QED  BY <3>4, FiniteImage
    <3>6. ASSUME NEW f \in [s -> V]
          PROVE  f \in {join[p] : p \in P}
      <4> DEFINE g == [y \in r |-> f[y]]
                 p == <<g, f[x]>>
      <4>1. p \in P /\ p[1] = g /\ p[2] = f[x]
        BY <3>1
      <4>2. join[p] = [y \in s |-> IF y = x THEN f[x] ELSE g[y]]
        BY <4>1
      <4>3. \A y \in s : (IF y = x THEN f[x] ELSE g[y]) = f[y]
        OBVIOUS
      <4>4. join[p] = f
        BY <4>2, <4>3
      <4> HIDE DEF join, P, p
      <4> QED  BY <4>1, <4>4
    <3>7. [s -> V] \in SUBSET {join[p] : p \in P}
      BY <3>6
    <3> HIDE DEF join, P
    <3> QED  BY <2>3, <3>5, <3>7, FS_Subset
  <2> QED  BY <2>4, <2>5
<1>2. S \notin Bad
  BY <1>1
<1> QED  BY <1>2

(* The largest of finitely many known costs.                               *)
LEMMA LargestOf ==
  ASSUME NEW C \in SUBSET Known, IsFiniteSet(C)
  PROVE  /\ largest[C] \in Known
         /\ largest[C] = ELEM_ZERO \/ largest[C] \in C
         /\ \A c \in C : ~Greater(c, largest[C])
<1> DEFINE F == C \cap Finite
<1>1. C \in SUBSET Cost /\ F \subseteq Int /\ IsFiniteSet(F)
      /\ \A c \in C : c = ELEM_ZERO \/ c \in F
  BY FS_Subset DEF Known, Cost, Finite
<1>2. largest[C] = IF F = {} THEN ELEM_ZERO ELSE Max(F)
  BY <1>1 DEF largest
<1>3. CASE F = {}
  BY <1>1, <1>2, <1>3, TimesLaws, NeverGreater
<1>4. CASE F # {}
  <2> DEFINE id == [x \in F |-> x]
  <2>1. PICK x \in F : \A y \in F : id[y] <= id[x]
    <3>1. \A x \in F : id[x] \in Int
      BY <1>1
    <3> HIDE DEF id, F
    <3> QED  BY <1>1, <1>4, <3>1, HighestOf
  <2>2. \A y \in F : x >= y
    BY <1>1, <2>1
  <2> HIDE DEF F
  <2>3. Max(F) \in F /\ \A y \in F : Max(F) >= y
    BY <2>2 DEF Max
  <2>4. \A c \in C : ~Greater(c, Max(F))
    <3>1. PICK m : m = Max(F) /\ m \in F /\ \A y \in F : m >= y
      BY <2>3, Zenon
    <3>2. m \in Int /\ \A y \in F : y \in Int /\ ~(y > m)
      BY <1>1, <3>1
    <3>3. \A y \in Int : Greater(y, m) => y > m
      BY <3>2, SpecialCosts DEF Greater, greater, Cost, Known
    <3>4. ~Greater(ELEM_ZERO, m)
      BY <3>2, NeverGreater DEF Cost, Known
    <3> QED  BY <1>1, <3>1, <3>2, <3>3, <3>4
  <2>5. Max(F) \in C
    BY <2>3 DEF F
  <2> QED  BY <1>2, <1>4, <2>4, <2>5
<1> QED  BY <1>3, <1>4

(* The value of a table, where the assignment has values for its scope.    *)
LEMMA TableValue ==
  ASSUME NEW V, NEW f, Table(f, V), NEW a, \A y \in f.scope : a[y] \in Values
  PROVE  /\ [y \in f.scope |-> a[y]] \in Assignments(f.scope) /\ Value(f, a) \in Known
         /\ \A b : (\A y \in f.scope : a[y] = b[y]) => Value(f, a) = Value(f, b)
<1>1. [y \in f.scope |-> a[y]] \in Assignments(f.scope)
  BY DEF Assignments
<1>2. Value(f, a) \in Known
  BY <1>1 DEF Table, Value
<1>3. ASSUME NEW b, \A y \in f.scope : a[y] = b[y]
      PROVE  Value(f, a) = Value(f, b)
  <2>1. [y \in f.scope |-> a[y]] = [y \in f.scope |-> b[y]]
    BY <1>3
  <2> QED  BY <2>1 DEF Value
<1> QED  BY <1>1, <1>2, <1>3

ValuesOf(s, a) == [i \in DOMAIN s |-> Value(s[i], a)]

(* So for the product of a family of tables.                               *)
LEMMA FamilyValue ==
  ASSUME NEW V, NEW s, IsFiniteSet(DOMAIN s), \A i \in DOMAIN s : Table(s[i], V),
         NEW a, \A y \in JointScope(s) : a[y] \in Values
  PROVE  /\ ValuesOf(s, a) \in [DOMAIN s -> Known] /\ ProductOf(s, a) \in Known
         /\ \A b : (\A y \in JointScope(s) : a[y] = b[y]) => ProductOf(s, a) = ProductOf(s, b)
<1>1. \A i \in DOMAIN s : \A y \in s[i].scope : y \in JointScope(s)
  BY DEF JointScope
<1>2. ASSUME NEW i \in DOMAIN s
      PROVE  /\ Value(s[i], a) \in Known
             /\ \A b : (\A y \in JointScope(s) : a[y] = b[y]) => Value(s[i], a) = Value(s[i], b)
  <2>1. Table(s[i], V) /\ \A y \in s[i].scope : a[y] \in Values
    BY <1>1
  <2>2. /\ Value(s[i], a) \in Known
        /\ \A b : (\A y \in s[i].scope : a[y] = b[y]) => Value(s[i], a) = Value(s[i], b)
    BY <2>1, TableValue
  <2> QED  BY <1>1, <2>2
<1>3. ValuesOf(s, a) \in [DOMAIN s -> Known]
  BY <1>2 DEF ValuesOf
<1>4. ProductOf(s, a) \in Known
  BY <1>3, ProductKnown DEF ProductOf, ValuesOf
<1>5. ASSUME NEW b, \A y \in JointScope(s) : a[y] = b[y]
      PROVE  ProductOf(s, a) = ProductOf(s, b)
  <2>1. \A i \in DOMAIN s : Value(s[i], a) = Value(s[i], b)
    BY <1>2, <1>5
  <2>2. [i \in DOMAIN s |-> Value(s[i], a)] = [i \in DOMAIN s |-> Value(s[i], b)]
    BY <2>1
  <2> QED  BY <2>2 DEF ProductOf
<1> QED  BY <1>3, <1>4, <1>5

(* What elimination leaves is a table, nowhere less than the product of    *)
(* the functions, and for some values of what is eliminated not more.      *)
LEMMA EliminatedTable ==
  ASSUME NEW V, IsFiniteSet(V), NEW s, IsFiniteSet(DOMAIN s),
         \A i \in DOMAIN s : Table(s[i], V), NEW id,
         NEW keep, keep \subseteq JointScope(s), NEW m, m = Eliminated(s, id, keep)
  PROVE  /\ Table(m, V) /\ m.scope = keep
         /\ \A a \in Assignments(V) :
              /\ ~Greater(ProductOf(s, a), Value(m, a))
              /\ \E b \in Assignments(V) :
                   /\ \A y \in V \ (JointScope(s) \ keep) : b[y] = a[y]
                   /\ ~Greater(Value(m, a), ProductOf(s, b))
<1> DEFINE J == JointScope(s)
           out == J \ keep
           Results(b) == {ProductOf(s, full) : full \in Extensions(b, out)}
<1>1. J \subseteq V /\ IsFiniteSet(J) /\ IsFiniteSet(out)
  <2>1. J \subseteq V
    BY DEF JointScope, Table
  <2> QED  BY <2>1, FS_Subset
<1>2. ASSUME NEW b \in Assignments(keep)
      PROVE  /\ IsFiniteSet(Results(b)) /\ Results(b) \in SUBSET Known
             /\ \A e \in Assignments(out) : Joined(b, e) \in Extensions(b, out)
  <2>1. IsFiniteSet(Assignments(out))
    <3>1. IsFiniteSet(Values)
      BY DomainAssumption, FS_Interval DEF Values
    <3> QED  BY <1>1, <3>1, FunctionSets DEF Assignments
  <2> DEFINE A == Assignments(out)
             g == [e \in A |-> ProductOf(s, Joined(b, e))]
  <2>2. Results(b) = {g[e] : e \in A}
    BY DEF Extensions
  <2>3. IsFiniteSet({g[e] : e \in A})
    <3> HIDE DEF g, A
    <3> QED  BY <2>1, FiniteImage DEF A
  <2>4. ASSUME NEW e \in A
        PROVE  ProductOf(s, Joined(b, e)) \in Known
    <3>1. \A y \in J : Joined(b, e)[y] \in Values
      BY DEF Joined, Assignments
    <3> QED  BY <3>1, FamilyValue
  <2>5. Results(b) \in SUBSET Known
    BY <2>2, <2>4
  <2> QED  BY <2>2, <2>3, <2>5 DEF Extensions
<1>3. /\ m.scope = keep
      /\ m.val = [b \in Assignments(keep) |-> BestOver(s, b, out)]
  BY DEF Eliminated, Tabulated
<1>4. \A b \in Assignments(keep) : BestOver(s, b, out) = largest[Results(b)]
  BY DEF BestOver
<1> HIDE DEF Results
<1>5. Table(m, V)
  <2>1. \A b \in Assignments(keep) : BestOver(s, b, out) \in Known
    BY <1>2, <1>4, LargestOf
  <2> QED  BY <1>1, <1>3, <2>1 DEF Table
<1>6. ASSUME NEW a \in Assignments(V)
      PROVE  /\ ~Greater(ProductOf(s, a), Value(m, a))
             /\ \E b \in Assignments(V) :
                  /\ \A y \in V \ out : b[y] = a[y]
                  /\ ~Greater(Value(m, a), ProductOf(s, b))
  <2> DEFINE b == [y \in keep |-> a[y]]
             e == [y \in out |-> a[y]]
  <2>1. b \in Assignments(keep) /\ e \in Assignments(out)
    BY <1>1 DEF Assignments
  <2>2. \A y \in J : Joined(b, e)[y] = a[y] /\ a[y] \in Values
    BY <1>1 DEF Joined, Assignments
  <2>3. ProductOf(s, Joined(b, e)) = ProductOf(s, a)
    <3> HIDE DEF b, e
    <3>1. /\ \A y \in J : Joined(b, e)[y] = a[y]
          /\ \A y \in J : a[y] \in Values
      BY <2>2
    <3> QED  BY <3>1, FamilyValue
  <2>4. ProductOf(s, a) \in Results(b)
    BY <1>2, <2>1, <2>3 DEF Results
  <2>5. ~Greater(ProductOf(s, a), largest[Results(b)])
    BY <1>2, <2>1, <2>4, LargestOf
  <2>6. Value(m, a) = largest[Results(b)]
    <3>1. Value(m, a) = m.val[b]
      BY <1>3 DEF Value
    <3> QED  BY <1>3, <1>4, <2>1, <3>1
  <2>7. \A c \in Assignments(V) : ProductOf(s, c) \in Known
    <3>1. ASSUME NEW c \in Assignments(V)  PROVE ProductOf(s, c) \in Known
      <4>1. \A y \in J : c[y] \in Values
        BY <1>1 DEF Assignments
      <4> QED  BY <4>1, FamilyValue
    <3> QED  BY <3>1
  <2>8. CASE largest[Results(b)] = ELEM_ZERO
    <3>1. ProductOf(s, a) \in Cost
      BY <2>7, TimesLaws
    <3>2. ~Greater(Value(m, a), ProductOf(s, a))
      BY <2>6, <2>8, <3>1, NeverGreater
    <3> QED  BY <2>5, <2>6, <3>2
  <2>9. CASE largest[Results(b)] \in Results(b)
    <3>1. PICK f \in Assignments(out) : largest[Results(b)] = ProductOf(s, Joined(b, f))
      BY <2>9 DEF Results, Extensions
    <3> DEFINE c == [y \in V |-> IF y \in out THEN f[y] ELSE a[y]]
    <3>2. c \in Assignments(V) /\ \A y \in V \ out : c[y] = a[y]
      BY DEF Assignments
    <3>3. \A y \in J : Joined(b, f)[y] = c[y] /\ c[y] \in Values
      BY <1>1 DEF Joined, Assignments
    <3>4. ProductOf(s, Joined(b, f)) = ProductOf(s, c)
      <4> HIDE DEF b, c
      <4> QED  BY <3>3, FamilyValue
    <3>5. ~Greater(Value(m, a), ProductOf(s, c))
      <4>1. ProductOf(s, c) \in Cost
        BY <2>7, <3>2, TimesLaws
      <4> QED  BY <2>6, <3>1, <3>4, <4>1, NeverGreater
    <3> HIDE DEF c
    <3> QED  BY <2>5, <2>6, <3>2, <3>5
  <2> QED  BY <1>2, <2>1, <2>8, <2>9, LargestOf
<1> QED  BY <1>3, <1>5, <1>6

-----------------------------------------------------------------------------
(* Products of several factors. *)

(* The product over two disjoint sets of factors.                          *)
LEMMA ProductOfTwo ==
  ASSUME NEW S, IsFiniteSet(S), NEW f \in [S -> Known]
  PROVE  \A A, B \in SUBSET S : A \cap B = {} =>
           /\ Product(Part(f, A)) \in Known /\ Product(Part(f, B)) \in Known
           /\ Product(Part(f, A \cup B)) = Times(Product(Part(f, A)), Product(Part(f, B)))
<1> SUFFICES ASSUME NEW A \in SUBSET S, NEW B \in SUBSET S, A \cap B = {}
             PROVE  /\ Product(Part(f, A)) \in Known /\ Product(Part(f, B)) \in Known
                    /\ Product(Part(f, A \cup B)) =
                         Times(Product(Part(f, A)), Product(Part(f, B)))
  OBVIOUS
<1>1. IsFiniteSet(A) /\ IsFiniteSet(B)
  BY FS_Subset
<1>2. \A C \in SUBSET S : Part(f, C) \in [C -> Known]
  BY DEF Part
<1>3. Product(Part(f, A)) \in Known /\ Product(Part(f, B)) \in Known
  BY <1>1, <1>2, ProductKnown
<1> DEFINE g == Part(f, A \cup B)
<1>4. g \in [A \cup B -> Cost]
  <2>1. g \in [A \cup B -> Known]
    BY <1>2
  <2> QED  BY <2>1 DEF Cost
<1>5. Product(g) = Times(Product(Part(g, A)), Product(Part(g, B)))
  <2> HIDE DEF g
  <2> QED  BY <1>1, <1>4, ProductUnion
<1>6. Part(g, A) = Part(f, A) /\ Part(g, B) = Part(f, B)
  BY DEF Part
<1> QED  BY <1>3, <1>5, <1>6

(* If every part of a disjoint union has its product bounded by a factor   *)
(* then the product of these factors bounds the product of all.            *)
LEMMA ProductOfParts ==
  ASSUME NEW S, IsFiniteSet(S), NEW f \in [S -> Known],
         NEW I, IsFiniteSet(I), NEW part \in [I -> SUBSET S],
         \A i, j \in I : i # j => part[i] \cap part[j] = {},
         NEW g \in [I -> Known], \A i \in I : ~Greater(Product(Part(f, part[i])), g[i])
  PROVE  ~Greater(Product(Part(f, UNION {part[i] : i \in I})), Product(g))
<1> DEFINE U(J) == UNION {part[i] : i \in J}
           Bounded(J) == ~Greater(Product(Part(f, U(J))), Product(Part(g, J)))
           Bad == {J \in SUBSET I : ~Bounded(J)}
<1>0. \A A, B \in SUBSET S : A \cap B = {} =>
        /\ Product(Part(f, A)) \in Known /\ Product(Part(f, B)) \in Known
        /\ Product(Part(f, A \cup B)) = Times(Product(Part(f, A)), Product(Part(f, B)))
  BY ProductOfTwo
<1>1. ASSUME Bad # {} PROVE FALSE
  <2>1. Bad \in SUBSET (SUBSET I)
    OBVIOUS
  <2> HIDE DEF Bad
  <2>2. PICK J \in Bad : \A T \in SUBSET J : T # J => T \notin Bad
    BY <1>1, <2>1, SmallestSet
  <2>3. J \in SUBSET I /\ ~Bounded(J)
    BY <2>2 DEF Bad
  <2>4. CASE J = {}
    <3>1. U(J) = {}
      BY <2>4
    <3> HIDE DEF U
    <3>2. Product(Part(f, U(J))) = ELEM_ONE /\ Product(Part(g, J)) = ELEM_ONE
      BY <3>1, <2>4, NoFactors DEF Part
    <3> QED  BY <2>3, <3>2, TimesLaws, NeverGreater
  <2>5. CASE J # {}
    <3>1. PICK i \in J : TRUE
      BY <2>5
    <3> DEFINE T == J \ {i}
    <3>2. T \in SUBSET J /\ T # J /\ T \in SUBSET I /\ i \in I
      BY <2>3, <3>1
    <3>3. Bounded(T)
      BY <2>2, <3>2 DEF Bad
    <3>4. U(J) = U(T) \cup part[i] /\ U(T) \in SUBSET S /\ part[i] \in SUBSET S
      BY <3>1, <3>2
    <3>5. U(T) \cap part[i] = {}
      BY <3>2
    <3> HIDE DEF U, T
    <3>6. /\ Product(Part(f, U(T))) \in Known /\ Product(Part(f, part[i])) \in Known
          /\ Product(Part(f, U(J))) = Times(Product(Part(f, U(T))), Product(Part(f, part[i])))
      <4>1. PICK u, v : u = U(T) /\ v = part[i]
        OBVIOUS
      <4>2. u \in SUBSET S /\ v \in SUBSET S /\ u \cap v = {} /\ U(J) = u \cup v
        BY <3>4, <3>5, <4>1
      <4>3. /\ Product(Part(f, u)) \in Known /\ Product(Part(f, v)) \in Known
            /\ Product(Part(f, u \cup v)) = Times(Product(Part(f, u)), Product(Part(f, v)))
        BY <4>2, <1>0
      <4> QED  BY <4>1, <4>2, <4>3
    <3>7. /\ T \cap {i} = {} /\ T \cup {i} = J /\ {i} \in SUBSET I
      BY <3>1, <3>2 DEF T
    <3>8. /\ Product(Part(g, T)) \in Known /\ Product(Part(g, {i})) \in Known
          /\ Product(Part(g, J)) = Times(Product(Part(g, T)), Product(Part(g, {i})))
      BY <3>2, <3>7, ProductOfTwo
    <3>9. Product(Part(g, {i})) = g[i] /\ g[i] \in Known
      <4>1. g \in [I -> Cost] /\ g[i] \in Cost /\ g[i] \in Known
        BY <3>2 DEF Cost
      <4>2. Product(Part(g, {i})) = Times(g[i], Product(Part(g, {i} \ {i})))
        BY <3>2, <3>7, <4>1, ProductSplit
      <4>3. Product(Part(g, {i} \ {i})) = ELEM_ONE
        BY NoFactors DEF Part
      <4>4. Times(g[i], ELEM_ONE) = g[i]
        BY <4>1, TimesLaws
      <4> QED  BY <4>1, <4>2, <4>3, <4>4
    <3>10. ~Greater(Product(Part(f, part[i])), g[i])
      BY <3>2
    <3>11. ~Greater(Product(Part(f, U(T))), Product(Part(g, T)))
      BY <3>3 DEF Bounded
    <3>12. ~Greater(Product(Part(f, U(J))), Product(Part(g, J)))
      <4>1. Known \subseteq Cost
        BY TimesLaws
      <4> QED  BY <3>6, <3>8, <3>9, <3>10, <3>11, <4>1, TimesBelow
    <3> QED  BY <2>3, <3>12
  <2> QED  BY <2>4, <2>5
<1>2. I \notin Bad
  BY <1>1
<1>3. Part(g, I) = g
  BY DEF Part
<1> QED  BY <1>2, <1>3

(* What bounds a part of the factors may take their place: D is bounded by *)
(* K and A, and A and X by W.                                              *)
LEMMA FactorsReplaced ==
  ASSUME NEW S, IsFiniteSet(S), NEW f \in [S -> Known],
         NEW D \in SUBSET S, NEW X \in SUBSET S, NEW A \in SUBSET S, NEW K \in SUBSET S,
         NEW W \in SUBSET S,
         D \cap X = {}, X \cap A = {}, K \cap A = {}, K \cap W = {},
         ~Greater(Product(Part(f, D)), Product(Part(f, K \cup A))),
         ~Greater(Product(Part(f, X \cup A)), Product(Part(f, W)))
  PROVE  ~Greater(Product(Part(f, D \cup X)), Product(Part(f, K \cup W)))
<1> DEFINE P(Y) == Product(Part(f, Y))
<1>1. ASSUME NEW Y \in SUBSET S  PROVE P(Y) \in Known
  <2>1. Y \cap {} = {} /\ {} \in SUBSET S
    OBVIOUS
  <2> QED  BY <2>1, ProductOfTwo
<1>2. /\ P(D \cup X) = Times(P(D), P(X)) /\ P(K \cup A) = Times(P(K), P(A))
      /\ P(X \cup A) = Times(P(X), P(A)) /\ P(K \cup W) = Times(P(K), P(W))
  BY ProductOfTwo
<1> HIDE DEF P
<1>3. /\ P(D) \in Known /\ P(X) \in Known /\ P(A) \in Known /\ P(K) \in Known /\ P(W) \in Known
  BY <1>1
<1>4. ~Greater(P(D), Times(P(K), P(A))) /\ ~Greater(Times(P(X), P(A)), P(W))
  BY <1>2 DEF P
<1>5. ~Greater(Times(P(D), P(X)), Times(Times(P(K), P(A)), P(X)))
  <2>1. Times(P(K), P(A)) \in Known /\ ~Greater(P(X), P(X)) /\ P(D) \in Cost /\ P(X) \in Cost
    BY <1>3, TimesLaws, NeverGreater DEF Cost
  <2> QED  BY <1>3, <1>4, <2>1, TimesBelow
<1>6. Times(Times(P(K), P(A)), P(X)) = Times(P(K), Times(P(X), P(A)))
  <2>1. P(K) \in Cost /\ P(A) \in Cost /\ P(X) \in Cost
    BY <1>3 DEF Cost
  <2> QED  BY <2>1, TimesLaws
<1>7. ~Greater(Times(P(K), Times(P(X), P(A))), Times(P(K), P(W)))
  <2>1. /\ P(K) \in Cost /\ Times(P(X), P(A)) \in Cost /\ ~Greater(P(K), P(K))
    BY <1>3, TimesLaws, NeverGreater DEF Cost
  <2> QED  BY <1>3, <1>4, <2>1, TimesBelow
<1>8. /\ Times(P(D), P(X)) \in Cost /\ Times(P(K), Times(P(X), P(A))) \in Known
      /\ Times(P(K), P(W)) \in Known
  BY <1>3, TimesLaws
<1>9. ~Greater(Times(P(D), P(X)), Times(P(K), P(W)))
  BY <1>5, <1>6, <1>7, <1>8, AtMostTransitive
<1> QED  BY <1>2, <1>9 DEF P

-----------------------------------------------------------------------------
(* Ancestors. *)

Line(V, d, up, x) ==
  /\ up[x] \subseteq V \cup {d} /\ d \in up[x] /\ x \notin up[x]
  /\ \A y \in up[x] : up[y] \subseteq up[x]
  /\ \A y, w \in up[x] : y = w \/ y \in up[w] \/ w \in up[y]
  /\ \A S \in SUBSET up[x] : S # {} => \E y \in S : S \ {y} \subseteq up[y]

(* The ancestors of a node are a line that ends with the root, and any of  *)
(* them has a lowest one, with the others above it.                        *)
LEMMA AncestorLines ==
  ASSUME NEW V, IsFiniteSet(V), NEW d, d \notin V, NEW t, Rooted(t, V, d),
         NEW up, up = t.above
  PROVE  \A x \in V : Line(V, d, up, x)
<1>1. PICK rank : /\ \A x \in V \cup {d} : rank[x] \in Int
                  /\ \A x \in V : rank[x] < rank[t.parent[x]]
  BY DEF Rooted
<1>2. /\ \A x \in V : t.parent[x] \in V \cup {d}
      /\ up[d] = {} /\ \A x \in V : up[x] = {t.parent[x]} \cup up[t.parent[x]]
  BY DEF Rooted
<1> DEFINE Fine(x) ==
             /\ up[x] \subseteq V \cup {d} /\ d \in up[x]
             /\ \A y \in up[x] : up[y] \subseteq up[x] /\ rank[x] < rank[y]
             /\ \A y, w \in up[x] : y = w \/ y \in up[w] \/ w \in up[y]
           B == {x \in V : ~Fine(x)}
<1>3. ASSUME NEW x \in V, LET p == t.parent[x] IN p = d \/ Fine(p)
      PROVE  Fine(x)
  <2> DEFINE p == t.parent[x]
  <2>1. /\ p \in V \cup {d} /\ rank[x] < rank[p] /\ up[x] = {p} \cup up[p]
        /\ rank[x] \in Int /\ rank[p] \in Int
    BY <1>1, <1>2
  <2>2. CASE p = d
    BY <1>2, <2>1, <2>2
  <2>3. CASE p # d
    <3>1. Fine(p)
      BY <1>3, <2>3
    <3>2. up[x] \subseteq V \cup {d} /\ d \in up[x]
      BY <2>1, <3>1
    <3>3. ASSUME NEW y \in up[x]
          PROVE  up[y] \subseteq up[x] /\ rank[x] < rank[y]
      <4>1. rank[y] \in Int
        BY <1>1, <3>2
      <4>2. y = p \/ (up[y] \subseteq up[p] /\ rank[p] < rank[y])
        BY <2>1, <3>1
      <4> QED  BY <2>1, <4>1, <4>2
    <3>4. \A y, w \in up[x] : y = w \/ y \in up[w] \/ w \in up[y]
      BY <2>1, <3>1
    <3> HIDE DEF p
    <3> QED  BY <3>2, <3>3, <3>4
  <2> QED  BY <2>2, <2>3
<1>4. ASSUME B # {} PROVE FALSE
  <2>1. IsFiniteSet(B) /\ \A x \in B : rank[x] \in Int
    <3>1. B \in SUBSET V
      OBVIOUS
    <3> QED  BY <1>1, <3>1, FS_Subset
  <2>2. B \subseteq V /\ \A x \in V : ~Fine(x) <=> x \in B
    OBVIOUS
  <2> HIDE DEF B, Fine
  <2>3. PICK x \in B : \A y \in B : rank[y] <= rank[x]
    BY <1>4, <2>1, HighestOf
  <2>4. x \in V /\ ~Fine(x)
    BY <2>2
  <2>5. t.parent[x] \in V /\ ~Fine(t.parent[x])
    BY <1>2, <1>3, <2>4
  <2>6. rank[t.parent[x]] <= rank[x] /\ rank[x] < rank[t.parent[x]]
    BY <1>1, <2>2, <2>3, <2>4, <2>5
  <2> QED  BY <1>1, <2>4, <2>5, <2>6
<1>5. \A x \in V : Fine(x)
  BY <1>4
<1> SUFFICES ASSUME NEW x \in V PROVE Line(V, d, up, x)
  OBVIOUS
<1>6. Fine(x)
  BY <1>5
<1>7. x \notin up[x]
  BY <1>1, <1>6
<1>8. ASSUME NEW S \in SUBSET up[x], S # {}
      PROVE  \E y \in S : S \ {y} \subseteq up[y]
  <2> DEFINE low == [y \in S |-> -rank[y]]
  <2>1. \A y \in S : rank[y] \in Int /\ low[y] \in Int /\ low[y] = -rank[y]
    BY <1>1, <1>6
  <2>2. IsFiniteSet(S)
    <3>1. IsFiniteSet(V \cup {d})
      BY FS_AddElement
    <3>2. S \in SUBSET (V \cup {d})
      BY <1>6
    <3> QED  BY <3>1, <3>2, FS_Subset
  <2> HIDE DEF low
  <2>3. PICK y \in S : \A w \in S : low[w] <= low[y]
    BY <1>8, <2>1, <2>2, HighestOf
  <2>4. ASSUME NEW w \in S, w # y
        PROVE  w \in up[y]
    <3>1. w \in up[y] \/ y \in up[w]
      BY <1>6, <2>4
    <3>2. ASSUME y \in up[w] PROVE FALSE
      <4>1. w \in V
        <5>1. w \in V \cup {d}
          BY <1>6
        <5> QED  BY <1>2, <3>2, <5>1
      <4>2. rank[w] < rank[y]
        BY <1>5, <3>2, <4>1
      <4>3. low[w] <= low[y]
        BY <2>3
      <4> QED  BY <2>1, <4>2, <4>3
    <3> QED  BY <3>1, <3>2
  <2> QED  BY <2>4
<1> QED  BY <1>6, <1>7, <1>8 DEF Line

-----------------------------------------------------------------------------
(* What the trace of the order says of the finished tree.                  *)

(* Nodes that are connected stay so as long as both are there.             *)
LEMMA EdgesStay ==
  ASSUME NEW P, NEW g, NEW e \in Seq(NodesOf(P)), Trace(P, g, e),
         NEW i \in 0 .. Len(e), NEW k \in i .. Len(e),
         NEW y \in NodesOf(g[k]), NEW z \in NodesOf(g[k]), z \in g[i][y]
  PROVE  z \in g[k][y]
<1> DEFINE Lost == {m \in i .. k : z \notin g[m][y]}
<1>1. Len(e) \in Nat /\ i \in Nat /\ k \in Nat /\ i <= k /\ k <= Len(e)
  BY LenProperties
<1>2. \A m \in 0 .. Len(e) : NodesOf(g[m]) = NodesOf(P) \ First(e, m)
  BY TraceOnce
<1>3. \A m \in i .. k : y \in NodesOf(g[m]) /\ z \in NodesOf(g[m])
  <2>1. ASSUME NEW m \in i .. k
        PROVE  First(e, m) \subseteq First(e, k)
    BY <1>1 DEF First
  <2>2. \A m \in i .. k : m \in 0 .. Len(e)
    BY <1>1
  <2>3. k \in 0 .. Len(e)
    BY <1>1
  <2> QED  BY <1>2, <2>1, <2>2, <2>3
<1>4. ASSUME Lost # {}
      PROVE  FALSE
  <2>1. Lost \subseteq Nat
    BY <1>1
  <2>2. PICK m \in Lost : \A l \in Lost : m <= l
    BY <1>4, <2>1, LeastNat
  <2>3. m # i /\ m \in i .. k
    BY <2>2
  <2>4. m - 1 \in i .. k /\ m - 1 \in 0 .. Len(e) /\ m - 1 + 1 = m /\ m \in 1 .. Len(e)
        /\ ~(m <= m - 1)
    BY <1>1, <2>3
  <2>5. z \in g[m - 1][y]
    BY <2>2, <2>4
  <2>6. \A v \in NodesOf(g[m]) : \A u \in g[m - 1][v] : u # e[m] => u \in g[m][v]
    <3>1. PICK j : j = m - 1
      OBVIOUS
    <3>2. j \in 0 .. Len(e) /\ j + 1 \in 1 .. Len(e) /\ j + 1 = m
      BY <2>4, <3>1
    <3>3. \A v \in NodesOf(g[j + 1]) : \A u \in g[j][v] : u # e[j + 1] => u \in g[j + 1][v]
      BY <3>2, TraceNext
    <3> QED  BY <3>1, <3>2, <3>3
  <2>7. z # e[m]
    <3>1. z \notin First(e, m)
      BY <1>2, <1>3, <2>3, <2>4
    <3> QED  BY <2>4, <3>1 DEF First
  <2>8. z \in g[m][y]
    BY <1>3, <2>3, <2>5, <2>6, <2>7
  <2> QED  BY <2>2, <2>8
<1>5. k \in i .. k
  BY <1>1
<1> QED  BY <1>4, <1>5

(* A tree that is kept has such neighbours.                                *)
LEMMA KeptNeighbours ==
  ASSUME NEW P, IsFiniteSet(NodesOf(P)), Cardinality(NodesOf(P)) \notin NodesOf(P),
         NEW SC, \A s \in SC : s # {} /\ s \subseteq NodesOf(P) /\ Clique(P, s),
         NEW t, Kept(P, t, SC)
  PROVE  \E N : Neighbours(N, NodesOf(P), t, SC)
<1> DEFINE V == NodesOf(P)
           d == Cardinality(V)
<1>1. PICK g, e : /\ Complete(P, g, e) /\ t.order = Append(e, d)
                  /\ Widest(t.width, Degrees(g, e, Len(e))) /\ Covering(t, g, e, Len(e))
  BY DEF Kept, Traced
<1> DEFINE n == Len(e)
<1>2. e \in Seq(V) /\ n \in Nat /\ Trace(P, g, e) /\ NodesOf(g[n]) = {} /\ g[0] = P
  BY <1>1, LenProperties DEF Complete, Trace
<1>3. \A m \in 0 .. n : NodesOf(g[m]) = V \ First(e, m) /\ First(e, m) \subseteq V
  BY <1>2, TraceOnce
<1>4. First(e, n) = V
  <2>1. n \in 0 .. n
    BY <1>2
  <2> QED  BY <1>2, <1>3, <2>1
<1>5. PICK at \in [V -> 1 .. n] : \A x \in V : e[at[x]] = x
  <2>1. \A x \in V : \E i \in 1 .. n : e[i] = x
    BY <1>4 DEF First
  <2>2. [x \in V |-> CHOOSE i \in 1 .. n : e[i] = x] \in [V -> 1 .. n]
    BY <2>1
  <2>3. \A x \in V : e[CHOOSE i \in 1 .. n : e[i] = x] = x
    BY <2>1
  <2> QED  BY <2>2, <2>3
<1> DEFINE N == [x \in V |-> g[at[x] - 1][x]]
<1>6. ASSUME NEW x \in V
      PROVE  /\ at[x] - 1 \in 0 .. n /\ at[x] \in 1 .. n /\ at[x] \in 0 .. n
             /\ Graph(g[at[x] - 1], NodesOf(g[at[x] - 1]))
             /\ x \in NodesOf(g[at[x] - 1])
             /\ NodesOf(g[at[x]]) = NodesOf(g[at[x] - 1]) \ {x}
             /\ Clique(g[at[x]], N[x])
             /\ N[x] \subseteq NodesOf(g[at[x]]) /\ N[x] \subseteq V
  <2>1. at[x] \in 1 .. n
    BY <1>5
  <2>2. PICK k : k = at[x] - 1
    OBVIOUS
  <2>3. k \in 0 .. n /\ k + 1 \in 1 .. n /\ k + 1 = at[x] /\ k + 1 \in 0 .. n
    BY <1>2, <2>1, <2>2
  <2>4. e[k + 1] = x
    BY <1>5, <2>3
  <2>5. /\ e[k + 1] \in NodesOf(g[k]) /\ NodesOf(g[k + 1]) = NodesOf(g[k]) \ {e[k + 1]}
        /\ Clique(g[k + 1], g[k][e[k + 1]]) /\ Graph(g[k], NodesOf(g[k]))
    <3>1. e \in Seq(NodesOf(P)) /\ k \in 0 .. Len(e) /\ k + 1 \in 1 .. Len(e)
      BY <1>2, <2>3
    <3>2. NodesOf(g[k + 1]) = NodesOf(g[k]) \ {e[k + 1]}
      <4>1. First(e, k + 1) = First(e, k) \cup {e[k + 1]}
        BY <2>3, FirstNext
      <4> QED  BY <1>3, <2>3, <4>1
    <3>3. e[k + 1] \in NodesOf(g[k]) /\ Clique(g[k + 1], g[k][e[k + 1]])
      BY <1>2, <3>1, TraceNext
    <3>4. Graph(g[k], NodesOf(g[k]))
      BY <1>2, <3>1, TraceNext
    <3> QED  BY <3>2, <3>3, <3>4
  <2>6. N[x] = g[k][x]
    BY <2>2
  <2>7. g[k][x] \subseteq NodesOf(g[k]) /\ x \notin g[k][x]
    BY <2>4, <2>5 DEF Graph
  <2>8. NodesOf(g[k]) \subseteq V
    BY <1>3, <2>3
  <2> HIDE DEF N
  <2> QED  BY <2>1, <2>2, <2>3, <2>4, <2>5, <2>6, <2>7, <2>8
<1>7. /\ Rooted(t, V, d) /\ \A x \in V : t.ctx[x] \subseteq t.above[x] \ {d}
      /\ \A s \in SC : Earliest(t.order, s) \in s
  BY DEF Kept, Separates
<1>8. \A x \in V : Line(V, d, t.above, x)
  BY <1>7, AncestorLines
<1>9. ASSUME NEW x \in V
      PROVE  N[x] \subseteq t.above[x] /\ Cardinality(N[x]) <= t.width
  <2>1. g[at[x] - 1][e[at[x]]] \subseteq t.ctx[e[at[x]]]
    BY <1>1, <1>6 DEF Covering
  <2>2. N[x] \subseteq t.ctx[x]
    BY <1>5, <2>1
  <2>3. Cardinality(N[x]) \in Degrees(g, e, n)
    BY <1>5, <1>6 DEF Degrees
  <2> QED  BY <1>1, <1>7, <2>2, <2>3 DEF Widest
<1> HIDE DEF N
<1>10. ASSUME NEW y \in V, NEW x \in N[y], NEW w \in N[y], w \in t.above[x]
       PROVE  w \in N[x]
  <2>1. x \in V /\ w \in V
    BY <1>6
  <2>2. Line(V, d, t.above, x) /\ Line(V, d, t.above, w)
    BY <1>8, <2>1
  <2>3. x # w /\ x \notin t.above[w]
    BY <1>10, <2>2 DEF Line
  <2>4. w \in g[at[y]][x] /\ x \in g[at[y]][w]
    BY <1>6, <2>3 DEF Clique
  <2>5. x \in NodesOf(g[at[y]]) /\ w \in NodesOf(g[at[y]])
    BY <1>6
  <2>6. ASSUME NEW u \in V, u \in NodesOf(g[at[y]])
        PROVE  at[y] <= at[u] - 1
    <3>1. u \notin First(e, at[y])
      BY <1>3, <1>6, <2>6
    <3>2. at[u] \notin 1 .. at[y]
      BY <1>5, <2>6, <3>1 DEF First
    <3> QED  BY <1>6, <3>2
  <2>7. ASSUME NEW u \in V, NEW v \in V, at[u] < at[v]
        PROVE  u \in NodesOf(g[at[u] - 1]) /\ v \in NodesOf(g[at[u] - 1])
    <3>1. \A i, j \in 1 .. n : i # j => e[i] # e[j]
      BY <1>2, TraceOnce
    <3>2. v \notin First(e, at[u] - 1)
      <4>1. ASSUME NEW i \in 1 .. at[u] - 1  PROVE e[i] # v
        <5>1. i \in 1 .. n /\ i # at[v] /\ at[v] \in 1 .. n /\ e[at[v]] = v
          BY <1>5, <1>6, <2>7
        <5> QED  BY <3>1, <5>1
      <4> QED  BY <4>1 DEF First
    <3>3. NodesOf(g[at[u] - 1]) = V \ First(e, at[u] - 1)
      BY <1>3, <1>6
    <3> QED  BY <1>6, <3>2, <3>3
  <2>8. ASSUME NEW u \in V, NEW v \in V, u \in NodesOf(g[at[y]]), at[u] < at[v],
               v \in g[at[y]][u]
        PROVE  v \in N[u]
    <3>1. PICK i, k : i = at[y] /\ k = at[u] - 1
      OBVIOUS
    <3>2. i \in 0 .. n /\ k \in i .. n
      BY <1>2, <1>6, <2>6, <2>8, <3>1
    <3>3. u \in NodesOf(g[k]) /\ v \in NodesOf(g[k]) /\ v \in g[i][u]
      BY <2>7, <2>8, <3>1
    <3>4. v \in g[k][u]
      BY <1>2, <3>2, <3>3, EdgesStay
    <3> QED  BY <3>1, <3>4 DEF N
  <2>9. CASE at[x] < at[w]
    BY <2>1, <2>4, <2>5, <2>8, <2>9
  <2>10. CASE at[w] < at[x]
    <3>1. x \in N[w]
      BY <2>1, <2>4, <2>5, <2>8, <2>10
    <3> QED  BY <1>9, <2>1, <2>3, <3>1
  <2>11. at[x] # at[w]
    BY <1>5, <2>1, <2>3
  <2>12. at[x] \in Int /\ at[w] \in Int
    BY <1>6, <2>1
  <2> QED  BY <2>9, <2>10, <2>11, <2>12
<1>11. ASSUME NEW s \in SC, NEW o, o = Earliest(t.order, s)
       PROVE  s \subseteq N[o] \cup {o}
  <2>1. s # {} /\ s \subseteq V /\ Clique(P, s)
    OBVIOUS
  <2>2. PICK i \in 1 .. n : o = e[i] /\ e[i] \in s /\ s \cap First(e, i - 1) = {}
    BY <1>1, <1>2, <1>4, <1>11, <2>1, EarliestOf
  <2>3. o \in V /\ at[o] = i
    <3>1. \A p, q \in 1 .. n : p # q => e[p] # e[q]
      BY <1>2, TraceOnce
    <3> QED  BY <1>5, <2>1, <2>2, <3>1
  <2>4. ASSUME NEW v \in s, v # o
        PROVE  v \in N[o]
    <3>1. PICK k : k = i - 1
      OBVIOUS
    <3>2. k \in 0 .. n /\ 0 \in 0 .. n
      BY <1>2, <2>2, <3>1
    <3>3. v \in NodesOf(g[k]) /\ o \in NodesOf(g[k])
      BY <1>3, <2>1, <2>2, <2>4, <3>1, <3>2
    <3>4. v \in g[0][o]
      BY <1>2, <2>1, <2>2, <2>4 DEF Clique
    <3>5. v \in g[k][o]
      BY <1>2, <3>2, <3>3, <3>4, EdgesStay
    <3> QED  BY <2>3, <3>1, <3>5 DEF N
  <2> QED  BY <2>4
<1>12. N \in [V -> SUBSET V] /\ t.width \in Int
  <2>1. n \in 0 .. Len(e)
    BY <1>2
  <2>2. \A k \in Degrees(g, e, n) : k \in Nat
    BY <1>2, <2>1, DegreesBounded
  <2> QED  BY <1>1, <1>6, <2>2 DEF N, Widest, UNKNOWN
<1>13. Neighbours(N, V, t, SC)
  BY <1>9, <1>10, <1>11, <1>12 DEF Neighbours
<1> QED  BY <1>13

-----------------------------------------------------------------------------
(* The tree and the functions that the buckets are made of. *)

(* The variables of a function are that of its bucket and ancestors of it, *)
(* in the tree t over the variables V.                                     *)
OwnersFit(p, V, t) ==
  \A i \in DOMAIN p.functions :
    LET f == p.functions[i]
        o == Earliest(t.order, f.scope)
    IN  Table(f, V) /\ (f.scope = {} \/ (o \in V \cap f.scope /\ f.scope \subseteq t.above[o] \cup {o}))

Sound ==
  /\ IsFiniteSet(Vars) /\ Dummy \notin Vars /\ GIVEN \notin Vars
  /\ Ancestors(best, Dummy) = {}
  /\ \A x \in Vars : Line(Vars, Dummy, best.above, x)
  /\ IsFiniteSet(DOMAIN problem.functions)
  /\ OwnersFit(problem, Vars, best)

(* The target of a message is an ancestor, and the scope of the message is *)
(* the target and ancestors of it.                                         *)
LEMMA TargetAbove ==
  ASSUME Sound, NEW x \in Vars, NEW m, m.scope \subseteq Ancestors(best, x)
  PROVE  /\ Target(x, m) \in Ancestors(best, x)
         /\ m.scope \subseteq Ancestors(best, Target(x, m)) \cup {Target(x, m)}
         /\ m.scope # {} => Target(x, m) \in m.scope
<1> DEFINE up == Ancestors(best, x)
           S == up \cap m.scope
<1>1. /\ Dummy \in up
      /\ \A T \in SUBSET up : T # {} => \E y \in T : T \ {y} \subseteq Ancestors(best, y)
  BY DEF Sound, Line, Ancestors
<1>2. S = m.scope /\ S \in SUBSET up
  OBVIOUS
<1>3. Target(x, m) = IF S = {} THEN Dummy
                     ELSE CHOOSE y \in S : S \ {y} \subseteq Ancestors(best, y)
  BY DEF Target
<1> HIDE DEF S, up
<1>4. CASE S = {}
  BY <1>1, <1>2, <1>3, <1>4 DEF up
<1>5. CASE S # {}
  <2>1. \E y \in S : S \ {y} \subseteq Ancestors(best, y)
    BY <1>1, <1>2, <1>5
  <2>2. Target(x, m) \in S /\ S \ {Target(x, m)} \subseteq Ancestors(best, Target(x, m))
    BY <1>3, <1>5, <2>1
  <2> QED  BY <1>2, <2>2 DEF up
<1> QED  BY <1>4, <1>5

Names == {<<GIVEN, i>> : i \in DOMAIN problem.functions} \cup DOMAIN sent
Factor(a) == [n \in Names |-> Value(FunctionAt(n), a)]

(* All functions that have a name are tables over the variables, and those *)
(* of a bucket have the others of their variables among the ancestors.     *)
LEMMA NamedTables ==
  ASSUME Sound, Delivered
  PROVE  /\ IsFiniteSet(Names)
         /\ \A n \in Names : Table(FunctionAt(n), Vars)
         /\ \A n \in DOMAIN sent : FunctionAt(n) = sent[n]
         /\ \A S : GivenTo(S) \in SUBSET Names /\ GivenTo(S) \cap DOMAIN sent = {}
         /\ \A x : Given(x) \in SUBSET Names /\ Given(x) \cap DOMAIN sent = {}
         /\ \A x \in Vars :
              /\ Collected(x) \in SUBSET Names
              /\ \A n \in Collected(x) :
                   FunctionAt(n).scope \subseteq Ancestors(best, x) \cup {x}
<1> DEFINE I == DOMAIN problem.functions
           own == {<<GIVEN, i>> : i \in I}
           name == [i \in I |-> <<GIVEN, i>>]
<1>1. IsFiniteSet(I) /\ IsFiniteSet(DOMAIN sent) /\ GIVEN \notin Vars
  BY DEF Sound, Delivered
<1>2. IsFiniteSet(own)
  <2>1. own = {name[i] : i \in I}
    OBVIOUS
  <2>2. IsFiniteSet({name[i] : i \in I})
    <3> HIDE DEF name, I
    <3> QED  BY <1>1, FiniteImage
  <2> QED  BY <2>1, <2>2
<1>3. IsFiniteSet(Names)
  BY <1>1, <1>2, FS_Union DEF Names
<1>4. \A n \in DOMAIN sent : n[1] \in Vars
  BY DEF Delivered
<1>5. \A n \in DOMAIN sent : FunctionAt(n) = sent[n] /\ Table(sent[n], Vars)
  BY <1>1, <1>4 DEF FunctionAt, Delivered
<1>6. \A i \in I : FunctionAt(<<GIVEN, i>>) = problem.functions[i]
  BY DEF FunctionAt
<1>7. \A n \in Names : Table(FunctionAt(n), Vars)
  BY <1>5, <1>6 DEF Names, Sound, OwnersFit
<1>8. own \cap DOMAIN sent = {}
  BY <1>1, <1>4
<1>9. \A x : Given(x) \subseteq own
  BY DEF Given, FunctionsOf
<1>10. \A S : GivenTo(S) \subseteq own
  BY <1>9 DEF GivenTo
<1>11. ASSUME NEW x \in Vars
       PROVE  /\ Collected(x) \subseteq Names
              /\ \A n \in Collected(x) :
                   FunctionAt(n).scope \subseteq Ancestors(best, x) \cup {x}
  <2>1. augmented[x] = {n \in DOMAIN sent : Dest(n) = x}
    BY DEF Delivered, TreeNodes
  <2>2. Collected(x) \subseteq Names
    BY <1>9, <2>1 DEF Collected, Names
  <2>3. ASSUME NEW n \in augmented[x]
        PROVE  FunctionAt(n).scope \subseteq Ancestors(best, x) \cup {x}
    <3>1. n \in DOMAIN sent /\ Target(n[1], sent[n]) = x
      BY <2>1 DEF Dest
    <3>2. n[1] \in Vars /\ sent[n].scope \subseteq Ancestors(best, n[1])
      BY <3>1 DEF Delivered
    <3>3. sent[n].scope \subseteq Ancestors(best, x) \cup {x}
      BY <3>1, <3>2, TargetAbove
    <3> QED  BY <1>5, <3>1, <3>3
  <2>4. ASSUME NEW n \in Given(x)
        PROVE  FunctionAt(n).scope \subseteq Ancestors(best, x) \cup {x}
    <3>1. PICK i \in I : n = <<GIVEN, i>> /\ Owner(best, problem.functions[i]) = x
      BY DEF Given, FunctionsOf
    <3>2. problem.functions[i].scope \subseteq Ancestors(best, x) \cup {x}
      <4>1. problem.functions[i].scope # {} => x = Earliest(best.order, problem.functions[i].scope)
        BY <3>1 DEF Owner, Earliest
      <4> QED  BY <4>1 DEF Sound, OwnersFit, Ancestors
    <3> QED  BY <1>6, <3>1, <3>2
  <2> QED  BY <2>2, <2>3, <2>4 DEF Collected
<1>12. own \subseteq Names
  BY DEF Names
<1> HIDE DEF own
<1>13. /\ \A S : GivenTo(S) \in SUBSET Names /\ GivenTo(S) \cap DOMAIN sent = {}
       /\ \A x : Given(x) \in SUBSET Names /\ Given(x) \cap DOMAIN sent = {}
  BY <1>8, <1>9, <1>10, <1>12
<1> QED  BY <1>3, <1>5, <1>7, <1>11, <1>13

(* The product of the named functions is that of their factors.            *)
LEMMA NamedFactors ==
  ASSUME Sound, Delivered, NEW a \in Assignments(Vars)
  PROVE  /\ Factor(a) \in [Names -> Known]
         /\ \A K \in SUBSET Names : ProductOf(Family(K), a) = Product(Part(Factor(a), K))
<1>1. \A n \in Names : Table(FunctionAt(n), Vars)
  BY NamedTables
<1>2. ASSUME NEW n \in Names
      PROVE  Value(FunctionAt(n), a) \in Known
  <2>1. Table(FunctionAt(n), Vars)
    BY <1>1
  <2>2. \A y \in FunctionAt(n).scope : a[y] \in Values
    BY <2>1 DEF Table, Assignments
  <2> QED  BY <2>1, <2>2, TableValue
<1>3. ASSUME NEW K \in SUBSET Names
      PROVE  ProductOf(Family(K), a) = Product(Part(Factor(a), K))
  <2>1. DOMAIN Family(K) = K /\ \A n \in K : Family(K)[n] = FunctionAt(n)
    BY DEF Family
  <2>2. [n \in DOMAIN Family(K) |-> Value(Family(K)[n], a)] = Part(Factor(a), K)
    BY <2>1 DEF Part, Factor
  <2> QED  BY <2>2 DEF ProductOf
<1> QED  BY <1>2, <1>3 DEF Factor

-----------------------------------------------------------------------------
(* The steps of build(). *)

(* Where nothing is matched, a message is a table over ancestors, nowhere  *)
(* less than the product of its mini-bucket, and for some value of the     *)
(* bucket's variable not more.                                             *)
LEMMA MessagesBound ==
  ASSUME Sound, Delivered, Partitioned, stage = "send", NEW ms, ms = Messages(bucket)
  PROVE  /\ DOMAIN ms = DOMAIN minibuckets /\ IsFiniteSet(DOMAIN minibuckets)
         /\ \A i \in DOMAIN minibuckets :
              /\ minibuckets[i] \in SUBSET Names
              /\ Table(ms[i], Vars) /\ ms[i].scope \subseteq Ancestors(best, bucket)
              /\ ms[i].scope = ScopeOf(minibuckets[i]) \ {bucket}
              /\ \A a \in Assignments(Vars) :
                   /\ ~Greater(Product(Part(Factor(a), minibuckets[i])), Value(ms[i], a))
                   /\ \E c \in Assignments(Vars) :
                        /\ \A y \in Vars \ {bucket} : c[y] = a[y]
                        /\ ~Greater(Value(ms[i], a), Product(Part(Factor(c), minibuckets[i])))
<1>1. /\ bucket \in Vars /\ minibuckets \in Seq(SUBSET Collected(bucket))
      /\ shifts = [i \in DOMAIN minibuckets |-> <<>>]
  BY DEF Partitioned
<1>2. DOMAIN ms = DOMAIN minibuckets /\ IsFiniteSet(DOMAIN minibuckets)
  <2>1. DOMAIN minibuckets = 1 .. Len(minibuckets) /\ Len(minibuckets) \in Nat
    BY <1>1, LenProperties
  <2> QED  BY <2>1, FS_Interval DEF Messages
<1>3. ASSUME NEW i \in DOMAIN minibuckets
      PROVE  /\ minibuckets[i] \in SUBSET Names
             /\ Table(ms[i], Vars) /\ ms[i].scope \subseteq Ancestors(best, bucket)
             /\ ms[i].scope = ScopeOf(minibuckets[i]) \ {bucket}
             /\ \A a \in Assignments(Vars) :
                  /\ ~Greater(Product(Part(Factor(a), minibuckets[i])), Value(ms[i], a))
                  /\ \E c \in Assignments(Vars) :
                       /\ \A y \in Vars \ {bucket} : c[y] = a[y]
                       /\ ~Greater(Value(ms[i], a), Product(Part(Factor(c), minibuckets[i])))
  <2> DEFINE B == minibuckets[i]
             s == Family(B)
             keep == ScopeOf(B) \ {bucket}
  <2>1. /\ B \subseteq Collected(bucket) /\ B \in SUBSET Names
        /\ \A n \in B : FunctionAt(n).scope \subseteq Ancestors(best, bucket) \cup {bucket}
    <3>1. B \in SUBSET Collected(bucket)
      BY <1>1, ElementOfSeq, LenProperties
    <3> QED  BY <1>1, <3>1, NamedTables
  <2>2. Joined(s, shifts[i]) = s
    <3>1. shifts[i] = <<>>
      BY <1>1
    <3>2. DOMAIN s \cup DOMAIN <<>> = DOMAIN s
      OBVIOUS
    <3>3. s = [n \in DOMAIN s |-> s[n]]
      BY DEF Family
    <3>4. Joined(s, <<>>) = [n \in DOMAIN s |-> s[n]]
      <4> HIDE DEF s
      <4> QED  BY <3>2 DEF Joined
    <3> QED  BY <3>1, <3>3, <3>4
  <2>3. ms[i] = Eliminated(s, -bucket, keep)
    BY <2>2 DEF Messages
  <2>4. DOMAIN s = B /\ \A n \in B : s[n] = FunctionAt(n)
    BY DEF Family
  <2>5. IsFiniteSet(DOMAIN s) /\ \A n \in DOMAIN s : Table(s[n], Vars)
    BY <2>1, <2>4, NamedTables, FS_Subset
  <2>6. ScopeOf(B) = JointScope(s) /\ keep \subseteq JointScope(s)
        /\ ScopeOf(B) \subseteq Ancestors(best, bucket) \cup {bucket}
    BY <2>1, <2>4 DEF ScopeOf, JointScope
  <2>7. IsFiniteSet(Vars)
    BY DEF Sound
  <2> HIDE DEF s, keep, B
  <2>8. /\ Table(ms[i], Vars) /\ ms[i].scope = keep
        /\ \A a \in Assignments(Vars) :
             /\ ~Greater(ProductOf(s, a), Value(ms[i], a))
             /\ \E c \in Assignments(Vars) :
                  /\ \A y \in Vars \ (JointScope(s) \ keep) : c[y] = a[y]
                  /\ ~Greater(Value(ms[i], a), ProductOf(s, c))
    BY <2>3, <2>5, <2>6, <2>7, EliminatedTable
  <2>9. \A a \in Assignments(Vars) : ProductOf(s, a) = Product(Part(Factor(a), B))
    BY <2>1, NamedFactors DEF s
  <2>10. keep \subseteq Ancestors(best, bucket)
    BY <2>6 DEF keep
  <2>11. JointScope(s) \ keep \subseteq {bucket}
    BY <2>6 DEF keep
  <2>12. ASSUME NEW a \in Assignments(Vars)
         PROVE  /\ ~Greater(Product(Part(Factor(a), B)), Value(ms[i], a))
                /\ \E c \in Assignments(Vars) :
                     /\ \A y \in Vars \ {bucket} : c[y] = a[y]
                     /\ ~Greater(Value(ms[i], a), Product(Part(Factor(c), B)))
    <3>1. PICK c \in Assignments(Vars) :
            /\ \A y \in Vars \ (JointScope(s) \ keep) : c[y] = a[y]
            /\ ~Greater(Value(ms[i], a), ProductOf(s, c))
      BY <2>8
    <3>2. \A y \in Vars \ {bucket} : c[y] = a[y]
      BY <2>11, <3>1
    <3> QED  BY <2>8, <2>9, <3>1, <3>2
  <2> QED  BY <2>1, <2>8, <2>10, <2>12 DEF B, keep
<1> QED  BY <1>2, <1>3

(* What SendMessages does, in terms of the messages.                       *)
SentFrom(x, ms, W) ==
  /\ W = {<<x, i>> : i \in DOMAIN ms}
  /\ sent' = [n \in DOMAIN sent \cup W |-> IF n \in W THEN ms[n[2]] ELSE sent[n]]
  /\ augmented' = [y \in TreeNodes |-> augmented[y] \cup {n \in W : Target(x, ms[n[2]]) = y}]
  /\ intermediate' = [y \in TreeNodes |->
                        intermediate[y] \cup {n \in W : y \in PassedOn(x, ms[n[2]])}]
  /\ todo' = todo \ {x}
  /\ UNCHANGED <<problem, primal, best>>

(* The messages arrive where they are sent.                                *)
LEMMA DeliveredNext ==
  ASSUME Sound, Delivered, NEW x \in Vars \cap todo, Below(x) \cap todo = {},
         NEW ms, IsFiniteSet(DOMAIN ms),
         \A i \in DOMAIN ms : Table(ms[i], Vars) /\ ms[i].scope \subseteq Ancestors(best, x),
         NEW W, SentFrom(x, ms, W)
  PROVE  /\ Delivered' /\ Done' = Done \cup {x}
         /\ DOMAIN sent' = DOMAIN sent \cup W /\ W \cap DOMAIN sent = {}
         /\ IsFiniteSet(W)
         /\ \A n \in W : n[1] = x /\ n[2] \in DOMAIN ms /\ sent'[n] = ms[n[2]]
         /\ \A n \in DOMAIN sent : sent'[n] = sent[n] /\ n[1] \in Vars \cap Done
<1>1. /\ Vars' = Vars /\ TreeNodes' = TreeNodes /\ Dummy' = Dummy
      /\ \A z : Below(z)' = Below(z)
      /\ \A y, m : Target(y, m)' = Target(y, m) /\ PassedOn(y, m)' = PassedOn(y, m)
  BY DEF SentFrom, Vars, TreeNodes, Dummy, Below, Target, PassedOn, Ancestors
<1>2. x \in TreeNodes /\ todo \subseteq TreeNodes
  BY DEF TreeNodes, Delivered
<1>3. Done' = Done \cup {x} /\ x \notin Done
  BY <1>1, <1>2 DEF Done, SentFrom
<1>4. \A n \in W : n[1] = x /\ n[2] \in DOMAIN ms
  BY DEF SentFrom
<1>5. \A n \in DOMAIN sent : n[1] \in Vars \cap Done
  BY DEF Delivered
<1>6. W \cap DOMAIN sent = {}
  BY <1>3, <1>4, <1>5
<1>7. IsFiniteSet(W)
  <2> DEFINE name == [i \in DOMAIN ms |-> <<x, i>>]
  <2>1. W = {name[i] : i \in DOMAIN ms}
    BY DEF SentFrom
  <2> HIDE DEF name
  <2> QED  BY <2>1, FiniteImage
<1>8. /\ DOMAIN sent' = DOMAIN sent \cup W
      /\ \A n \in W : sent'[n] = ms[n[2]]
      /\ \A n \in DOMAIN sent : sent'[n] = sent[n]
  BY <1>6 DEF SentFrom
<1>9. todo' \subseteq TreeNodes' /\ \A y \in Done' : Below(y)' \cap todo' = {}
  BY <1>1, <1>2, <1>3 DEF Delivered, SentFrom
<1>10. IsFiniteSet(DOMAIN sent')
  <2>1. IsFiniteSet(DOMAIN sent)
    BY DEF Delivered
  <2>2. IsFiniteSet(DOMAIN sent \cup W)
    BY <1>7, <2>1, FS_Union
  <2> QED  BY <1>8, <2>2
<1>11. \A f : Table(f, Vars)' <=> Table(f, Vars)
  BY <1>1 DEF Table
<1>12. ASSUME NEW n \in DOMAIN sent'
       PROVE  /\ n[1] \in Vars' \cap Done' /\ Table(sent'[n], Vars')
              /\ sent'[n].scope \subseteq Ancestors(best, n[1])'
  <2>1. CASE n \in W
    BY <1>1, <1>3, <1>4, <1>8, <2>1 DEF SentFrom, Ancestors, Table
  <2>2. CASE n \in DOMAIN sent
    BY <1>1, <1>3, <1>8, <2>2 DEF Delivered, SentFrom, Ancestors, Table
  <2> QED  BY <1>8, <2>1, <2>2
<1>13. /\ augmented = [y \in TreeNodes |-> {n \in DOMAIN sent : Dest(n) = y}]
       /\ intermediate = [y \in TreeNodes |-> {n \in DOMAIN sent : y \in PassedOn(n[1], sent[n])}]
  BY DEF Delivered
<1>14. ASSUME NEW y \in TreeNodes
       PROVE  augmented'[y] = {n \in DOMAIN sent' : Dest(n)' = y}
  <2>1. augmented'[y] = augmented[y] \cup {n \in W : Target(x, ms[n[2]]) = y}
    BY DEF SentFrom
  <2>2. augmented[y] = {n \in DOMAIN sent : Target(n[1], sent[n]) = y}
    BY <1>13 DEF Dest
  <2>3. \A n \in W : Dest(n)' = Target(x, ms[n[2]])
    BY <1>1, <1>4, <1>8 DEF Dest
  <2>4. \A n \in DOMAIN sent : Dest(n)' = Target(n[1], sent[n])
    BY <1>1, <1>8 DEF Dest
  <2> QED  BY <1>8, <2>1, <2>2, <2>3, <2>4
<1>15. ASSUME NEW y \in TreeNodes
       PROVE  intermediate'[y] = {n \in DOMAIN sent' : y \in PassedOn(n[1], sent[n])'}
  <2>1. intermediate'[y] = intermediate[y] \cup {n \in W : y \in PassedOn(x, ms[n[2]])}
    BY DEF SentFrom
  <2>2. intermediate[y] = {n \in DOMAIN sent : y \in PassedOn(n[1], sent[n])}
    BY <1>13
  <2>3. \A n \in W : PassedOn(n[1], sent[n])' = PassedOn(x, ms[n[2]])
    BY <1>1, <1>4, <1>8
  <2>4. \A n \in DOMAIN sent : PassedOn(n[1], sent[n])' = PassedOn(n[1], sent[n])
    BY <1>1, <1>8
  <2> QED  BY <1>8, <2>1, <2>2, <2>3, <2>4
<1>16. /\ augmented' = [y \in TreeNodes' |-> {n \in DOMAIN sent' : Dest(n)' = y}]
       /\ intermediate' = [y \in TreeNodes' |->
                             {n \in DOMAIN sent' : y \in PassedOn(n[1], sent[n])'}]
  <2>1. /\ augmented' = [y \in TreeNodes |-> augmented'[y]]
        /\ intermediate' = [y \in TreeNodes |-> intermediate'[y]]
    BY DEF SentFrom
  <2> QED  BY <1>1, <1>14, <1>15, <2>1
<1>17. Delivered'
  BY <1>9, <1>10, <1>12, <1>16 DEF Delivered
<1> QED  BY <1>3, <1>4, <1>5, <1>6, <1>7, <1>8, <1>17
(* The tree and the functions of the problem stay what they are.           *)
LEMMA SoundStays == Sound /\ UNCHANGED <<problem, primal, best>> => Sound'
<1> SUFFICES ASSUME Sound, UNCHANGED <<problem, primal, best>>  PROVE Sound'
  OBVIOUS
<1>1. /\ Vars' = Vars /\ Dummy' = Dummy
      /\ \A x : Ancestors(best, x)' = Ancestors(best, x)
  BY DEF Vars, Dummy, Ancestors
<1>3. \A x \in Vars' : Line(Vars, Dummy, best.above, x)'
  BY <1>1 DEF Sound
<1>4. OwnersFit(problem, Vars, best)'
  BY <1>1 DEF Sound
<1> QED  BY <1>1, <1>3, <1>4 DEF Sound

(* What becomes of the functions below a node and of the messages that are *)
(* pending there: the bucket of x below it has taken up those for x.       *)
LEMMA PendingNext ==
  ASSUME Sound, Delivered, NEW x \in Vars \cap todo, Below(x) \cap todo = {},
         NEW ms, IsFiniteSet(DOMAIN ms),
         \A i \in DOMAIN ms : Table(ms[i], Vars) /\ ms[i].scope \subseteq Ancestors(best, x),
         NEW W, SentFrom(x, ms, W), NEW z \in TreeNodes,
         NEW D, D = GivenTo(Done \cap Below(z)), NEW R, R = Pending(z)
  PROVE  /\ D \in SUBSET Names /\ R \in SUBSET Names
         /\ x \notin Below(z) => GivenTo(Done \cap Below(z))' = D /\ Pending(z)' = R
         /\ x \in Below(z) =>
              /\ GivenTo(Done \cap Below(z))' = D \cup Given(x) /\ D \cap Given(x) = {}
              /\ Pending(z)' = (R \ augmented[x]) \cup W /\ augmented[x] \subseteq R
              /\ Given(x) \cap augmented[x] = {} /\ (R \ augmented[x]) \cap W = {}
              /\ \A n \in R \ augmented[x] : x \notin FunctionAt(n).scope
<1>1. /\ Delivered' /\ Done' = Done \cup {x}
      /\ DOMAIN sent' = DOMAIN sent \cup W /\ W \cap DOMAIN sent = {}
      /\ \A n \in W : n[1] = x /\ n[2] \in DOMAIN ms /\ sent'[n] = ms[n[2]]
      /\ \A n \in DOMAIN sent : sent'[n] = sent[n]
  BY DeliveredNext
<1>2. UNCHANGED <<problem, primal, best>>
  BY DEF SentFrom
<1>3. /\ Vars' = Vars /\ Below(z)' = Below(z)
      /\ \A S : GivenTo(S)' = GivenTo(S)
      /\ \A y, m : Target(y, m)' = Target(y, m)
  BY <1>2 DEF Vars, Dummy, Below, Target, Ancestors, Given, GivenTo, FunctionsOf, Owner
<1>4. x \notin Done /\ x \in Vars /\ x \in TreeNodes
  BY DEF Done, TreeNodes
<1>5. \A n \in DOMAIN sent : Dest(n)' = Dest(n)
  BY <1>1, <1>3 DEF Dest
<1>6. \A n \in W : Dest(n)' \in Ancestors(best, x)
  <2>1. \A n \in W : Dest(n)' = Target(x, ms[n[2]]) /\ n[2] \in DOMAIN ms
    BY <1>1, <1>3 DEF Dest
  <2> QED  BY <2>1, TargetAbove
<1>7. D \in SUBSET Names /\ R \in SUBSET Names /\ R \subseteq DOMAIN sent
  BY NamedTables DEF Pending, Names
<1>8. PICK K, L : K = GivenTo(Done \cap Below(z))' /\ L = Pending(z)'
  OBVIOUS
<1>9. K = GivenTo((Done \cup {x}) \cap Below(z))
  BY <1>1, <1>3, <1>8
<1>10. L = {n \in DOMAIN sent \cup W : n[1] \in Below(z) /\ Dest(n)' \notin (Done \cup {x}) \cap Below(z)}
  BY <1>1, <1>3, <1>8 DEF Pending
<1>11. CASE x \notin Below(z)
  <2>1. (Done \cup {x}) \cap Below(z) = Done \cap Below(z)
    BY <1>11
  <2>2. K = D
    BY <1>9, <2>1
  <2>3. L = R
    BY <1>1, <1>5, <1>10, <1>11, <2>1 DEF Pending
  <2> QED  BY <1>7, <1>8, <1>11, <2>2, <2>3
<1>12. CASE x \in Below(z)
  <2> DEFINE A == augmented[x]
             B == R \ A
  <2>1. A = {n \in DOMAIN sent : Dest(n) = x}
    BY <1>4 DEF Delivered
  <2>2. ASSUME NEW n \in DOMAIN sent
        PROVE  /\ n[1] \in Vars /\ Dest(n) \in Ancestors(best, n[1])
               /\ FunctionAt(n).scope \subseteq Ancestors(best, Dest(n)) \cup {Dest(n)}
    <3>1. n[1] \in Vars /\ sent[n].scope \subseteq Ancestors(best, n[1])
      BY DEF Delivered
    <3> QED  BY <3>1, NamedTables, TargetAbove DEF Dest
  <2>3. \A y \in Vars : x \in Ancestors(best, y) => z \in Ancestors(best, y) /\ y \in Below(z)
    BY <1>4, <1>12 DEF Sound, Line, Below, Ancestors
  <2>4. A \subseteq R
    BY <1>4, <2>1, <2>2, <2>3 DEF Pending
  <2>5. K = D \cup Given(x)
    <3>1. (Done \cup {x}) \cap Below(z) = (Done \cap Below(z)) \cup {x}
      BY <1>12
    <3> QED  BY <1>9, <3>1 DEF GivenTo
  <2>6. ASSUME NEW n \in W
        PROVE  n[1] \in Below(z) /\ Dest(n)' \notin Done \cup {x}
    <3>1. Dest(n)' \in Ancestors(best, x) /\ n[1] = x
      BY <1>1, <1>6
    <3>2. Line(Vars, Dummy, best.above, x)
      BY <1>4 DEF Sound
    <3>3. Dest(n)' # x
      BY <3>1, <3>2 DEF Line, Ancestors
    <3>4. x \in Below(Dest(n)') /\ x \in todo
      BY <1>4, <3>1 DEF Below
    <3>5. Dest(n)' \notin Done
      BY <3>4 DEF Delivered
    <3> QED  BY <1>12, <3>1, <3>3, <3>5
  <2>7. L = B \cup W
    <3>1. \A n \in DOMAIN sent : n \in L <=> n \in R /\ n \notin A
      BY <1>5, <1>7, <1>10, <1>12, <2>1 DEF Pending
    <3>2. \A n \in W : n \in L
      BY <1>10, <2>6
    <3>3. L \subseteq DOMAIN sent \cup W /\ B \subseteq DOMAIN sent
      BY <1>7, <1>10
    <3> HIDE DEF A
    <3> QED  BY <3>1, <3>2, <3>3
  <2>8. D \cap Given(x) = {} /\ Given(x) \cap A = {} /\ B \cap W = {}
    <3>1. \A y \in Done : Given(y) \cap Given(x) = {}
      BY <1>4 DEF Given, FunctionsOf
    <3>2. D \cap Given(x) = {}
      BY <3>1 DEF GivenTo
    <3>3. Given(x) \cap DOMAIN sent = {}
      BY NamedTables
    <3> QED  BY <1>1, <1>7, <2>1, <3>2, <3>3
  <2>9. ASSUME NEW n \in B, x \in FunctionAt(n).scope
        PROVE  FALSE
    <3>1. /\ n \in DOMAIN sent /\ Dest(n) # x /\ Dest(n) \notin Done \cap Below(z)
      BY <1>7, <2>1 DEF Pending
    <3>2. x \in Ancestors(best, Dest(n)) /\ Dest(n) \in Ancestors(best, n[1]) /\ n[1] \in Vars
      BY <2>2, <2>9, <3>1
    <3>3. Dest(n) \in Vars
      BY <3>2 DEF Sound, Line, Ancestors
    <3>4. Dest(n) \in Below(x) /\ Dest(n) \in Below(z)
      BY <2>3, <3>2, <3>3 DEF Below
    <3>5. Dest(n) \in Done
      BY <3>3, <3>4 DEF Done, TreeNodes
    <3> QED  BY <3>1, <3>4, <3>5
  <2> QED  BY <1>7, <1>8, <1>12, <2>4, <2>5, <2>7, <2>8, <2>9
<1> QED  BY <1>11, <1>12

(* The factors that the messages add.                                      *)
LEMMA FactorsNext ==
  ASSUME Sound, Delivered, NEW x \in Vars \cap todo, Below(x) \cap todo = {},
         NEW ms, IsFiniteSet(DOMAIN ms),
         \A i \in DOMAIN ms : Table(ms[i], Vars) /\ ms[i].scope \subseteq Ancestors(best, x),
         NEW W, SentFrom(x, ms, W), NEW a \in Assignments(Vars), NEW v, v = Factor(a)'
  PROVE  /\ Names' = Names \cup W /\ IsFiniteSet(Names') /\ v \in [Names' -> Known]
         /\ \A K \in SUBSET Names' : ProductOf(Family(K), a)' = Product(Part(v, K))
         /\ \A K \in SUBSET Names :
              /\ Part(v, K) = Part(Factor(a), K)
              /\ ProductOf(Family(K), a) = Product(Part(v, K))
         /\ Part(v, W) = [n \in W |-> Value(ms[n[2]], a)]
<1>1. /\ Delivered' /\ DOMAIN sent' = DOMAIN sent \cup W /\ IsFiniteSet(W)
      /\ \A n \in W : n[1] = x /\ n[2] \in DOMAIN ms /\ sent'[n] = ms[n[2]]
      /\ \A n \in DOMAIN sent : sent'[n] = sent[n] /\ n[1] \in Vars \cap Done
  BY DeliveredNext
<1>2. UNCHANGED <<problem, primal, best>>
  BY DEF SentFrom
<1>3. GIVEN \notin Vars /\ Vars' = Vars /\ Sound'
  BY <1>2, SoundStays DEF Sound, Vars
<1>4. /\ \A n \in Names : FunctionAt(n)' = FunctionAt(n)
      /\ \A n \in W : FunctionAt(n)' = ms[n[2]]
      /\ Names' = Names \cup W
  BY <1>1, <1>2, <1>3 DEF Names, FunctionAt
<1>5. IsFiniteSet(Names')
  <2>1. IsFiniteSet(Names)
    BY NamedTables
  <2> QED  BY <1>1, <1>4, <2>1, FS_Union
<1>6. ASSUME NEW n \in Names'
      PROVE  v[n] = Value(FunctionAt(n)', a) /\ v[n] \in Known
  <2>1. v[n] = Value(FunctionAt(n)', a)
    BY DEF Factor
  <2>2. Table(FunctionAt(n)', Vars)
    <3>1. CASE n \in W
      BY <1>1, <1>4, <3>1
    <3>2. CASE n \in Names
      BY <1>4, <3>2, NamedTables
    <3> QED  BY <1>4, <3>1, <3>2
  <2>3. \A y \in FunctionAt(n)'.scope : a[y] \in Values
    BY <2>2 DEF Table, Assignments
  <2> QED  BY <2>1, <2>2, <2>3, TableValue
<1>7. v \in [Names' -> Known]
  <2>1. v = [n \in Names' |-> v[n]]
    BY DEF Factor
  <2> QED  BY <1>6, <2>1
<1>8. ASSUME NEW K \in SUBSET Names'
      PROVE  ProductOf(Family(K), a)' = Product(Part(v, K))
  <2>1. Family(K)' = [n \in K |-> FunctionAt(n)']
    BY DEF Family
  <2>2. DOMAIN Family(K)' = K /\ \A n \in K : Family(K)'[n] = FunctionAt(n)'
    BY <2>1
  <2>3. [n \in DOMAIN Family(K)' |-> Value(Family(K)'[n], a)] = [n \in K |-> Value(FunctionAt(n)', a)]
    BY <2>2
  <2>4. [n \in K |-> Value(FunctionAt(n)', a)] = Part(v, K)
    BY <1>6 DEF Part
  <2>5. ProductOf(Family(K), a)' = Product([n \in DOMAIN Family(K)' |-> Value(Family(K)'[n], a)])
    BY DEF ProductOf
  <2> QED  BY <2>3, <2>4, <2>5
<1>9. ASSUME NEW K \in SUBSET Names
      PROVE  Part(v, K) = Part(Factor(a), K) /\ ProductOf(Family(K), a) = Product(Part(v, K))
  <2>1. \A n \in K : Factor(a)[n] = Value(FunctionAt(n), a)
    BY DEF Factor
  <2>2. \A n \in K : v[n] = Value(FunctionAt(n), a)
    BY <1>4, <1>6
  <2>3. Part(Factor(a), K) = Part(v, K)
    BY <2>1, <2>2 DEF Part
  <2> QED  BY <2>3, NamedFactors
<1>10. Part(v, W) = [n \in W |-> Value(ms[n[2]], a)]
  BY <1>4, <1>6 DEF Part
<1> QED  BY <1>4, <1>5, <1>7, <1>8, <1>9, <1>10

(* A bucket replaces its functions by messages whose product bounds theirs *)
(* from above.                                                             *)
LEMMA AccountedNext ==
  ASSUME Sound, Delivered, Accounted, NEW x \in Vars \cap todo, Below(x) \cap todo = {},
         NEW ms, IsFiniteSet(DOMAIN ms),
         \A i \in DOMAIN ms : Table(ms[i], Vars) /\ ms[i].scope \subseteq Ancestors(best, x),
         NEW W, SentFrom(x, ms, W),
         \A a \in Assignments(Vars) :
           ~Greater(Product(Part(Factor(a), Collected(x))), Product([n \in W |-> Value(ms[n[2]], a)]))
  PROVE  Accounted'
<1>1. Vars' = Vars /\ TreeNodes' = TreeNodes
  BY DEF SentFrom, Vars, TreeNodes, Dummy
<1> SUFFICES ASSUME NEW a \in Assignments(Vars), NEW z \in TreeNodes
             PROVE  ~Greater(ProductOf(Family(GivenTo(Done \cap Below(z))), a)',
                             ProductOf(Family(Pending(z)), a)')
  BY <1>1 DEF Accounted, AccountedAt
<1>2. PICK v, K, L, D, R : /\ v = Factor(a)'
                           /\ K = GivenTo(Done \cap Below(z))' /\ L = Pending(z)'
                           /\ D = GivenTo(Done \cap Below(z)) /\ R = Pending(z)
  OBVIOUS
<1> DEFINE P(Y) == Product(Part(v, Y))
           A == augmented[x]
           B == R \ A
<1>3. /\ Names' = Names \cup W /\ IsFiniteSet(Names') /\ v \in [Names' -> Known]
      /\ \A Y \in SUBSET Names' : ProductOf(Family(Y), a)' = P(Y)
      /\ \A Y \in SUBSET Names :
           Part(v, Y) = Part(Factor(a), Y) /\ ProductOf(Family(Y), a) = P(Y)
      /\ Part(v, W) = [n \in W |-> Value(ms[n[2]], a)]
  BY <1>2, FactorsNext
<1>4. /\ D \in SUBSET Names /\ R \in SUBSET Names
      /\ x \notin Below(z) => K = D /\ L = R
      /\ x \in Below(z) =>
           /\ K = D \cup Given(x) /\ D \cap Given(x) = {} /\ L = B \cup W /\ A \subseteq R
           /\ Given(x) \cap A = {} /\ B \cap W = {}
  BY <1>2, PendingNext
<1>5. Given(x) \in SUBSET Names
  BY NamedTables
<1>6. /\ ProductOf(Family(GivenTo(Done \cap Below(z))), a)' = ProductOf(Family(K), a)'
      /\ ProductOf(Family(Pending(z)), a)' = ProductOf(Family(L), a)'
  BY <1>2 DEF Family, ProductOf
<1>7. K \in SUBSET Names' /\ L \in SUBSET Names'
  BY <1>3, <1>4, <1>5
<1>8. ~Greater(P(D), P(R))
  <2>1. ~Greater(ProductOf(Family(D), a), ProductOf(Family(R), a))
    BY <1>2 DEF Accounted, AccountedAt
  <2> QED  BY <1>3, <1>4, <2>1
<1> SUFFICES ~Greater(P(K), P(L))
  BY <1>3, <1>6, <1>7
<1>9. CASE x \notin Below(z)
  BY <1>4, <1>8, <1>9
<1>10. CASE x \in Below(z)
  <2>1. ~Greater(P(Given(x) \cup A), P(W))
    <3>1. ~Greater(Product(Part(Factor(a), Collected(x))), Product([n \in W |-> Value(ms[n[2]], a)]))
      OBVIOUS
    <3>2. Collected(x) = Given(x) \cup A /\ Collected(x) \in SUBSET Names
      BY <1>4, <1>5, <1>10 DEF Collected
    <3>3. Part(Factor(a), Collected(x)) = Part(v, Given(x) \cup A)
      BY <1>3, <3>2
    <3> QED  BY <1>3, <3>1, <3>3
  <2>2. /\ R = B \cup A /\ B \cap A = {}
        /\ D \in SUBSET Names' /\ Given(x) \in SUBSET Names' /\ A \in SUBSET Names'
        /\ B \in SUBSET Names' /\ W \in SUBSET Names'
    BY <1>3, <1>4, <1>5, <1>10
  <2>3. ~Greater(P(D), P(B \cup A))
    BY <1>8, <2>2
  <2>4. D \cap Given(x) = {} /\ Given(x) \cap A = {} /\ B \cap W = {}
    BY <1>4, <1>10
  <2> HIDE DEF A, B
  <2>5. ~Greater(P(D \cup Given(x)), P(B \cup W))
    BY <1>3, <2>1, <2>2, <2>3, <2>4, FactorsReplaced
  <2> QED  BY <1>4, <1>10, <2>5 DEF B
<1> QED  BY <1>9, <1>10

(* Functions have the same values where assignments agree on their scopes. *)
LEMMA SameFactors ==
  ASSUME Sound, Delivered, NEW a \in Assignments(Vars), NEW b \in Assignments(Vars),
         NEW K \in SUBSET Names, \A n \in K : \A y \in FunctionAt(n).scope : a[y] = b[y]
  PROVE  Part(Factor(a), K) = Part(Factor(b), K)
<1>1. ASSUME NEW n \in K
      PROVE  Factor(a)[n] = Factor(b)[n]
  <2>1. Table(FunctionAt(n), Vars)
    BY NamedTables
  <2>2. \A y \in FunctionAt(n).scope : a[y] \in Values
    BY <2>1 DEF Table, Assignments
  <2>3. Value(FunctionAt(n), a) = Value(FunctionAt(n), b)
    BY <2>1, <2>2, TableValue
  <2> QED  BY <2>3 DEF Factor
<1> QED  BY <1>1 DEF Part

(* The messages w of a bucket are worth no more than its functions, which  *)
(* are given (g) or messages (m), and what was pending (p and m) no more   *)
(* than the functions below (d).                                           *)
LEMMA WorthReplaced ==
  ASSUME NEW p \in Known, NEW w \in Known, NEW g \in Known, NEW m \in Known, NEW d \in Known,
         ~Greater(w, Times(g, m)), ~Greater(Times(p, m), d)
  PROVE  ~Greater(Times(p, w), Times(d, g))
<1>1. p \in Cost /\ w \in Cost /\ g \in Cost /\ m \in Cost /\ Times(g, m) \in Known
      /\ Times(p, m) \in Known /\ Times(d, g) \in Known /\ Times(p, w) \in Cost
      /\ Times(p, m) \in Cost
  BY TimesLaws
<1>2. ~Greater(p, p) /\ ~Greater(g, g)
  BY <1>1, NeverGreater
<1>3. ~Greater(Times(p, w), Times(p, Times(g, m)))
  BY <1>1, <1>2, TimesBelow
<1>4. Times(p, Times(g, m)) = Times(Times(p, m), g) /\ Times(p, Times(g, m)) \in Known
  BY <1>1, TimesLaws
<1>5. ~Greater(Times(Times(p, m), g), Times(d, g))
  BY <1>1, <1>2, TimesBelow
<1> QED  BY <1>1, <1>3, <1>4, <1>5, AtMostTransitive

(* If the messages of a bucket are worth no more than its functions, for   *)
(* some value of its variable, then so is what is pending afterwards.      *)
LEMMA AttainedNext ==
  ASSUME Sound, Delivered, Attained, NEW x \in Vars \cap todo, Below(x) \cap todo = {},
         NEW ms, IsFiniteSet(DOMAIN ms),
         \A i \in DOMAIN ms : Table(ms[i], Vars) /\ ms[i].scope \subseteq Ancestors(best, x),
         NEW W, SentFrom(x, ms, W),
         \A a \in Assignments(Vars) : \E c \in Assignments(Vars) :
           /\ \A y \in Vars \ {x} : c[y] = a[y]
           /\ ~Greater(Product([n \in W |-> Value(ms[n[2]], a)]),
                       Product(Part(Factor(c), Collected(x))))
  PROVE  Attained'
<1>1. /\ Vars' = Vars /\ TreeNodes' = TreeNodes /\ Done' = Done \cup {x} /\ x \notin Done
      /\ \A z : Below(z)' = Below(z)
  <2>1. Done' = Done \cup {x}
    BY DeliveredNext
  <2> QED  BY <2>1 DEF SentFrom, Vars, TreeNodes, Dummy, Below, Ancestors, Done
<1> SUFFICES ASSUME NEW a \in Assignments(Vars), NEW z \in TreeNodes
             PROVE  AttainedAt(a, z)'
  BY <1>1 DEF Attained
<1>2. PICK K, L, D, R, E : /\ K = GivenTo(Done \cap Below(z))' /\ L = Pending(z)'
                           /\ D = GivenTo(Done \cap Below(z)) /\ R = Pending(z)
                           /\ E = Done \cap Below(z)
  OBVIOUS
<1>3. /\ D \in SUBSET Names /\ R \in SUBSET Names
      /\ x \notin Below(z) => K = D /\ L = R
      /\ x \in Below(z) =>
           /\ K = D \cup Given(x) /\ D \cap Given(x) = {}
           /\ L = (R \ augmented[x]) \cup W /\ augmented[x] \subseteq R
           /\ Given(x) \cap augmented[x] = {} /\ (R \ augmented[x]) \cap W = {}
           /\ \A n \in R \ augmented[x] : x \notin FunctionAt(n).scope
  BY <1>2, PendingNext
<1> DEFINE P(c, Y) == Product(Part(Factor(c), Y))
<1>4. /\ Given(x) \in SUBSET Names /\ Collected(x) \in SUBSET Names /\ IsFiniteSet(Names)
      /\ \A n \in Names : FunctionAt(n).scope \subseteq Vars
      /\ \A n \in Collected(x) : FunctionAt(n).scope \subseteq Ancestors(best, x) \cup {x}
  BY NamedTables DEF Table
<1>5. ASSUME NEW c \in Assignments(Vars)
      PROVE  /\ Factor(c) \in [Names -> Known]
             /\ \A Y \in SUBSET Names : ProductOf(Family(Y), c) = P(c, Y)
             /\ \A Y \in SUBSET Names : ProductOf(Family(Y), c)' = P(c, Y)
  <2>1. PICK v : v = Factor(c)'
    OBVIOUS
  <2>2. /\ Names' = Names \cup W
        /\ \A Y \in SUBSET Names' : ProductOf(Family(Y), c)' = Product(Part(v, Y))
        /\ \A Y \in SUBSET Names : Part(v, Y) = Part(Factor(c), Y)
    BY <2>1, FactorsNext
  <2>3. \A Y \in SUBSET Names : ProductOf(Family(Y), c)' = P(c, Y)
    BY <2>2
  <2> QED  BY <2>3, NamedFactors
<1>6. ASSUME NEW b \in Assignments(Vars), \A y \in Vars \ (Done \cap Below(z))' : b[y] = a[y],
             ~Greater(ProductOf(Family(L), a)', P(b, K)), K \in SUBSET Names
      PROVE  AttainedAt(a, z)'
  <2>1. /\ ProductOf(Family(GivenTo(Done \cap Below(z))), b)' = ProductOf(Family(K), b)'
        /\ ProductOf(Family(Pending(z)), a)' = ProductOf(Family(L), a)'
    BY <1>2 DEF Family, ProductOf
  <2>2. ProductOf(Family(K), b)' = P(b, K)
    BY <1>5, <1>6
  <2>3. ~Greater(ProductOf(Family(Pending(z)), a)', ProductOf(Family(GivenTo(Done \cap Below(z))), b)')
    BY <1>6, <2>1, <2>2
  <2> QED  BY <1>1, <1>6, <2>3 DEF AttainedAt
<1>7. ASSUME NEW c \in Assignments(Vars)
      PROVE  \E b \in Assignments(Vars) :
               (\A y \in Vars \ E : b[y] = c[y]) /\ ~Greater(P(c, R), P(b, D))
  <2>1. AttainedAt(c, z)
    BY DEF Attained
  <2>2. PICK b \in Assignments(Vars) :
          /\ \A y \in Vars \ E : b[y] = c[y]
          /\ ~Greater(ProductOf(Family(R), c), ProductOf(Family(D), b))
    BY <1>2, <2>1 DEF AttainedAt
  <2>3. ProductOf(Family(R), c) = P(c, R) /\ ProductOf(Family(D), b) = P(b, D)
    BY <1>3, <1>5
  <2> QED  BY <2>2, <2>3
<1>8. CASE x \notin Below(z)
  <2>1. PICK b \in Assignments(Vars) :
          (\A y \in Vars \ E : b[y] = a[y]) /\ ~Greater(P(a, R), P(b, D))
    BY <1>7
  <2>2. (Done \cap Below(z))' = E
    BY <1>1, <1>2, <1>8
  <2>3. ProductOf(Family(L), a)' = P(a, R) /\ K = D
    BY <1>3, <1>5, <1>8
  <2> QED  BY <1>3, <1>6, <2>1, <2>2, <2>3
<1>9. CASE x \in Below(z)
  <2> DEFINE A == augmented[x]
             B == R \ A
  <2>1. /\ K = D \cup Given(x) /\ D \cap Given(x) = {} /\ L = B \cup W /\ A \subseteq R
        /\ Given(x) \cap A = {} /\ B \cap W = {} /\ \A n \in B : x \notin FunctionAt(n).scope
        /\ Collected(x) = Given(x) \cup A /\ R = B \cup A /\ B \cap A = {}
        /\ A \in SUBSET Names /\ B \in SUBSET Names /\ K \in SUBSET Names
    BY <1>3, <1>4, <1>9 DEF Collected
  <2> HIDE DEF A, B, P
  <2>2. PICK c \in Assignments(Vars) :
          /\ \A y \in Vars \ {x} : c[y] = a[y]
          /\ ~Greater(Product([n \in W |-> Value(ms[n[2]], a)]), P(c, Given(x) \cup A))
    BY <2>1 DEF P
  <2>3. PICK b \in Assignments(Vars) :
          (\A y \in Vars \ E : b[y] = c[y]) /\ ~Greater(P(c, B \cup A), P(b, D))
    BY <1>7, <2>1
  <2>4. P(a, B) = P(c, B)
    <3>1. \A n \in B : \A y \in FunctionAt(n).scope : a[y] = c[y]
      BY <1>4, <2>1, <2>2
    <3> QED  BY <2>1, <3>1, SameFactors DEF P
  <2>5. P(c, Given(x)) = P(b, Given(x))
    <3>1. \A y \in Ancestors(best, x) \cup {x} : y \notin E
      <4>1. \A y \in Done : x \notin Below(y)
        BY DEF Delivered
      <4> QED  BY <1>1, <1>2, <4>1 DEF Below
    <3>2. \A n \in Given(x) : \A y \in FunctionAt(n).scope : c[y] = b[y]
      BY <1>4, <2>1, <2>3, <3>1
    <3> QED  BY <1>4, <3>2, SameFactors DEF P
  <2>6. /\ P(c, B) \in Known /\ P(c, A) \in Known /\ P(c, Given(x)) \in Known
        /\ P(b, D) \in Known
        /\ P(c, B \cup A) = Times(P(c, B), P(c, A))
        /\ P(c, Given(x) \cup A) = Times(P(c, Given(x)), P(c, A))
        /\ P(b, K) = Times(P(b, D), P(b, Given(x)))
    <3>1. ASSUME NEW e \in Assignments(Vars)
          PROVE  \A X, Y \in SUBSET Names : X \cap Y = {} =>
                   P(e, X) \in Known /\ P(e, X \cup Y) = Times(P(e, X), P(e, Y))
      <4>1. PICK f \in [Names -> Known] : f = Factor(e)
        BY <1>5
      <4>2. \A X, Y \in SUBSET Names : X \cap Y = {} =>
              /\ Product(Part(f, X)) \in Known /\ Product(Part(f, Y)) \in Known
              /\ Product(Part(f, X \cup Y)) = Times(Product(Part(f, X)), Product(Part(f, Y)))
        BY <1>4, ProductOfTwo
      <4> QED  BY <4>1, <4>2 DEF P
    <3>2. P(c, A) \in Known
      <4>1. A \cup {} = A /\ A \cap {} = {} /\ {} \in SUBSET Names
        OBVIOUS
      <4> QED  BY <2>1, <3>1, <4>1
    <3> QED  BY <1>3, <1>4, <2>1, <3>1, <3>2
  <2>7. /\ ProductOf(Family(L), a)' = Times(P(a, B), Product([n \in W |-> Value(ms[n[2]], a)]))
        /\ Product([n \in W |-> Value(ms[n[2]], a)]) \in Known
    <3>1. PICK v, M : v = Factor(a)' /\ M = Names'
      OBVIOUS
    <3>2. /\ M = Names \cup W /\ IsFiniteSet(M) /\ v \in [M -> Known]
          /\ \A Y \in SUBSET M : ProductOf(Family(Y), a)' = Product(Part(v, Y))
          /\ \A Y \in SUBSET Names : Part(v, Y) = Part(Factor(a), Y)
          /\ Part(v, W) = [n \in W |-> Value(ms[n[2]], a)]
      BY <3>1, FactorsNext
    <3>3. B \in SUBSET M /\ W \in SUBSET M /\ L \in SUBSET M
      BY <2>1, <3>2
    <3>4. /\ Product(Part(v, W)) \in Known
          /\ Product(Part(v, B \cup W)) = Times(Product(Part(v, B)), Product(Part(v, W)))
      <4>1. IsFiniteSet(M) /\ v \in [M -> Known]
        BY <3>2
      <4>2. \A X, Y \in SUBSET M : X \cap Y = {} =>
              /\ Product(Part(v, X)) \in Known /\ Product(Part(v, Y)) \in Known
              /\ Product(Part(v, X \cup Y)) = Times(Product(Part(v, X)), Product(Part(v, Y)))
        BY <4>1, ProductOfTwo
      <4> QED  BY <2>1, <3>3, <4>2
    <3>5. Product(Part(v, B)) = P(a, B)
      BY <2>1, <3>2 DEF P
    <3> QED  BY <2>1, <3>2, <3>3, <3>4, <3>5
  <2>8. ~Greater(ProductOf(Family(L), a)', P(b, K))
    <3>1. PICK w : w = Product([n \in W |-> Value(ms[n[2]], a)])
      OBVIOUS
    <3>2. /\ w \in Known /\ ~Greater(w, Times(P(c, Given(x)), P(c, A)))
          /\ ~Greater(Times(P(c, B), P(c, A)), P(b, D))
      BY <2>2, <2>3, <2>6, <2>7, <3>1
    <3>3. ~Greater(Times(P(c, B), w), Times(P(b, D), P(c, Given(x))))
      BY <2>6, <3>2, WorthReplaced
    <3> QED  BY <2>4, <2>5, <2>6, <2>7, <3>1, <3>3
  <2>9. \A y \in Vars \ (Done \cap Below(z))' : b[y] = a[y]
    <3>1. (Done \cap Below(z))' = E \cup {x}
      BY <1>1, <1>2, <1>9
    <3> QED  BY <2>2, <2>3, <3>1
  <2> QED  BY <1>6, <2>1, <2>8, <2>9
<1> QED  BY <1>8, <1>9

(* If all messages are about neighbours, so is what a bucket has collected *)
(* but for its own variable, and one mini-bucket has room for it.          *)
LEMMA NarrowBucket ==
  ASSUME Sound, Delivered, NEW N, Neighbours(N, Vars, best, Scopes(problem)),
         \A n \in DOMAIN sent : sent[n].scope \subseteq N[n[1]], NEW x \in Vars
  PROVE  \A K \in SUBSET Collected(x) :
           /\ ScopeOf(K) \subseteq N[x] \cup {x}
           /\ IsAccurate /\ ibound \in Nat => Cardinality(ScopeOf(K)) <= ibound + 1
<1>1. ASSUME NEW n \in Collected(x)
      PROVE  FunctionAt(n).scope \subseteq N[x] \cup {x}
  <2>1. CASE n \in Given(x)
    <3>1. PICK i \in DOMAIN problem.functions :
            n = <<GIVEN, i>> /\ Owner(best, problem.functions[i]) = x
      BY <2>1 DEF Given, FunctionsOf
    <3> DEFINE f == problem.functions[i]
    <3>2. FunctionAt(n) = f
      BY <3>1 DEF FunctionAt
    <3>3. f.scope # {} /\ x = Earliest(best.order, f.scope)
      BY <3>1 DEF Owner, Earliest, Sound
    <3>4. f.scope \in Scopes(problem)
      BY <3>3 DEF Scopes
    <3> QED  BY <3>2, <3>3, <3>4 DEF Neighbours
  <2>2. CASE n \in augmented[x]
    <3>1. n \in DOMAIN sent /\ Target(n[1], sent[n]) = x
      BY <2>2 DEF Delivered, TreeNodes, Dest
    <3>2. n[1] \in Vars /\ sent[n].scope \subseteq Ancestors(best, n[1])
      BY <3>1 DEF Delivered
    <3>3. /\ sent[n].scope \subseteq Ancestors(best, x) \cup {x}
          /\ sent[n].scope # {} => x \in sent[n].scope
      BY <3>1, <3>2, TargetAbove
    <3>4. ASSUME NEW w \in sent[n].scope, w # x
          PROVE  w \in N[x]
      <4>1. w \in N[n[1]] /\ x \in N[n[1]] /\ w \in best.above[x]
        BY <3>1, <3>3, <3>4 DEF Ancestors
      <4> QED  BY <3>2, <4>1 DEF Neighbours
    <3>5. FunctionAt(n) = sent[n]
      BY <3>1, NamedTables
    <3> QED  BY <3>4, <3>5
  <2> QED  BY <2>1, <2>2 DEF Collected
<1>2. ASSUME NEW K \in SUBSET Collected(x)
      PROVE  ScopeOf(K) \subseteq N[x] \cup {x}
  <2>1. DOMAIN Family(K) = K /\ \A n \in K : Family(K)[n] = FunctionAt(n)
    BY DEF Family
  <2> QED  BY <1>1, <2>1 DEF ScopeOf, JointScope
<1>3. ASSUME IsAccurate, ibound \in Nat, NEW S \in SUBSET (N[x] \cup {x})
      PROVE  Cardinality(S) <= ibound + 1
  <2>1. N[x] \in SUBSET Vars /\ Cardinality(N[x]) <= best.width /\ best.width \in Int
    BY DEF Neighbours
  <2>2. IsFiniteSet(N[x])
    BY <2>1, FS_Subset DEF Sound
  <2>3. /\ IsFiniteSet(N[x] \cup {x}) /\ Cardinality(N[x]) \in Nat
        /\ Cardinality(N[x] \cup {x}) <= Cardinality(N[x]) + 1
    <3>1. Cardinality(N[x]) \in Nat
      BY <2>2, FS_CardinalityType
    <3>2. /\ IsFiniteSet(N[x] \cup {x})
          /\ Cardinality(N[x] \cup {x}) =
               IF x \in N[x] THEN Cardinality(N[x]) ELSE Cardinality(N[x]) + 1
      BY <2>2, FS_AddElement
    <3> QED  BY <3>1, <3>2
  <2>4. /\ IsFiniteSet(S) /\ Cardinality(S) \in Nat
        /\ Cardinality(N[x] \cup {x}) \in Nat /\ Cardinality(S) <= Cardinality(N[x] \cup {x})
    BY <2>3, FS_Subset, FS_CardinalityType
  <2>5. best.width <= ibound
    BY <1>3 DEF IsAccurate
  <2> QED  BY <1>3, <2>1, <2>3, <2>4, <2>5
<1> QED  BY <1>2, <1>3

(* SendMessages.                                                           *)
LEMMA SendStep ==
  ASSUME Sound, Delivered, Partitioned, Accounted, SendMessages
  PROVE  /\ Delivered' /\ Accounted' /\ stage' = "bucket"
         /\ Narrow /\ Attained => Narrow' /\ Attained'
<1>1. stage = "send" /\ stage' = "bucket"
  BY DEF SendMessages
<1>2. PICK ms : ms = Messages(bucket) /\
        LET new == {<<bucket, i>> : i \in DOMAIN ms}
        IN  /\ sent' = [n \in DOMAIN sent \cup new |-> IF n \in new THEN ms[n[2]] ELSE sent[n]]
            /\ augmented' = [y \in TreeNodes |->
                  augmented[y] \cup {n \in new : Target(bucket, ms[n[2]]) = y}]
            /\ intermediate' = [y \in TreeNodes |->
                  intermediate[y] \cup {n \in new : y \in PassedOn(bucket, ms[n[2]])}]
  BY DEF SendMessages
<1> DEFINE W == {<<bucket, i>> : i \in DOMAIN ms}
<1>3. SentFrom(bucket, ms, W)
  BY <1>2 DEF SentFrom, SendMessages
<1>4. /\ bucket \in Vars \cap todo /\ Below(bucket) \cap todo = {} /\ unplaced = {}
      /\ Disjoint(minibuckets)
      /\ UNION {minibuckets[i] : i \in DOMAIN minibuckets} = Collected(bucket)
  BY <1>1 DEF Partitioned
<1>5. /\ DOMAIN ms = DOMAIN minibuckets /\ IsFiniteSet(DOMAIN ms)
      /\ \A i \in DOMAIN ms :
           /\ minibuckets[i] \in SUBSET Names
           /\ Table(ms[i], Vars) /\ ms[i].scope \subseteq Ancestors(best, bucket)
           /\ ms[i].scope = ScopeOf(minibuckets[i]) \ {bucket}
           /\ \A a \in Assignments(Vars) :
                /\ ~Greater(Product(Part(Factor(a), minibuckets[i])), Value(ms[i], a))
                /\ \E c \in Assignments(Vars) :
                     /\ \A y \in Vars \ {bucket} : c[y] = a[y]
                     /\ ~Greater(Value(ms[i], a), Product(Part(Factor(c), minibuckets[i])))
  BY <1>1, <1>2, MessagesBound
<1>6. \A n \in W : n[1] = bucket /\ n[2] \in DOMAIN ms
  OBVIOUS
<1>7. \A i \in DOMAIN ms : <<bucket, i>> \in W /\ <<bucket, i>>[2] = i
  OBVIOUS
<1>8. \A n, m \in W : n # m => n[2] # m[2]
  OBVIOUS
<1>9. IsFiniteSet(W)
  <2> DEFINE name == [i \in DOMAIN ms |-> <<bucket, i>>]
  <2>1. W = {name[i] : i \in DOMAIN ms}
    OBVIOUS
  <2> HIDE DEF name, W
  <2> QED  BY <1>5, <2>1, FiniteImage
<1> HIDE DEF W
<1>10. ASSUME NEW a \in Assignments(Vars)
       PROVE  ~Greater(Product(Part(Factor(a), Collected(bucket))),
                       Product([n \in W |-> Value(ms[n[2]], a)]))
  <2> DEFINE part == [n \in W |-> minibuckets[n[2]]]
             g == [n \in W |-> Value(ms[n[2]], a)]
             f == Factor(a)
  <2>1. part \in [W -> SUBSET Names]
    BY <1>5, <1>6
  <2>2. \A n, m \in W : n # m => part[n] \cap part[m] = {}
    BY <1>4, <1>5, <1>6, <1>8 DEF Disjoint
  <2>3. ASSUME NEW n \in W  PROVE Value(ms[n[2]], a) \in Known
    <3>1. Table(ms[n[2]], Vars)
      BY <1>5, <1>6
    <3>2. \A y \in ms[n[2]].scope : a[y] \in Values
      BY <3>1 DEF Table, Assignments
    <3> QED  BY <3>1, <3>2, TableValue
  <2>4. g \in [W -> Known]
    BY <2>3
  <2>5. \A n \in W : ~Greater(Product(Part(f, part[n])), g[n])
    BY <1>5, <1>6
  <2>6. f \in [Names -> Known] /\ IsFiniteSet(Names)
    BY NamedTables, NamedFactors
  <2>7. UNION {part[n] : n \in W} = Collected(bucket)
    <3>1. \A n \in W : part[n] = minibuckets[n[2]] /\ n[2] \in DOMAIN minibuckets
      BY <1>5, <1>6
    <3>2. \A i \in DOMAIN minibuckets : <<bucket, i>> \in W /\ part[<<bucket, i>>] = minibuckets[i]
      BY <1>5, <1>7
    <3> HIDE DEF part
    <3>3. UNION {part[n] : n \in W} = UNION {minibuckets[i] : i \in DOMAIN minibuckets}
      <4>1. \A y : y \in UNION {part[n] : n \in W} <=> \E n \in W : y \in part[n]
        OBVIOUS
      <4>2. \A y : y \in UNION {minibuckets[i] : i \in DOMAIN minibuckets}
                 <=> \E i \in DOMAIN minibuckets : y \in minibuckets[i]
        OBVIOUS
      <4>3. \A y : (\E n \in W : y \in part[n]) <=> \E i \in DOMAIN minibuckets : y \in minibuckets[i]
        BY <3>1, <3>2
      <4> QED  BY <4>1, <4>2, <4>3
    <3> QED  BY <1>4, <3>3
  <2> HIDE DEF part, g, f
  <2>8. ~Greater(Product(Part(f, UNION {part[n] : n \in W})), Product(g))
    BY <1>9, <2>1, <2>2, <2>4, <2>5, <2>6, ProductOfParts
  <2> QED  BY <2>7, <2>8 DEF f, g
<1>11. Delivered' /\ Accounted'
  <2>1. bucket \in Vars \cap todo /\ Below(bucket) \cap todo = {} /\ IsFiniteSet(DOMAIN ms)
    BY <1>4, <1>5
  <2>2. \A i \in DOMAIN ms : Table(ms[i], Vars) /\ ms[i].scope \subseteq Ancestors(best, bucket)
    BY <1>5
  <2>3. Delivered'
    BY <1>3, <2>1, <2>2, DeliveredNext
  <2>4. Accounted'
    BY <1>3, <1>10, <2>1, <2>2, AccountedNext
  <2> QED  BY <2>3, <2>4
<1>12. ASSUME Narrow, Attained
       PROVE  Narrow' /\ Attained'
  <2>1. \A i \in DOMAIN ms : Table(ms[i], Vars) /\ ms[i].scope \subseteq Ancestors(best, bucket)
    BY <1>5
  <2>2. Attained'
    <3>1. ASSUME NEW a \in Assignments(Vars)
          PROVE  \E c \in Assignments(Vars) :
                   /\ \A y \in Vars \ {bucket} : c[y] = a[y]
                   /\ ~Greater(Product([n \in W |-> Value(ms[n[2]], a)]),
                               Product(Part(Factor(c), Collected(bucket))))
      <4> DEFINE g == [n \in W |-> Value(ms[n[2]], a)]
      <4>1. DOMAIN minibuckets = 1 .. Len(minibuckets) /\ Len(minibuckets) \in Nat
            /\ Len(minibuckets) <= 1
        BY <1>1, <1>12, LenProperties DEF Partitioned, Narrow
      <4>2. CASE DOMAIN minibuckets = {}
        <5>1. Collected(bucket) = {} /\ W = {}
          BY <1>4, <1>5, <1>6, <4>2
        <5>2. Product(g) = ELEM_ONE /\ Product(Part(Factor(a), Collected(bucket))) = ELEM_ONE
          BY <5>1, NoFactors DEF Part
        <5>3. ~Greater(ELEM_ONE, ELEM_ONE)
          BY TimesLaws, NeverGreater
        <5> QED  BY <5>2, <5>3
      <4>3. CASE DOMAIN minibuckets = {1}
        <5>1. Collected(bucket) = minibuckets[1]
          BY <1>4, <4>3
        <5> DEFINE m == <<bucket, 1>>
        <5>2. W = {m} /\ m[2] = 1 /\ 1 \in DOMAIN ms
          BY <1>5, <1>6, <1>7, <4>3 DEF W
        <5>3. Value(ms[1], a) \in Known
          <6>1. Table(ms[1], Vars)
            BY <1>5, <5>2
          <6>2. \A y \in ms[1].scope : a[y] \in Values
            BY <6>1 DEF Table, Assignments
          <6> QED  BY <6>1, <6>2, TableValue
        <5>4. Product(g) = Value(ms[1], a)
          <6> HIDE DEF m
          <6>1. g \in [W -> Known] /\ g[m] = Value(ms[1], a)
            BY <5>2, <5>3
          <6> HIDE DEF g
          <6>2. g \in [W -> Cost] /\ g[m] \in Cost
            BY <5>2, <6>1, TimesLaws
          <6>3. Part(g, W) = g /\ Part(g, W \ {m}) = Part(g, {})
            BY <5>2, <6>2 DEF Part
          <6>4. Product(Part(g, W)) = Times(g[m], Product(Part(g, W \ {m})))
            BY <1>9, <5>2, <6>2, ProductSplit
          <6>5. Product(Part(g, {})) = ELEM_ONE
            BY NoFactors DEF Part
          <6>6. Times(g[m], ELEM_ONE) = g[m]
            BY <6>2, TimesLaws
          <6> QED  BY <6>1, <6>3, <6>4, <6>5, <6>6
        <5>5. PICK c \in Assignments(Vars) :
                /\ \A y \in Vars \ {bucket} : c[y] = a[y]
                /\ ~Greater(Value(ms[1], a), Product(Part(Factor(c), minibuckets[1])))
          BY <1>5, <5>2
        <5> QED  BY <5>1, <5>4, <5>5
      <4> QED  BY <4>1, <4>2, <4>3
    <3>2. bucket \in Vars \cap todo /\ Below(bucket) \cap todo = {} /\ IsFiniteSet(DOMAIN ms)
      BY <1>4, <1>5
    <3> QED  BY <1>3, <1>12, <2>1, <3>1, <3>2, AttainedNext
  <2>3. Narrow'
    <3>1. /\ Vars' = Vars /\ Scopes(problem)' = Scopes(problem) /\ best' = best
          /\ ibound' = ibound /\ Vars' = Vars
      BY DEF SendMessages, Vars
    <3>2. DOMAIN sent' = DOMAIN sent \cup W
      BY <1>3 DEF SentFrom
    <3>3. ASSUME NEW N, Neighbours(N, Vars, best, Scopes(problem)), NEW n \in DOMAIN sent \cup W
          PROVE  sent'[n].scope \subseteq N[n[1]]
      <4>1. \A k \in DOMAIN sent : sent[k].scope \subseteq N[k[1]]
        BY <1>12, <3>3 DEF Narrow
      <4>2. CASE n \in W
        <5>1. sent'[n] = ms[n[2]] /\ n[1] = bucket /\ n[2] \in DOMAIN ms
          BY <1>3, <1>6, <4>2 DEF SentFrom
        <5>2. PICK i \in DOMAIN ms : i = n[2]
          BY <5>1
        <5>3. minibuckets[i] \in SUBSET Collected(bucket)
          BY <1>4, <1>5
        <5>4. ScopeOf(minibuckets[i]) \subseteq N[bucket] \cup {bucket}
          BY <1>4, <3>3, <4>1, <5>3, NarrowBucket
        <5> QED  BY <1>5, <5>1, <5>2, <5>4
      <4>3. CASE n \notin W
        BY <1>3, <3>3, <4>1, <4>3 DEF SentFrom
      <4> QED  BY <4>2, <4>3
    <3> QED  BY <1>1, <1>12, <3>1, <3>2, <3>3 DEF Narrow
  <2> QED  BY <2>2, <2>3
<1> QED  BY <1>1, <1>11, <1>12

(* Where no message is sent the account does not change.                   *)
LEMMA AccountStays ==
  ASSUME Sound, Delivered, Accounted,
         UNCHANGED <<problem, primal, best, sent, augmented, intermediate>>,
         todo' = todo \/ (todo = {Dummy} /\ todo' = {})
  PROVE  Delivered' /\ Accounted' /\ (Attained => Attained')
<1>1. /\ Vars' = Vars /\ TreeNodes' = TreeNodes
      /\ \A z : Below(z)' = Below(z) /\ Below(z) \subseteq Vars
      /\ \A S : GivenTo(S)' = GivenTo(S)
      /\ \A n : Dest(n)' = Dest(n) /\ FunctionAt(n)' = FunctionAt(n)
      /\ \A n : Ancestors(best, n)' = Ancestors(best, n)
      /\ \A y, m : PassedOn(y, m)' = PassedOn(y, m)
  BY DEF Vars, Dummy, TreeNodes, Below, Ancestors, GivenTo, Given, FunctionsOf, Owner, Dest,
         Target, FunctionAt, PassedOn
<1>2. Dummy \notin Vars
  BY DEF Sound
<1>3. \A x \in Vars : x \in Done' <=> x \in Done
  BY <1>1, <1>2 DEF Done
<1>4. \A z : (Done' \cap Below(z)) = Done \cap Below(z)
  BY <1>1, <1>3
<1>5. Delivered'
  <2>1. todo' \subseteq TreeNodes' /\ IsFiniteSet(DOMAIN sent')
    BY <1>1 DEF Delivered
  <2>2. ASSUME NEW x \in Done'  PROVE Below(x)' \cap todo' = {}
    <3>1. CASE todo' = {}
      BY <3>1
    <3>2. CASE todo' = todo
      BY <1>1, <2>2, <3>2 DEF Done, Delivered
    <3> QED  BY <3>1, <3>2
  <2>3. \A n \in DOMAIN sent' :
          /\ n[1] \in Vars' \cap Done' /\ Table(sent'[n], Vars')
          /\ sent'[n].scope \subseteq Ancestors(best, n[1])'
    BY <1>1, <1>3 DEF Delivered
  <2>4. augmented' = [y \in TreeNodes' |-> {n \in DOMAIN sent' : Dest(n)' = y}]
    BY <1>1 DEF Delivered
  <2>5. intermediate' = [y \in TreeNodes' |-> {n \in DOMAIN sent' : y \in PassedOn(n[1], sent[n])'}]
    BY <1>1 DEF Delivered
  <2> QED  BY <2>1, <2>2, <2>3, <2>4, <2>5 DEF Delivered
<1>6. ASSUME NEW a \in Assignments(Vars), NEW z \in TreeNodes
      PROVE  AccountedAt(a, z)' /\ (AttainedAt(a, z) => AttainedAt(a, z)')
  <2>1. AccountedAt(a, z)
    BY DEF Accounted
  <2>2. GivenTo(Done \cap Below(z))' = GivenTo(Done \cap Below(z))
    BY <1>1, <1>4
  <2>3. Pending(z)' = Pending(z)
    BY <1>1, <1>4 DEF Pending
  <2>4. \A K : Family(K)' = Family(K)
    BY <1>1 DEF Family
  <2>5. /\ Family(GivenTo(Done \cap Below(z)))' = Family(GivenTo(Done \cap Below(z)))
        /\ Family(Pending(z))' = Family(Pending(z))
    BY <1>1, <2>2, <2>3 DEF Family
  <2>6. (Done \cap Below(z))' = Done \cap Below(z)
    BY <1>1, <1>4
  <2>7. AttainedAt(a, z) => AttainedAt(a, z)'
    BY <1>1, <2>5, <2>6 DEF AttainedAt
  <2> QED  BY <2>1, <2>5, <2>7 DEF AccountedAt
<1> QED  BY <1>1, <1>5, <1>6 DEF Accounted, Attained

(* StartBuckets: nothing is done yet.                                      *)
LEMMA StartStep ==
  ASSUME Sound, StartBuckets
  PROVE  Delivered' /\ Accounted' /\ Narrow' /\ Attained' /\ stage' = "bucket"
<1>1. /\ UNCHANGED <<problem, primal, best>> /\ stage' = "bucket" /\ todo' = TreeNodes
      /\ augmented' = [x \in TreeNodes |-> {}] /\ intermediate' = [x \in TreeNodes |-> {}]
      /\ sent' = <<>>
  BY DEF StartBuckets
<1>2. /\ Vars' = Vars /\ TreeNodes' = TreeNodes /\ DOMAIN sent' = {} /\ Done' = {}
  BY <1>1 DEF TreeNodes, Vars, Dummy, Done
<1>3. Delivered'
  <2>1. augmented' = [y \in TreeNodes' |-> {n \in DOMAIN sent' : Dest(n)' = y}]
    BY <1>1, <1>2
  <2>2. intermediate' = [y \in TreeNodes' |-> {n \in DOMAIN sent' : y \in PassedOn(n[1], sent[n])'}]
    BY <1>1, <1>2
  <2>3. IsFiniteSet(DOMAIN sent')
    BY <1>2, FS_EmptySet
  <2> QED  BY <1>1, <1>2, <2>1, <2>2, <2>3 DEF Delivered
<1>4. ASSUME NEW a \in Assignments(Vars), NEW z
      PROVE  AccountedAt(a, z)' /\ AttainedAt(a, z)'
  <2>1. GivenTo(Done \cap Below(z))' = {} /\ Pending(z)' = {}
    BY <1>2 DEF GivenTo, Pending
  <2>2. Family(GivenTo(Done \cap Below(z)))' = Family(Pending(z))'
    BY <2>1 DEF Family
  <2>3. ProductOf(Family(Pending(z)), a)' = ELEM_ONE
    <3>1. Family(Pending(z))' = [n \in {} |-> FunctionAt(n)']
      BY <2>1 DEF Family
    <3>2. DOMAIN Family(Pending(z))' = {}
      BY <3>1
    <3> QED  BY <3>2, NoFactors DEF ProductOf
  <2>4. ~Greater(ELEM_ONE, ELEM_ONE)
    BY TimesLaws, NeverGreater
  <2>5. AccountedAt(a, z)'
    BY <2>2, <2>3, <2>4 DEF AccountedAt, ProductOf
  <2>6. AttainedAt(a, z)'
    <3>1. a \in Assignments(Vars)'
      BY <1>2
    <3>2. ProductOf(Family(GivenTo(Done \cap Below(z))), a)' = ELEM_ONE
      BY <2>2, <2>3 DEF ProductOf
    <3> QED  BY <2>3, <2>4, <3>1, <3>2 DEF AttainedAt
  <2> QED  BY <2>5, <2>6
<1>5. Narrow'
  BY <1>1, <1>2, BucketAssumption DEF Narrow, StartBuckets
<1> QED  BY <1>1, <1>2, <1>3, <1>4, <1>5 DEF Accounted, Attained

(* OpenBucket: all functions of the bucket are still to be placed.         *)
LEMMA OpenStep ==
  ASSUME Sound, NEW x \in Vars, OpenBucket(x)
  PROVE  Partitioned' /\ stage' = "partition" /\ UNCHANGED todo
<1>1. /\ UNCHANGED <<problem, primal, best, todo, augmented>> /\ stage' = "partition"
      /\ bucket' = x /\ unplaced' = Collected(x) /\ minibuckets' = <<>>
      /\ x \in todo /\ Subtree(best, x) \cap todo = {x}
  BY DEF OpenBucket, IsNextBucket
<1>2. Vars' = Vars /\ Below(x)' = Below(x) /\ Collected(x)' = Collected(x)
  BY <1>1 DEF Vars, Dummy, Below, Ancestors, Collected, Given, FunctionsOf, Owner
<1>3. Below(x) \cap todo = {}
  <2>1. x \notin Ancestors(best, x)
    BY DEF Sound, Line, Ancestors
  <2> QED  BY <1>1, <2>1 DEF Subtree, Below
<1>4. /\ minibuckets' \in Seq(SUBSET Collected(x)) /\ DOMAIN minibuckets' = {}
  BY <1>1
<1>5. UNION {minibuckets'[i] : i \in DOMAIN minibuckets'} = {}
  BY <1>4
<1>6. Disjoint(minibuckets')
  BY <1>4 DEF Disjoint
<1> QED  BY <1>1, <1>2, <1>3, <1>4, <1>5, <1>6 DEF Partitioned

(* The mini-buckets r are mb with n put in one of them, maybe a new one.   *)
Placed(C, mb, n, r) ==
  /\ r \in Seq(SUBSET C) /\ DOMAIN mb \subseteq DOMAIN r
  /\ \E k \in DOMAIN r :
       /\ k \in DOMAIN mb => r[k] = mb[k] \cup {n}
       /\ k \notin DOMAIN mb => r[k] = {n}
       /\ \A i \in DOMAIN r : i # k => i \in DOMAIN mb /\ r[i] = mb[i]

(* First fit puts the function in one mini-bucket.                         *)
LEMMA PlacedOnce ==
  ASSUME NEW C, NEW n \in C, NEW mb \in Seq(SUBSET C), NEW r, r = FirstFit(mb, n)
  PROVE  Placed(C, mb, n, r)
<1> DEFINE fits == {i \in DOMAIN mb : AllowsFunction(mb[i], n)}
<1>1. DOMAIN mb = 1 .. Len(mb) /\ Len(mb) \in Nat /\ \A i \in DOMAIN mb : mb[i] \in SUBSET C
  BY LenProperties, ElementOfSeq
<1>2. r = IF fits = {} THEN Append(mb, {n}) ELSE [mb EXCEPT ![Min(fits)] = @ \cup {n}]
  BY DEF FirstFit
<1>3. CASE fits = {}
  <2>1. r = Append(mb, {n})
    BY <1>2, <1>3
  <2> HIDE DEF fits
  <2>2. /\ r \in Seq(SUBSET C) /\ DOMAIN r = 1 .. Len(mb) + 1
        /\ r[Len(mb) + 1] = {n} /\ \A i \in 1 .. Len(mb) : r[i] = mb[i]
    <3>1. {n} \in SUBSET C
      OBVIOUS
    <3> QED  BY <2>1, <3>1, AppendProperties
  <2>3. Len(mb) + 1 \in DOMAIN r /\ Len(mb) + 1 \notin DOMAIN mb
        /\ \A i \in DOMAIN r : i # Len(mb) + 1 => i \in DOMAIN mb
    BY <1>1, <2>2
  <2> QED  BY <1>1, <2>2, <2>3 DEF Placed
<1>4. CASE fits # {}
  <2>1. fits \subseteq Nat
    BY <1>1
  <2>2. PICK m \in fits : \A i \in fits : m <= i
    BY <1>4, <2>1, LeastNat
  <2>3. Min(fits) \in fits
    BY <2>2 DEF Min
  <2>4. PICK k : k = Min(fits) /\ k \in DOMAIN mb
    BY <2>3, Zenon
  <2>5. r = [mb EXCEPT ![k] = @ \cup {n}]
    BY <1>2, <1>4, <2>4
  <2> HIDE DEF fits
  <2>6. /\ DOMAIN r = DOMAIN mb /\ r[k] = mb[k] \cup {n}
        /\ \A i \in DOMAIN mb : i # k => r[i] = mb[i]
        /\ r = [i \in 1 .. Len(mb) |-> r[i]]
    BY <1>1, <2>4, <2>5
  <2>7. \A i \in DOMAIN mb : r[i] \in SUBSET C
    BY <1>1, <2>4, <2>6
  <2>8. r \in Seq(SUBSET C)
    <3>1. r \in [1 .. Len(mb) -> SUBSET C]
      BY <1>1, <2>6, <2>7
    <3> QED  BY <1>1, <3>1, SeqDef
  <2> QED  BY <2>4, <2>6, <2>8 DEF Placed
<1> QED  BY <1>3, <1>4

(* Where every function is allowed, one mini-bucket stays one.             *)
LEMMA OneBucket ==
  ASSUME NEW C, NEW n \in C, NEW mb \in Seq(SUBSET C), Len(mb) <= 1,
         \A b \in SUBSET C : AllowsFunction(b, n)
  PROVE  Len(FirstFit(mb, n)) <= 1
<1> DEFINE fits == {i \in DOMAIN mb : AllowsFunction(mb[i], n)}
<1>1. DOMAIN mb = 1 .. Len(mb) /\ Len(mb) \in Nat /\ \A i \in DOMAIN mb : mb[i] \in SUBSET C
  BY LenProperties, ElementOfSeq
<1>2. fits = DOMAIN mb
  BY <1>1
<1>3. FirstFit(mb, n) = IF fits = {} THEN Append(mb, {n})
                        ELSE [mb EXCEPT ![Min(fits)] = @ \cup {n}]
  BY DEF FirstFit
<1> HIDE DEF fits
<1>4. CASE fits = {}
  <2>1. Len(mb) = 0
    BY <1>1, <1>2, <1>4
  <2>2. Len(Append(mb, {n})) = Len(mb) + 1
    BY AppendProperties
  <2> QED  BY <1>3, <1>4, <2>1, <2>2
<1>5. CASE fits # {}
  <2>1. PICK r : r = FirstFit(mb, n)
    OBVIOUS
  <2>2. DOMAIN r = 1 .. Len(mb)
    BY <1>1, <1>3, <1>5, <2>1
  <2>3. r \in Seq(SUBSET C)
    BY <2>1, PlacedOnce DEF Placed
  <2>4. DOMAIN r = 1 .. Len(r) /\ Len(r) \in Nat
    BY <2>3, LenProperties
  <2>5. Len(mb) = 1
    BY <1>1, <1>2, <1>5
  <2>6. 2 \notin DOMAIN r
    BY <2>2, <2>5
  <2> QED  BY <2>1, <2>4, <2>6
<1> QED  BY <1>4, <1>5

(* So one mini-bucket is enough if the heuristic is accurate.              *)
LEMMA PlaceNarrow ==
  ASSUME Sound, Delivered, Partitioned, IsAccurate, Narrow,
         NEW N, Neighbours(N, Vars, best, Scopes(problem)),
         NEW n \in unplaced, PlaceFunction(n)
  PROVE  Len(minibuckets') <= 1
<1>1. /\ stage = "partition" /\ minibuckets' = FirstFit(minibuckets, n)
      /\ minibuckets \in Seq(SUBSET Collected(bucket)) /\ Len(minibuckets) <= 1
      /\ bucket \in Vars /\ n \in Collected(bucket)
  BY DEF PlaceFunction, Partitioned, Narrow
<1>2. ASSUME NEW b \in SUBSET Collected(bucket)
      PROVE  AllowsFunction(b, n)
  <2>1. b \cup {n} \in SUBSET Collected(bucket) /\ ibound \in Nat
        /\ \A k \in DOMAIN sent : sent[k].scope \subseteq N[k[1]]
    BY <1>1 DEF Narrow
  <2>2. Cardinality(ScopeOf(b \cup {n})) <= ibound + 1
    BY <1>1, <2>1, NarrowBucket
  <2> QED  BY <2>2 DEF AllowsFunction
<1> QED  BY <1>1, <1>2, OneBucket

(* PlaceFunction: the mini-buckets stay a partition of what is placed.     *)
LEMMA PlaceStep ==
  ASSUME Partitioned, NEW n \in unplaced, PlaceFunction(n)
  PROVE  Partitioned' /\ stage' = "partition" /\ UNCHANGED todo
<1>1. /\ UNCHANGED <<problem, primal, best, todo, augmented, bucket, stage>>
      /\ stage = "partition" /\ n \in unplaced
      /\ minibuckets' = FirstFit(minibuckets, n) /\ unplaced' = unplaced \ {n}
  BY DEF PlaceFunction
<1>2. PICK C, mb, r : C = Collected(bucket) /\ mb = minibuckets /\ r = minibuckets'
  BY Zenon
<1>3. /\ bucket \in Vars \cap todo /\ Below(bucket) \cap todo = {}
      /\ mb \in Seq(SUBSET C) /\ Disjoint(mb)
      /\ \A i \in DOMAIN mb : mb[i] \cap unplaced = {}
      /\ unplaced \cup UNION {mb[i] : i \in DOMAIN mb} = C
  BY <1>1, <1>2 DEF Partitioned
<1>4. Vars' = Vars /\ Below(bucket)' = Below(bucket) /\ Collected(bucket)' = C
  BY <1>1, <1>2 DEF Vars, Dummy, Below, Ancestors, Collected, Given, FunctionsOf, Owner
<1>5. n \in C /\ r = FirstFit(mb, n)
  BY <1>1, <1>2, <1>3
<1>6. /\ r \in Seq(SUBSET C) /\ DOMAIN mb \subseteq DOMAIN r
      /\ \E k \in DOMAIN r :
           /\ k \in DOMAIN mb => r[k] = mb[k] \cup {n}
           /\ k \notin DOMAIN mb => r[k] = {n}
           /\ \A i \in DOMAIN r : i # k => i \in DOMAIN mb /\ r[i] = mb[i]
  <2>1. mb \in Seq(SUBSET C)
    BY <1>3
  <2>2. Placed(C, mb, n, r)
    BY <1>5, <2>1, PlacedOnce
  <2> QED  BY <2>2 DEF Placed
<1>7. PICK k \in DOMAIN r :
        /\ k \in DOMAIN mb => r[k] = mb[k] \cup {n}
        /\ k \notin DOMAIN mb => r[k] = {n}
        /\ \A i \in DOMAIN r : i # k => i \in DOMAIN mb /\ r[i] = mb[i]
  BY <1>6
<1>8. \A i \in DOMAIN mb : n \notin mb[i] /\ mb[i] \cap unplaced' = {}
  BY <1>1, <1>3
<1>9. Disjoint(r)
  <2> SUFFICES ASSUME NEW i \in DOMAIN r, NEW j \in DOMAIN r, i # j  PROVE r[i] \cap r[j] = {}
    BY DEF Disjoint
  <2>1. \A p, q \in DOMAIN mb : p # q => mb[p] \cap mb[q] = {}
    BY <1>3 DEF Disjoint
  <2> QED  BY <1>7, <1>8, <2>1
<1>10. \A i \in DOMAIN r : r[i] \cap unplaced' = {}
  BY <1>1, <1>7, <1>8
<1>11. unplaced' \cup UNION {r[i] : i \in DOMAIN r} = C
  <2>1. \A y : y \in UNION {r[i] : i \in DOMAIN r} <=> \E i \in DOMAIN r : y \in r[i]
    OBVIOUS
  <2>2. \A y : y \in UNION {mb[i] : i \in DOMAIN mb} <=> \E i \in DOMAIN mb : y \in mb[i]
    OBVIOUS
  <2>3. \A y : (\E i \in DOMAIN r : y \in r[i]) <=> y = n \/ \E i \in DOMAIN mb : y \in mb[i]
    BY <1>6, <1>7
  <2> QED  BY <1>1, <1>3, <2>1, <2>2, <2>3
<1>12. /\ minibuckets' \in Seq(SUBSET Collected(bucket)') /\ Disjoint(minibuckets')
       /\ \A i \in DOMAIN minibuckets' : minibuckets'[i] \cap unplaced' = {}
       /\ unplaced' \cup UNION {minibuckets'[i] : i \in DOMAIN minibuckets'} = Collected(bucket)'
  BY <1>2, <1>4, <1>6, <1>9, <1>10, <1>11
<1> QED  BY <1>1, <1>3, <1>4, <1>12 DEF Partitioned, Disjoint

(* MatchMoments without matching, or for one mini-bucket, shifts nothing.  *)
LEMMA MatchStep ==
  ASSUME Partitioned, ~match \/ Len(minibuckets) <= 1, MatchMoments
  PROVE  Partitioned' /\ stage' = "send" /\ UNCHANGED todo
<1>1. /\ UNCHANGED <<problem, primal, best, todo, augmented, bucket, unplaced, minibuckets>>
      /\ stage = "partition" /\ stage' = "send" /\ unplaced = {}
      /\ shifts' = [i \in DOMAIN minibuckets |-> <<>>]
  <2>1. stage = "partition"
    BY DEF MatchMoments
  <2>2. Len(minibuckets) \in Nat
    BY <2>1, LenProperties DEF Partitioned
  <2>3. ~(match /\ Len(minibuckets) > 1)
    BY <2>2
  <2> QED  BY <2>3 DEF MatchMoments
<1>2. Vars' = Vars /\ Below(bucket)' = Below(bucket) /\ Collected(bucket)' = Collected(bucket)
  BY <1>1 DEF Vars, Dummy, Below, Ancestors, Collected, Given, FunctionsOf, Owner
<1> QED  BY <1>1, <1>2 DEF Partitioned

(* ProcessRootBucket is the last step.                                     *)
LEMMA RootStep ==
  ASSUME Sound, Delivered, ProcessRootBucket
  PROVE  stage' = "built" /\ todo = {Dummy} /\ todo' = {}
<1>1. Subtree(best, Dummy) \cap todo = {Dummy} /\ todo' = {} /\ stage' = "built"
  BY DEF ProcessRootBucket, IsNextBucket
<1>2. TreeNodes \subseteq Subtree(best, Dummy)
  BY DEF Subtree, TreeNodes, Sound, Line, Ancestors
<1> QED  BY <1>1, <1>2 DEF Delivered

-----------------------------------------------------------------------------
(* What the buckets need to know of the tree is what the order gives.      *)
LEMMA SoundFromOrder ==
  ASSUME OrderInv, best # NoTree
  PROVE  Sound
<1>1. /\ problem \in Instances /\ primal = FromScopes(Scopes(problem))
      /\ Separates(best, Vars, Dummy, Scopes(problem))
  BY DEF OrderInv, Static, BestTree, Kept, Vars, Dummy
<1>2. /\ IsFiniteSet(Vars) /\ Vars \subseteq Nat /\ Dummy \notin Vars
      /\ \A s \in Scopes(problem) : s # {} /\ s \subseteq Vars
  BY <1>1, PrimalOfProblem
<1>3. GIVEN \notin Vars
  BY <1>2 DEF GIVEN
<1>4. Rooted(best, Vars, Dummy)
  BY <1>1 DEF Separates
<1>5. \A x \in Vars : Line(Vars, Dummy, best.above, x)
  BY <1>2, <1>4, AncestorLines
<1>6. Ancestors(best, Dummy) = {}
  BY <1>4 DEF Rooted, Ancestors
<1>7. /\ problem.functions \in Seq(ToSet(problem.functions))
      /\ \A i \in DOMAIN problem.functions :
           LET f == problem.functions[i]
           IN  DOMAIN f.val = Assignments(f.scope) /\ \A a \in DOMAIN f.val : f.val[a] \in Known
  BY <1>1, TablesAssumption
<1>8. IsFiniteSet(DOMAIN problem.functions)
  <2>1. DOMAIN problem.functions = 1 .. Len(problem.functions) /\ Len(problem.functions) \in Nat
    BY <1>7, LenProperties
  <2> QED  BY <2>1, FS_Interval
<1>9. ASSUME NEW i \in DOMAIN problem.functions, NEW f, f = problem.functions[i],
             NEW o, o = Earliest(best.order, f.scope)
      PROVE  /\ Table(f, Vars)
             /\ f.scope = {} \/ (o \in Vars \cap f.scope /\ f.scope \subseteq best.above[o] \cup {o})
  <2>1. f.scope = {} \/ f.scope \in Scopes(problem)
    BY <1>9 DEF Scopes
  <2>2. f.scope \subseteq Vars
    BY <1>2, <2>1
  <2>3. Table(f, Vars)
    BY <1>7, <1>9, <2>2 DEF Table
  <2>4. ASSUME f.scope # {}
        PROVE  o \in Vars \cap f.scope /\ f.scope \subseteq best.above[o] \cup {o}
    <3>1. o \in f.scope /\ f.scope \subseteq best.ctx[o] \cup {o}
      BY <1>1, <1>9, <2>1, <2>4 DEF Separates
    <3>2. best.ctx[o] \subseteq best.above[o]
      BY <1>1, <2>2, <3>1 DEF Separates
    <3> QED  BY <2>2, <3>1, <3>2
  <2> QED  BY <2>3, <2>4
<1>10. OwnersFit(problem, Vars, best)
  BY <1>9 DEF OwnersFit
<1> QED  BY <1>2, <1>3, <1>5, <1>6, <1>8, <1>10 DEF Sound

(* And the tree has neighbours.                                            *)
LEMMA NeighboursFromOrder ==
  ASSUME OrderInv, best # NoTree
  PROVE  \E N : Neighbours(N, Vars, best, Scopes(problem))
<1>1. /\ problem \in Instances /\ primal = FromScopes(Scopes(problem))
      /\ Kept(primal, best, Scopes(problem))
  BY DEF OrderInv, Static, BestTree
<1>2. /\ IsFiniteSet(Vars) /\ Dummy \notin Vars /\ Vars = NodesOf(primal)
      /\ Dummy = Cardinality(NodesOf(primal))
      /\ \A s \in Scopes(problem) : s # {} /\ s \subseteq Vars /\ Clique(primal, s)
  BY <1>1, PrimalOfProblem DEF Vars, Dummy
<1> QED  BY <1>1, <1>2, KeptNeighbours

(* Where no message is sent and no bucket split the scopes stay narrow.    *)
LEMMA NarrowStays ==
  ASSUME Narrow, UNCHANGED <<problem, primal, best, ibound, sent>>,
         stage' \in {"partition", "send"} => Len(minibuckets') <= 1
  PROVE  Narrow'
<1>1. Vars' = Vars /\ Scopes(problem)' = Scopes(problem)
  BY DEF Vars
<1> QED  BY <1>1 DEF Narrow

(* One step of build().                                                    *)
LEMMA BucketsStep ==
  ASSUME OrderInv, BucketInv, Buckets, Plain'
  PROVE  BucketInv'
<1>1. CASE StartBuckets
  <2>1. Sound /\ best # NoTree
    BY <1>1, SoundFromOrder DEF StartBuckets, OrderInv, Work
  <2>2. Delivered' /\ Accounted' /\ Narrow' /\ Attained' /\ stage' = "bucket"
    BY <1>1, <2>1, StartStep
  <2>3. best' = best
    BY <1>1 DEF StartBuckets
  <2> QED  BY <2>1, <2>2, <2>3 DEF BucketInv, Partitioned, NoTree
<1>2. ASSUME Buckets, ~StartBuckets
      PROVE  /\ stage \in {"bucket", "partition", "send"} /\ best # NoTree
             /\ Sound /\ Delivered /\ Partitioned /\ Accounted
             /\ IsAccurate => Narrow /\ Attained
             /\ Plain /\ UNCHANGED <<problem, primal, best, ibound, match>>
             /\ IsAccurate' = IsAccurate
  <2>1. /\ stage \in {"bucket", "partition", "send"}
        /\ UNCHANGED <<problem, primal, best, ibound, match>>
    BY <1>2 DEF Buckets, OpenBucket, PlaceFunction, MatchMoments, SendMessages, ProcessRootBucket
  <2>2. IsAccurate' = IsAccurate
    BY <2>1 DEF IsAccurate
  <2>3. Plain
    BY <2>1, <2>2 DEF Plain
  <2> QED  BY <2>1, <2>2, <2>3, SoundFromOrder DEF BucketInv
<1>3. ASSUME ~StartBuckets, Delivered', Partitioned', Accounted',
             IsAccurate => Narrow' /\ Attained',
             stage' \in {"bucket", "partition", "send"} \/ todo' = {}
      PROVE  BucketInv'
  BY <1>2, <1>3 DEF BucketInv, NoTree
<1>4. ASSUME NEW x \in Vars, OpenBucket(x)
      PROVE  BucketInv'
  <2>1. /\ ~StartBuckets /\ UNCHANGED <<problem, primal, best, sent, augmented, intermediate, todo>>
        /\ minibuckets' = <<>>
    BY <1>4 DEF OpenBucket, StartBuckets
  <2>2. Sound /\ Delivered /\ Accounted
    BY <1>2, <1>4, <2>1
  <2>3. Partitioned' /\ stage' = "partition"
    BY <1>4, <2>2, OpenStep
  <2>4. Delivered' /\ Accounted' /\ (Attained => Attained')
    BY <2>1, <2>2, AccountStays
  <2>5. Narrow => Narrow'
    BY <1>2, <1>4, <2>1, NarrowStays
  <2> QED  BY <1>2, <1>3, <2>1, <2>3, <2>4, <2>5
<1>5. ASSUME NEW n \in unplaced, PlaceFunction(n)
      PROVE  BucketInv'
  <2>1. ~StartBuckets /\ UNCHANGED <<problem, primal, best, sent, augmented, intermediate, todo>>
    BY <1>5 DEF PlaceFunction, StartBuckets
  <2>2. Sound /\ Delivered /\ Accounted /\ Partitioned /\ best # NoTree
    BY <1>2, <1>5, <2>1
  <2>3. Partitioned' /\ stage' = "partition"
    BY <1>5, <2>2, PlaceStep
  <2>4. Delivered' /\ Accounted' /\ (Attained => Attained')
    BY <2>1, <2>2, AccountStays
  <2>5. IsAccurate /\ Narrow => Narrow'
    <3> SUFFICES ASSUME IsAccurate, Narrow  PROVE Narrow'
      OBVIOUS
    <3>1. Len(minibuckets') <= 1
      BY <1>5, <2>2, NeighboursFromOrder, PlaceNarrow
    <3> QED  BY <1>2, <1>5, <2>1, <3>1, NarrowStays
  <2> QED  BY <1>2, <1>3, <2>1, <2>3, <2>4, <2>5
<1>6. CASE MatchMoments
  <2>1. /\ ~StartBuckets /\ UNCHANGED <<problem, primal, best, sent, augmented, intermediate, todo>>
        /\ stage = "partition" /\ minibuckets' = minibuckets
    BY <1>6 DEF MatchMoments, StartBuckets
  <2>2. Sound /\ Delivered /\ Accounted /\ Partitioned
    BY <1>2, <1>6, <2>1
  <2>3. Partitioned' /\ stage' = "send"
    <3>1. ~match \/ Len(minibuckets) <= 1
      BY <1>2, <1>6, <2>1 DEF Plain, Narrow
    <3> QED  BY <1>6, <2>2, <3>1, MatchStep
  <2>4. Delivered' /\ Accounted' /\ (Attained => Attained')
    BY <2>1, <2>2, AccountStays
  <2>5. Narrow => Narrow'
    <3> SUFFICES ASSUME Narrow  PROVE Narrow'
      OBVIOUS
    <3>1. Len(minibuckets') <= 1
      BY <2>1 DEF Narrow
    <3> QED  BY <1>2, <1>6, <2>1, <3>1, NarrowStays
  <2> QED  BY <1>2, <1>3, <2>1, <2>3, <2>4, <2>5
<1>7. CASE SendMessages
  <2>1. ~StartBuckets
    BY <1>7 DEF SendMessages, StartBuckets
  <2>2. Sound /\ Delivered /\ Accounted /\ Partitioned
    BY <1>2, <1>7, <2>1
  <2>3. /\ Delivered' /\ Accounted' /\ stage' = "bucket"
        /\ Narrow /\ Attained => Narrow' /\ Attained'
    BY <1>7, <2>2, SendStep
  <2>4. Partitioned'
    BY <2>3 DEF Partitioned
  <2> QED  BY <1>2, <1>3, <1>7, <2>1, <2>3, <2>4
<1>8. CASE ProcessRootBucket
  <2>1. ~StartBuckets /\ UNCHANGED <<problem, primal, best, sent, augmented, intermediate>>
    BY <1>8 DEF ProcessRootBucket, StartBuckets
  <2>2. Sound /\ Delivered /\ Accounted
    BY <1>2, <1>8, <2>1
  <2>3. stage' = "built" /\ todo = {Dummy} /\ todo' = {}
    BY <1>8, <2>2, RootStep
  <2>4. Delivered' /\ Accounted' /\ (Attained => Attained')
    BY <2>1, <2>2, <2>3, AccountStays
  <2>5. Partitioned'
    BY <2>3 DEF Partitioned
  <2>6. Narrow => Narrow'
    BY <1>2, <1>8, <2>1, <2>3, NarrowStays
  <2> QED  BY <1>2, <1>3, <1>8, <2>1, <2>3, <2>4, <2>5, <2>6
<1> QED  BY <1>1, <1>4, <1>5, <1>6, <1>7, <1>8 DEF Buckets

(* The other stages are before or after build().                           *)
LEMMA NoBucketStep ==
  ASSUME Ordering \/ RunSLS \/ CompileHeuristic \/ RunLDS \/ FinishPreproc \/ RunSearch
  PROVE  BucketInv'
<1>1. stage' \notin {"bucket", "partition", "send", "built"}
  <2>1. CASE Ordering
    BY <2>1 DEF Ordering, StartElimination, RemoveSimplicial, EliminateNode, StartBuild,
                InsertNewNode, FinishBuild, DropCandidate, FinishOrdering, ChainNode, FinishChain
  <2>2. CASE RunSLS \/ CompileHeuristic \/ RunLDS \/ FinishPreproc \/ RunSearch
    BY <2>2 DEF RunSLS, CompileHeuristic, RunLDS, FinishPreproc, RunSearch
  <2> QED  BY <2>1, <2>2
<1> QED  BY <1>1 DEF BucketInv

(* And where nothing happens the invariant stays.                          *)
LEMMA BucketStutter ==
  ASSUME OrderInv, BucketInv, UNCHANGED vars
  PROVE  BucketInv'
<1>1. /\ UNCHANGED <<problem, primal, stage, best, ibound, match, todo, bucket, unplaced,
                     minibuckets, shifts, sent, augmented, intermediate>>
      /\ IsAccurate' = IsAccurate
  BY DEF vars, orderVars, bucketVars, working, IsAccurate
<1> SUFFICES ASSUME stage \in {"bucket", "partition", "send", "built"}, Plain
             PROVE  BucketInv'
  BY <1>1 DEF BucketInv, Plain
<1>2. /\ Sound /\ best # NoTree /\ Delivered /\ Partitioned /\ Accounted
      /\ IsAccurate => Narrow /\ Attained
      /\ stage = "built" => todo = {}
  BY SoundFromOrder DEF BucketInv
<1>3. /\ Delivered' /\ Accounted' /\ (Attained => Attained')
      /\ Narrow => Narrow'
  <2>1. Narrow => Narrow'
    BY <1>1, NarrowStays DEF Narrow
  <2> QED  BY <1>1, <1>2, <2>1, AccountStays
<1>4. /\ Vars' = Vars /\ NoTree' = NoTree
      /\ \A x : Below(x)' = Below(x) /\ Collected(x)' = Collected(x)
  BY <1>1 DEF Vars, NoTree, Below, Ancestors, Collected, Given, FunctionsOf, Owner, Dummy
<1>5. Partitioned'
  BY <1>1, <1>2, <1>4 DEF Partitioned, Disjoint
<1> QED  BY <1>1, <1>2, <1>3, <1>4, <1>5 DEF BucketInv

-----------------------------------------------------------------------------
(* What is below a node, and which functions and messages are about it.    *)
LEMMA BelowNode ==
  ASSUME Sound, NEW x \in TreeNodes
  PROVE  /\ Subtree(best, x) \ {x} = Below(x) /\ Below(x) \subseteq Vars
         /\ Below(x) \cap (Ancestors(best, x) \cup {x}) = {}
         /\ \A o \in Below(x) : Ancestors(best, o) \cap Vars
                                  \subseteq Below(x) \cup Ancestors(best, x) \cup {x}
         /\ \A o \in Vars : Ancestors(best, o) \cap Below(x) # {} => o \in Below(x)
<1> DEFINE up == best.above
<1>1. /\ Dummy \notin Vars /\ up[Dummy] = {} /\ (x \in Vars \/ x = Dummy)
      /\ \A y : Ancestors(best, y) = up[y]
      /\ \A y \in Vars : Line(Vars, Dummy, up, y)
      /\ \A y : y \in Below(x) <=> y \in Vars /\ x \in up[y]
  BY DEF Sound, Ancestors, TreeNodes, Below
<1> HIDE DEF up
<1>2. /\ \A y \in Vars : y \notin up[y] /\ \A w \in up[y] : up[w] \subseteq up[y]
      /\ \A y \in Vars : \A v, w \in up[y] : v = w \/ v \in up[w] \/ w \in up[v]
  BY <1>1 DEF Line
<1>3. x \notin Below(x)
  BY <1>1, <1>2
<1>4. Subtree(best, x) \ {x} = Below(x)
  BY <1>3 DEF Subtree, Below
<1>5. \A y \in Below(x) : y \notin up[x]
  BY <1>1, <1>2
<1>6. \A o \in Below(x) : \A w \in up[o] \cap Vars : w \in Below(x) \/ w \in up[x] \/ w = x
  BY <1>1, <1>2
<1>7. \A o \in Vars : \A y \in up[o] : y \in Below(x) => o \in Below(x)
  BY <1>1, <1>2
<1> QED  BY <1>1, <1>3, <1>4, <1>5, <1>6, <1>7

(* The messages in augmented and intermediate of a node are those from     *)
(* below it that are not for a node below it.                              *)
LEMMA MessagesAt ==
  ASSUME Sound, Delivered, todo = {}, NEW x \in TreeNodes
  PROVE  /\ augmented[x] \cup intermediate[x] = Pending(x)
         /\ \A n \in Pending(x) :
              FunctionAt(n).scope \subseteq (Ancestors(best, x) \cup {x}) \ {Dummy}
<1> DEFINE up == best.above
<1>1. /\ Dummy \notin Vars /\ up[Dummy] = {} /\ (x \in Vars \/ x = Dummy)
      /\ \A y : Ancestors(best, y) = up[y]
      /\ \A y \in Vars : Line(Vars, Dummy, up, y)
      /\ \A y : y \in Below(x) <=> y \in Vars /\ x \in up[y]
  BY DEF Sound, Ancestors, TreeNodes, Below
<1>2. ASSUME NEW n \in DOMAIN sent
      PROVE  /\ n[1] \in Vars /\ Dest(n) \in up[n[1]]
             /\ sent[n].scope \subseteq Vars \cap (up[Dest(n)] \cup {Dest(n)})
             /\ FunctionAt(n) = sent[n]
  <2>1. /\ n[1] \in Vars /\ sent[n].scope \subseteq Ancestors(best, n[1])
        /\ sent[n].scope \subseteq Vars
    BY DEF Delivered, Table
  <2>2. FunctionAt(n) = sent[n]
    BY NamedTables
  <2> QED  BY <1>1, <2>1, <2>2, TargetAbove DEF Dest
<1>3. Done \cap Below(x) = Below(x)
  BY DEF Done, Below, TreeNodes
<1>4. \A n : n \in Pending(x) <=> n \in DOMAIN sent /\ n[1] \in Below(x) /\ Dest(n) \notin Below(x)
  BY <1>3 DEF Pending
<1>5. \A n : n \in augmented[x] <=> n \in DOMAIN sent /\ Dest(n) = x
  BY DEF Delivered
<1>6. \A n : n \in intermediate[x] <=>
               n \in DOMAIN sent /\ x \in up[n[1]] /\ Dest(n) \in up[x]
  <2>1. intermediate[x] = {n \in DOMAIN sent : x \in PassedOn(n[1], sent[n])}
    BY DEF Delivered
  <2>2. \A n : x \in PassedOn(n[1], sent[n]) <=> x \in up[n[1]] /\ Dest(n) \in up[x]
    BY <1>1 DEF PassedOn, Dest
  <2> QED  BY <2>1, <2>2
<1> HIDE DEF up
<1>7. /\ \A y \in Vars : y \notin up[y] /\ \A w \in up[y] : up[w] \subseteq up[y]
      /\ \A y \in Vars : up[y] \subseteq Vars \cup {Dummy}
      /\ \A y \in Vars : \A v, w \in up[y] : v = w \/ v \in up[w] \/ w \in up[v]
  BY <1>1 DEF Line
<1>8. ASSUME NEW n \in Pending(x)
      PROVE  Dest(n) = x \/ Dest(n) \in up[x]
  <2>1. /\ n \in DOMAIN sent /\ n[1] \in Vars /\ x \in up[n[1]] /\ Dest(n) \in up[n[1]]
        /\ Dest(n) \notin Below(x)
    BY <1>1, <1>2, <1>4
  <2>2. Dest(n) \in Vars \/ Dest(n) = Dummy
    BY <1>7, <2>1
  <2>3. x \notin up[Dest(n)]
    BY <1>1, <2>1, <2>2
  <2> QED  BY <1>7, <2>1, <2>3
<1>9. ASSUME NEW n \in DOMAIN sent, Dest(n) = x \/ (x \in up[n[1]] /\ Dest(n) \in up[x])
      PROVE  n \in Pending(x)
  <2>1. n[1] \in Vars /\ x \in up[n[1]]
    BY <1>2, <1>9
  <2>2. x \notin Below(x)
    BY <1>1, <1>7
  <2>3. Dest(n) \in up[x] => Dest(n) \notin Below(x)
    BY <1>1, <1>7
  <2> QED  BY <1>1, <1>4, <1>9, <2>1, <2>2, <2>3
<1>10. \A n : n \in augmented[x] \cup intermediate[x] <=> n \in Pending(x)
  BY <1>1, <1>4, <1>5, <1>6, <1>8, <1>9
<1>11. ASSUME NEW n \in Pending(x)
       PROVE  FunctionAt(n).scope \subseteq (Ancestors(best, x) \cup {x}) \ {Dummy}
  <2>1. n \in DOMAIN sent /\ (Dest(n) = x \/ Dest(n) \in up[x])
    BY <1>4, <1>8
  <2>2. up[Dest(n)] \subseteq up[x]
    BY <1>1, <1>7, <2>1
  <2> QED  BY <1>1, <1>2, <2>1, <2>2
<1> QED  BY <1>10, <1>11

(* The functions that mention what is below a node are those of the        *)
(* buckets there, and their variables are there or on the way to the root. *)
LEMMA FunctionsBelow ==
  ASSUME Sound, NEW x \in TreeNodes
  PROVE  /\ GivenTo(Below(x)) = {<<GIVEN, i>> : i \in FunctionsWith(Below(x))}
         /\ \A i \in FunctionsWith(Below(x)) :
              problem.functions[i].scope
                \subseteq Below(x) \cup ((Ancestors(best, x) \cup {x}) \ {Dummy})
<1> DEFINE I == DOMAIN problem.functions
           f(i) == problem.functions[i]
           own(i) == Owner(best, f(i))
           S == Below(x)
<1>1. /\ Dummy \notin Vars /\ S \subseteq Vars
      /\ \A o \in S : Ancestors(best, o) \cap Vars \subseteq S \cup Ancestors(best, x) \cup {x}
      /\ \A o \in Vars : Ancestors(best, o) \cap S # {} => o \in S
  BY BelowNode DEF Sound
<1>2. ASSUME NEW i \in I
      PROVE  /\ f(i).scope \subseteq Vars
             /\ IF f(i).scope = {} THEN own(i) = Dummy
                ELSE own(i) \in Vars /\ own(i) \in f(i).scope
                     /\ f(i).scope \subseteq Ancestors(best, own(i)) \cup {own(i)}
  <2>1. f(i).scope # {} => own(i) = Earliest(best.order, f(i).scope)
    BY DEF Owner, Earliest
  <2>2. f(i).scope = {} => own(i) = Dummy
    BY DEF Owner
  <2> QED  BY <2>1, <2>2 DEF Sound, OwnersFit, Table, Ancestors
<1> HIDE DEF S, own, f
<1>3. \A i \in I : f(i).scope \cap S # {} <=> own(i) \in S
  BY <1>1, <1>2
<1>4. \A i \in I : own(i) \in S =>
        f(i).scope \subseteq S \cup ((Ancestors(best, x) \cup {x}) \ {Dummy})
  BY <1>1, <1>2
<1>5. \A i : i \in FunctionsWith(S) <=> i \in I /\ f(i).scope \cap S # {}
  BY DEF FunctionsWith, f
<1>6. \A y, i : i \in FunctionsOf(best, y) <=> i \in I /\ own(i) = y
  BY DEF FunctionsOf, own, f
<1>7. GivenTo(S) = {<<GIVEN, i>> : i \in FunctionsWith(S)}
  <2>1. \A n : n \in GivenTo(S) <=> \E y \in S : \E i \in FunctionsOf(best, y) : n = <<GIVEN, i>>
    BY DEF GivenTo, Given
  <2>2. \A n : n \in GivenTo(S) <=> \E i \in FunctionsWith(S) : n = <<GIVEN, i>>
    BY <1>3, <1>5, <1>6, <2>1
  <2> QED  BY <2>2
<1> QED  BY <1>3, <1>4, <1>5, <1>7 DEF S, f

(* The product of functions of the problem under their names.              *)
LEMMA GivenProduct ==
  ASSUME IsFiniteSet(DOMAIN problem.functions), NEW I \in SUBSET DOMAIN problem.functions,
         NEW a, \A i \in I : Value(problem.functions[i], a) \in Known,
         NEW K, K = {<<GIVEN, i>> : i \in I}
  PROVE  ProductOf(Family(K), a) = ProductOf(Restrict(problem.functions, I), a)
<1> DEFINE F == Restrict(problem.functions, I)
           u == [i \in I |-> Value(problem.functions[i], a)]
           w == [n \in K |-> Value(FunctionAt(n), a)]
           h == [i \in I |-> <<GIVEN, i>>]
           back == [n \in K |-> n[2]]
<1>1. ProductOf(F, a) = Product(u)
  <2>1. DOMAIN F = I /\ \A i \in I : F[i] = problem.functions[i]
    BY DEF Restrict
  <2>2. [i \in DOMAIN F |-> Value(F[i], a)] = u
    BY <2>1
  <2> HIDE DEF F, u
  <2> QED  BY <2>2 DEF ProductOf
<1>2. ProductOf(Family(K), a) = Product(w)
  <2>1. DOMAIN Family(K) = K /\ \A n \in K : Family(K)[n] = FunctionAt(n)
    BY DEF Family
  <2>2. [n \in DOMAIN Family(K) |-> Value(Family(K)[n], a)] = w
    BY <2>1
  <2> QED  BY <2>2 DEF ProductOf
<1>3. \A i \in I : <<GIVEN, i>> \in K /\ u[i] = w[<<GIVEN, i>>]
  <2>1. \A i : FunctionAt(<<GIVEN, i>>) = problem.functions[i]
    BY DEF FunctionAt
  <2> QED  BY <2>1
<1>4. \A n \in K : n[2] \in I /\ n = <<GIVEN, n[2]>>
  OBVIOUS
<1>5. /\ h \in [I -> K] /\ (\A i, j \in I : h[i] = h[j] => i = j)
      /\ (\A n \in K : \E i \in I : h[i] = n) /\ \A i \in I : h[i] = <<GIVEN, i>>
  OBVIOUS
<1>6. back \in [K -> I] /\ \A n \in K : back[n] = n[2]
  BY <1>4
<1>7. u \in [I -> Known]
  OBVIOUS
<1>8. w \in [K -> Known]
  <2>1. w = [n \in K |-> w[n]]
    OBVIOUS
  <2>2. \A n \in K : w[n] \in Known
    <3> HIDE DEF u, w
    <3> QED  BY <1>3, <1>4, <1>7
  <2> HIDE DEF w
  <2> QED  BY <2>1, <2>2
<1> HIDE DEF u, w, h, back, F
<1>9. /\ \A m, n \in K : back[m] = back[n] => m = n
      /\ \A i \in I : \E n \in K : back[n] = i
  <2>1. ASSUME NEW m \in K, NEW n \in K, back[m] = back[n]  PROVE m = n
    <3>1. m = <<GIVEN, m[2]>> /\ n = <<GIVEN, n[2]>> /\ m[2] = n[2]
      BY <1>4, <1>6, <2>1
    <3> QED  BY <3>1
  <2>2. ASSUME NEW i \in I  PROVE \E n \in K : back[n] = i
    <3>1. <<GIVEN, i>> \in K /\ <<GIVEN, i>>[2] = i
      BY <1>3
    <3> QED  BY <1>6, <3>1
  <2> QED  BY <2>1, <2>2
<1>10. u \in [I -> Cost] /\ w \in [K -> Cost]
  BY <1>7, <1>8, TimesLaws
<1>11. \A i \in I : ~Greater(u[i], w[h[i]])
  BY <1>3, <1>5, <1>10, NeverGreater
<1>12. \A n \in K : ~Greater(w[n], u[back[n]])
  <2>1. \A n \in K : w[n] = u[back[n]]
    BY <1>3, <1>4, <1>6
  <2> QED  BY <1>10, <2>1, NeverGreater
<1>13. IsFiniteSet(I)
  BY FS_Subset
<1>14. IsFiniteSet(K) /\ ~Greater(Product(u), Product(w))
  BY <1>5, <1>8, <1>10, <1>11, <1>13, ProductBelow
<1>15. IsFiniteSet(I) /\ ~Greater(Product(w), Product(u))
  <2>1. PICK bk, kk : bk = back /\ kk = K
    OBVIOUS
  <2>2. bk \in [kk -> I] /\ (\A m, n \in kk : bk[m] = bk[n] => m = n)
        /\ (\A i \in I : \E n \in kk : bk[n] = i) /\ (\A n \in kk : ~Greater(w[n], u[bk[n]]))
    BY <1>6, <1>9, <1>12, <2>1
  <2>3. IsFiniteSet(kk) /\ w \in [kk -> Cost] /\ u \in [I -> Known]
    BY <1>7, <1>10, <1>14, <2>1
  <2> QED  BY <2>2, <2>3, ProductBelow
<1>16. Product(u) \in Known /\ Product(w) \in Known
  BY <1>7, <1>8, <1>13, <1>14, ProductKnown
<1> QED  BY <1>1, <1>2, <1>14, <1>15, <1>16, CostOrder DEF F

(* Once all buckets are done, the heuristic at a node is the product of    *)
(* what is pending there, and the best completion that of the functions    *)
(* below for some values of the variables there, and never less.           *)
Completed(x, a, D, S) ==
  /\ D \subseteq Vars /\ D \cap S = {} /\ Done \cap Below(x) = S
  /\ Heur(x, a) \in Known /\ BestCompletion(S, a) \in Known
  /\ \E t \in Assignments(Vars) :
       /\ \A y \in D : t[y] = a[y]
       /\ ~Greater(BestCompletion(S, a), ProductOf(Family(GivenTo(S)), t))
  /\ \A t \in Assignments(Vars) : (\A y \in D : t[y] = a[y]) =>
       /\ Heur(x, a) = ProductOf(Family(Pending(x)), t)
       /\ ProductOf(Family(GivenTo(S)), t) \in Known
       /\ ~Greater(ProductOf(Family(GivenTo(S)), t), BestCompletion(S, a))

(* It holds of the nodes of the pseudo tree once build() is done.          *)
LEMMA CompletionsAt ==
  ASSUME Sound, Delivered, todo = {}, NEW x \in TreeNodes,
         NEW a \in Assignments((Ancestors(best, x) \cup {x}) \ {Dummy}),
         NEW D, D = (Ancestors(best, x) \cup {x}) \ {Dummy},
         NEW S, S = Subtree(best, x) \ {x}
  PROVE  Completed(x, a, D, S)
<1> DEFINE FW == FunctionsWith(S)
           F  == Restrict(problem.functions, FW)
           K  == GivenTo(S)
           M  == Pending(x)
           Results == {ProductOf(F, full) : full \in Extensions(a, S)}
<1>1. /\ S = Below(x) /\ S \subseteq Vars /\ D \subseteq Vars /\ D \cap S = {}
      /\ Done \cap Below(x) = S
  <2>1. x \in Vars => Ancestors(best, x) \subseteq Vars \cup {Dummy}
    BY DEF Sound, Line, Ancestors
  <2>2. x \notin Vars => x = Dummy /\ Ancestors(best, x) = {}
    BY DEF Sound, TreeNodes
  <2>3. S = Below(x) /\ S \subseteq Vars /\ S \cap (Ancestors(best, x) \cup {x}) = {}
    BY BelowNode
  <2> QED  BY <2>1, <2>2, <2>3 DEF Done, TreeNodes
<1>2. /\ K = {<<GIVEN, i>> : i \in FW} /\ FW \in SUBSET DOMAIN problem.functions
      /\ \A i \in FW : problem.functions[i].scope \subseteq S \cup D
  <2>1. FW \in SUBSET DOMAIN problem.functions
    BY DEF FunctionsWith
  <2>2. /\ GivenTo(Below(x)) = {<<GIVEN, i>> : i \in FunctionsWith(Below(x))}
        /\ \A i \in FunctionsWith(Below(x)) :
             problem.functions[i].scope
               \subseteq Below(x) \cup ((Ancestors(best, x) \cup {x}) \ {Dummy})
    BY FunctionsBelow
  <2> QED  BY <1>1, <2>1, <2>2
<1>3. /\ augmented[x] \cup intermediate[x] = M
      /\ \A n \in M : FunctionAt(n).scope \subseteq D
  BY MessagesAt
<1>4. /\ IsFiniteSet(Vars) /\ IsFiniteSet(FW) /\ IsFiniteSet(S)
      /\ IsFiniteSet(DOMAIN problem.functions)
  BY <1>1, <1>2, FS_Subset DEF Sound
<1>5. /\ DOMAIN F = FW /\ \A i \in FW : F[i] = problem.functions[i]
      /\ \A i \in FW : Table(F[i], Vars)
  BY <1>2 DEF Restrict, Sound, OwnersFit
<1>6. M \in SUBSET Names /\ IsFiniteSet(Names) /\ \A n \in Names : Table(FunctionAt(n), Vars)
  BY NamedTables DEF Pending, Names
<1> HIDE DEF FW, F, K, M
<1>7. /\ ProductOf(Family(M), a) \in Known /\ Heur(x, a) = ProductOf(Family(M), a)
      /\ \A t : (\A y \in D : a[y] = t[y]) => ProductOf(Family(M), a) = ProductOf(Family(M), t)
  <2>1. DOMAIN Family(M) = M /\ \A n \in M : Family(M)[n] = FunctionAt(n)
    BY DEF Family
  <2>2. IsFiniteSet(DOMAIN Family(M)) /\ \A n \in DOMAIN Family(M) : Table(Family(M)[n], Vars)
    BY <1>6, <2>1, FS_Subset
  <2>3. JointScope(Family(M)) \subseteq D
    BY <1>3, <2>1 DEF JointScope
  <2>4. \A y \in JointScope(Family(M)) : a[y] \in Values
    BY <2>3 DEF Assignments
  <2>5. /\ ProductOf(Family(M), a) \in Known
        /\ \A t : (\A y \in JointScope(Family(M)) : a[y] = t[y]) =>
             ProductOf(Family(M), a) = ProductOf(Family(M), t)
    BY <2>2, <2>4, FamilyValue
  <2> QED  BY <1>3, <2>3, <2>5 DEF Heur
<1>8. ASSUME NEW e \in Assignments(S), NEW t \in Assignments(Vars),
             \A y \in D : t[y] = a[y], \A y \in S : t[y] = e[y]
      PROVE  /\ ProductOf(Family(K), t) \in Known
             /\ ProductOf(F, Joined(a, e)) = ProductOf(Family(K), t)
  <2>1. DOMAIN a = D /\ DOMAIN e = S /\ \A y \in Vars : t[y] \in Values
    BY DEF Assignments
  <2>2. \A y \in S \cup D : Joined(a, e)[y] = t[y] /\ t[y] \in Values
    BY <1>1, <1>8, <2>1 DEF Joined
  <2>3. JointScope(F) \subseteq S \cup D
    BY <1>2, <1>5 DEF JointScope
  <2>4. ProductOf(F, Joined(a, e)) = ProductOf(F, t)
    <3>1. \A y \in JointScope(F) : Joined(a, e)[y] = t[y] /\ Joined(a, e)[y] \in Values
      BY <2>2, <2>3
    <3> QED  BY <1>4, <1>5, <3>1, FamilyValue
  <2>5. ProductOf(F, t) \in Known
    <3>1. \A y \in JointScope(F) : t[y] \in Values
      BY <2>2, <2>3
    <3> QED  BY <1>4, <1>5, <3>1, FamilyValue
  <2>6. \A i \in FW : Value(problem.functions[i], t) \in Known
    <3>1. ASSUME NEW i \in FW  PROVE Value(problem.functions[i], t) \in Known
      <4>1. Table(problem.functions[i], Vars)
        BY <1>5
      <4>2. \A y \in problem.functions[i].scope : t[y] \in Values
        BY <1>1, <1>2, <2>1
      <4> QED  BY <4>1, <4>2, TableValue
    <3> QED  BY <3>1
  <2>7. ProductOf(Family(K), t) = ProductOf(F, t)
    BY <1>2, <1>4, <2>6, GivenProduct DEF F
  <2> QED  BY <2>4, <2>5, <2>7
<1>9. ASSUME NEW e \in Assignments(S)
      PROVE  \E t \in Assignments(Vars) :
               (\A y \in D : t[y] = a[y]) /\ \A y \in S : t[y] = e[y]
  <2> DEFINE t == [y \in Vars |-> IF y \in D THEN a[y] ELSE IF y \in S THEN e[y] ELSE 0]
  <2>1. /\ (\A y \in D : a[y] \in Values) /\ (\A y \in S : e[y] \in Values) /\ 0 \in Values
    BY DomainAssumption DEF Assignments, Values
  <2>2. t \in Assignments(Vars)
    BY <2>1 DEF Assignments
  <2>3. (\A y \in D : t[y] = a[y]) /\ \A y \in S : t[y] = e[y]
    BY <1>1
  <2> HIDE DEF t
  <2> QED  BY <2>2, <2>3
<1>10. IsFiniteSet(Results) /\ Results \in SUBSET Known
       /\ \A e \in Assignments(S) : ProductOf(F, Joined(a, e)) \in Results
  <2> DEFINE A == Assignments(S)
             g == [e \in A |-> ProductOf(F, Joined(a, e))]
  <2>1. Results = {g[e] : e \in A}
    BY DEF Extensions
  <2>2. IsFiniteSet(A)
    <3>1. IsFiniteSet(Values)
      BY DomainAssumption, FS_Interval DEF Values
    <3> QED  BY <1>4, <3>1, FunctionSets DEF Assignments
  <2>3. IsFiniteSet({g[e] : e \in A})
    <3> HIDE DEF g, A
    <3> QED  BY <2>2, FiniteImage
  <2>4. \A e \in A : g[e] \in Known
    <3>1. ASSUME NEW e \in A  PROVE ProductOf(F, Joined(a, e)) \in Known
      BY <1>8, <1>9
    <3> QED  BY <3>1
  <2>5. \A e \in A : g[e] = ProductOf(F, Joined(a, e))
    OBVIOUS
  <2> HIDE DEF g, A, Results
  <2> QED  BY <2>1, <2>3, <2>4, <2>5 DEF A
<1>11. BestCompletion(S, a) = largest[Results]
  BY DEF BestCompletion, BestOver, F, FW
<1>12. \A t \in Assignments(Vars) : (\A y \in D : t[y] = a[y]) =>
         ProductOf(Family(K), t) \in Known /\ ~Greater(ProductOf(Family(K), t), largest[Results])
  <2> SUFFICES ASSUME NEW t \in Assignments(Vars), \A y \in D : t[y] = a[y]
               PROVE  /\ ProductOf(Family(K), t) \in Known
                      /\ ~Greater(ProductOf(Family(K), t), largest[Results])
    OBVIOUS
  <2> DEFINE e == [y \in S |-> t[y]]
  <2>1. e \in Assignments(S) /\ \A y \in S : t[y] = e[y]
    BY <1>1 DEF Assignments
  <2> HIDE DEF e, Results
  <2>2. /\ ProductOf(Family(K), t) \in Known
        /\ ProductOf(F, Joined(a, e)) = ProductOf(Family(K), t)
    BY <1>8, <2>1
  <2>3. ProductOf(Family(K), t) \in Results
    BY <1>10, <2>1, <2>2
  <2> QED  BY <1>10, <2>2, <2>3, LargestOf
<1>13. \E t \in Assignments(Vars) :
         (\A y \in D : t[y] = a[y]) /\ ~Greater(largest[Results], ProductOf(Family(K), t))
  <2>1. CASE largest[Results] = ELEM_ZERO
    <3> DEFINE e == [y \in S |-> 0]
    <3>1. e \in Assignments(S)
      BY DomainAssumption DEF Assignments, Values
    <3> HIDE DEF e, Results
    <3>2. PICK t \in Assignments(Vars) : (\A y \in D : t[y] = a[y]) /\ \A y \in S : t[y] = e[y]
      BY <1>9, <3>1
    <3>3. ProductOf(Family(K), t) \in Cost
      BY <1>12, <3>2, TimesLaws
    <3> QED  BY <2>1, <3>2, <3>3, NeverGreater
  <2>2. CASE largest[Results] \in Results
    <3>1. PICK e \in Assignments(S) : largest[Results] = ProductOf(F, Joined(a, e))
      BY <2>2 DEF Extensions
    <3> HIDE DEF Results
    <3>2. PICK t \in Assignments(Vars) : (\A y \in D : t[y] = a[y]) /\ \A y \in S : t[y] = e[y]
      BY <1>9
    <3>3. ProductOf(Family(K), t) \in Cost /\ largest[Results] = ProductOf(Family(K), t)
      BY <1>8, <3>1, <3>2, TimesLaws
    <3> QED  BY <3>2, <3>3, NeverGreater
  <2> HIDE DEF Results
  <2> QED  BY <1>10, <2>1, <2>2, LargestOf
<1> HIDE DEF Results
<1>14. largest[Results] \in Known
  BY <1>10, LargestOf
<1> QED  BY <1>1, <1>7, <1>11, <1>12, <1>13, <1>14 DEF K, M, Completed

(* So the heuristic at a node is at least the best completion below it.    *)
LEMMA AdmissibleAt ==
  ASSUME Sound, Delivered, Accounted, todo = {}, NEW x \in TreeNodes,
         NEW a \in Assignments((Ancestors(best, x) \cup {x}) \ {Dummy})
  PROVE  ~Greater(BestCompletion(Subtree(best, x) \ {x}, a), Heur(x, a))
<1>1. PICK D, S : D = (Ancestors(best, x) \cup {x}) \ {Dummy} /\ S = Subtree(best, x) \ {x}
  OBVIOUS
<1>2. /\ Done \cap Below(x) = S
      /\ Heur(x, a) \in Known /\ BestCompletion(S, a) \in Known
      /\ \E t \in Assignments(Vars) :
           /\ \A y \in D : t[y] = a[y]
           /\ ~Greater(BestCompletion(S, a), ProductOf(Family(GivenTo(S)), t))
      /\ \A t \in Assignments(Vars) : (\A y \in D : t[y] = a[y]) =>
           /\ Heur(x, a) = ProductOf(Family(Pending(x)), t)
           /\ ProductOf(Family(GivenTo(S)), t) \in Known
  <2>1. Completed(x, a, D, S)
    BY <1>1, CompletionsAt
  <2> QED  BY <2>1 DEF Completed
<1>3. PICK t \in Assignments(Vars) :
        /\ \A y \in D : t[y] = a[y]
        /\ ~Greater(BestCompletion(S, a), ProductOf(Family(GivenTo(S)), t))
  BY <1>2
<1>4. ~Greater(ProductOf(Family(GivenTo(S)), t), ProductOf(Family(Pending(x)), t))
  BY <1>2 DEF Accounted, AccountedAt
<1>5. BestCompletion(S, a) \in Cost
  BY <1>2, TimesLaws
<1> QED  BY <1>1, <1>2, <1>3, <1>4, <1>5, AtMostTransitive

(* And it is the best completion if what is pending is attained.           *)
LEMMA ExactAt ==
  ASSUME Sound, Delivered, Accounted, Attained, todo = {}, NEW x \in TreeNodes,
         NEW a \in Assignments((Ancestors(best, x) \cup {x}) \ {Dummy})
  PROVE  Heur(x, a) = BestCompletion(Subtree(best, x) \ {x}, a)
<1>1. PICK D, S : D = (Ancestors(best, x) \cup {x}) \ {Dummy} /\ S = Subtree(best, x) \ {x}
  OBVIOUS
<1>2. /\ D \subseteq Vars /\ D \cap S = {} /\ Done \cap Below(x) = S
      /\ Heur(x, a) \in Known /\ BestCompletion(S, a) \in Known
      /\ \E t \in Assignments(Vars) : \A y \in D : t[y] = a[y]
      /\ \A t \in Assignments(Vars) : (\A y \in D : t[y] = a[y]) =>
           /\ Heur(x, a) = ProductOf(Family(Pending(x)), t)
           /\ ProductOf(Family(GivenTo(S)), t) \in Known
           /\ ~Greater(ProductOf(Family(GivenTo(S)), t), BestCompletion(S, a))
  <2>1. Completed(x, a, D, S)
    BY <1>1, CompletionsAt
  <2> QED  BY <2>1 DEF Completed
<1>3. PICK t \in Assignments(Vars) : \A y \in D : t[y] = a[y]
  BY <1>2
<1>4. PICK b \in Assignments(Vars) :
        /\ \A y \in Vars \ S : b[y] = t[y]
        /\ ~Greater(ProductOf(Family(Pending(x)), t), ProductOf(Family(GivenTo(S)), b))
  BY <1>2 DEF Attained, AttainedAt
<1>5. \A y \in D : b[y] = a[y]
  BY <1>2, <1>3, <1>4
<1>6. /\ ~Greater(Heur(x, a), ProductOf(Family(GivenTo(S)), b))
      /\ ProductOf(Family(GivenTo(S)), b) \in Known
      /\ ~Greater(ProductOf(Family(GivenTo(S)), b), BestCompletion(S, a))
  BY <1>2, <1>3, <1>4, <1>5
<1>7. ~Greater(Heur(x, a), BestCompletion(S, a))
  <2>1. Heur(x, a) \in Cost
    BY <1>2, TimesLaws
  <2> QED  BY <1>2, <1>6, <2>1, AtMostTransitive
<1>8. ~Greater(BestCompletion(S, a), Heur(x, a))
  BY <1>1, AdmissibleAt
<1> QED  BY <1>1, <1>2, <1>7, <1>8, CostOrder

-----------------------------------------------------------------------------
(* As long as no moments are matched, what the buckets below a node have   *)
(* sent and nobody below it has taken up bounds the product of their       *)
(* functions, at every step of build(); and for some values of their       *)
(* variables it is that product if the heuristic is accurate               *)
(* (MiniBucketElim.cpp:168-346).                                           *)
THEOREM BucketInvariance == Spec => []BucketInv
<1>1. Init => BucketInv
  BY DEF Init, BucketInv
<1>2. OrderInv /\ BucketInv /\ [Next]_vars => BucketInv'
  <2> SUFFICES ASSUME OrderInv, BucketInv, [Next]_vars
               PROVE  BucketInv'
    OBVIOUS
  <2>1. CASE Buckets
    <3>1. CASE ~Plain'
      BY <3>1 DEF BucketInv
    <3> QED  BY <2>1, <3>1, BucketsStep
  <2>2. CASE Ordering \/ RunSLS \/ CompileHeuristic \/ RunLDS \/ FinishPreproc \/ RunSearch
    BY <2>2, NoBucketStep
  <2>3. CASE UNCHANGED vars
    BY <2>3, BucketStutter
  <2> QED  BY <2>1, <2>2, <2>3 DEF Next
<1> QED  BY <1>1, <1>2, OrderInvariance, PTL DEF Spec

(* Without moment matching, and with it if the heuristic is accurate, the  *)
(* mini-bucket heuristic never underestimates what is below a node, for    *)
(* every problem, order, i-bound and way to partition the buckets          *)
(* (MiniBucketElim.cpp:40-58, 168-346).                                    *)
THEOREM HeuristicAdmissibleHolds == Spec => [](Plain => HeuristicAdmissible)
<1>1. OrderInv /\ BucketInv => (Plain => HeuristicAdmissible)
  <2> SUFFICES ASSUME OrderInv, BucketInv, Plain, stage = "built",
                      NEW x \in TreeNodes,
                      NEW a \in Assignments((Ancestors(best, x) \cup {x}) \ {Dummy})
               PROVE  ~Greater(BestCompletion(Subtree(best, x) \ {x}, a), Heur(x, a))
    BY DEF HeuristicAdmissible, ForEveryNode
  <2>1. best # NoTree /\ Delivered /\ Accounted /\ todo = {}
    BY DEF BucketInv
  <2>2. Sound
    BY <2>1, SoundFromOrder
  <2> QED  BY <2>1, <2>2, AdmissibleAt
<1> QED  BY <1>1, OrderInvariance, BucketInvariance, PTL

(* When the heuristic calls itself accurate, because the i-bound reaches   *)
(* the width of the order, it is the best completion at every node: a      *)
(* bucket is never split, and what it sends is what its functions attain   *)
(* (MiniBucketElim.h:181-184, MiniBucketElim.cpp:168-346).                 *)
THEOREM AccurateIsExactHolds == Spec => []AccurateIsExact
<1>1. OrderInv /\ BucketInv => AccurateIsExact
  <2> SUFFICES ASSUME OrderInv, BucketInv, IsAccurate, stage = "built",
                      NEW x \in TreeNodes,
                      NEW a \in Assignments((Ancestors(best, x) \cup {x}) \ {Dummy})
               PROVE  Heur(x, a) = BestCompletion(Subtree(best, x) \ {x}, a)
    BY DEF AccurateIsExact, ForEveryNode
  <2>1. best # NoTree /\ Delivered /\ Accounted /\ Attained /\ todo = {}
    BY DEF BucketInv, Plain
  <2>2. Sound
    BY <2>1, SoundFromOrder
  <2> QED  BY <2>1, <2>2, ExactAt
<1> QED  BY <1>1, OrderInvariance, BucketInvariance, PTL

-----------------------------------------------------------------------------
(* The optimum of the problem, and what the stages after build() know of   *)
(* it.                                                                     *)

(* The functions of the problem are finitely many tables.                  *)
Tables(V) ==
  /\ IsFiniteSet(V) /\ IsFiniteSet(DOMAIN problem.functions)
  /\ \A i \in DOMAIN problem.functions : Table(problem.functions[i], V)

(* A problem of the instances is one of tables over its variables.         *)
LEMMA TablesOfProblem ==
  ASSUME Static
  PROVE  Tables(Vars)
<1>1. /\ IsFiniteSet(Vars) /\ \A s \in Scopes(problem) : s \subseteq Vars
  BY PrimalOfProblem DEF Static
<1>2. /\ problem.functions \in Seq(ToSet(problem.functions))
      /\ \A i \in DOMAIN problem.functions :
           LET f == problem.functions[i]
           IN  DOMAIN f.val = Assignments(f.scope) /\ \A a \in DOMAIN f.val : f.val[a] \in Known
  BY TablesAssumption DEF Static
<1>3. IsFiniteSet(DOMAIN problem.functions)
  <2>1. DOMAIN problem.functions = 1 .. Len(problem.functions) /\ Len(problem.functions) \in Nat
    BY <1>2, LenProperties
  <2> QED  BY <2>1, FS_Interval
<1>4. ASSUME NEW i \in DOMAIN problem.functions
      PROVE  Table(problem.functions[i], Vars)
  <2>1. problem.functions[i].scope = {} \/ problem.functions[i].scope \in Scopes(problem)
    BY DEF Scopes
  <2>2. problem.functions[i].scope \subseteq Vars
    BY <1>1, <2>1
  <2> QED  BY <1>2, <2>2 DEF Table
<1> QED  BY <1>1, <1>3, <1>4 DEF Tables

(* Functions without arguments have the value that the constant takes of   *)
(* them, under every assignment.                                           *)
LEMMA ConstantValue ==
  ASSUME Tables(Vars), NEW a
  PROVE  /\ GlobalConstant \in Known
         /\ GlobalConstant =
              ProductOf(Restrict(problem.functions, DOMAIN problem.functions \ FunctionsWith(Vars)), a)
<1> DEFINE C == DOMAIN problem.functions \ FunctionsWith(Vars)
           F == Restrict(problem.functions, C)
<1>1. DOMAIN F = C /\ \A i \in C : F[i] = problem.functions[i]
  BY DEF Restrict
<1>2. \A i \in C : Table(F[i], Vars) /\ F[i].scope = {}
  BY <1>1 DEF Tables, FunctionsWith, Table
<1>3. IsFiniteSet(DOMAIN F)
  BY <1>1, FS_Subset DEF Tables
<1> HIDE DEF F, C
<1>4. JointScope(F) = {}
  BY <1>1, <1>2 DEF JointScope
<1>5. ProductOf(F, <<>>) \in Known /\ ProductOf(F, <<>>) = ProductOf(F, a)
  <2>1. \A y \in JointScope(F) : <<>>[y] \in Values /\ <<>>[y] = a[y]
    BY <1>4
  <2>2. \A i \in DOMAIN F : Table(F[i], Vars)
    BY <1>1, <1>2
  <2> QED  BY <1>3, <2>1, <2>2, FamilyValue
<1> QED  BY <1>5 DEF GlobalConstant, F, C

(* The optimum is a cost, and no solution is better.                       *)
LEMMA NoSolutionBetter ==
  ASSUME Tables(Vars)
  PROVE  /\ BestCompletion(Vars, <<>>) \in Known /\ Optimum \in Known /\ SomeSolution \in Known
         /\ ~Greater(SomeSolution, Optimum)
<1> DEFINE FW == FunctionsWith(Vars)
           I  == DOMAIN problem.functions
           F  == Restrict(problem.functions, FW)
           E  == Restrict(problem.functions, I \ FW)
           Results == {ProductOf(F, full) : full \in Extensions(<<>>, Vars)}
           zero == [x \in Vars |-> 0]
<1>1. FW \in SUBSET I /\ IsFiniteSet(I) /\ IsFiniteSet(FW)
  BY FS_Subset DEF FunctionsWith, Tables
<1>2. /\ DOMAIN F = FW /\ \A i \in FW : F[i] = problem.functions[i]
      /\ DOMAIN E = I \ FW /\ \A i \in I \ FW : E[i] = problem.functions[i]
  BY DEF Restrict
<1>3. \A i \in FW : Table(F[i], Vars)
  BY <1>1, <1>2 DEF Tables
<1>4. \A e \in Assignments(Vars) : Joined(<<>>, e) = e
  <2>1. ASSUME NEW e \in Assignments(Vars)  PROVE Joined(<<>>, e) = e
    <3>1. DOMAIN e = Vars /\ e = [x \in Vars |-> e[x]]
      BY DEF Assignments
    <3>2. DOMAIN <<>> = {}
      OBVIOUS
    <3>3. Joined(<<>>, e) = [x \in Vars |-> e[x]]
      BY <3>1, <3>2 DEF Joined
    <3> QED  BY <3>1, <3>3
  <2> QED  BY <2>1
<1>5. Extensions(<<>>, Vars) = Assignments(Vars)
  BY <1>4 DEF Extensions
<1>6. zero \in Assignments(Vars)
  BY DomainAssumption DEF Assignments, Values
<1> HIDE DEF zero, F, E, FW, I
<1>7. \A e \in Assignments(Vars) : ProductOf(F, e) \in Known
  <2>1. ASSUME NEW e \in Assignments(Vars)  PROVE ProductOf(F, e) \in Known
    <3>1. \A y \in JointScope(F) : e[y] \in Values
      BY <1>2, <1>3 DEF JointScope, Table, Assignments
    <3> QED  BY <1>1, <1>2, <1>3, <3>1, FamilyValue
  <2> QED  BY <2>1
<1>8. Results \in SUBSET Known /\ IsFiniteSet(Results) /\ ProductOf(F, zero) \in Results
  <2> DEFINE g == [e \in Assignments(Vars) |-> ProductOf(F, e)]
  <2>1. Results = {g[e] : e \in Assignments(Vars)}
    BY <1>5
  <2>2. IsFiniteSet(Assignments(Vars))
    <3>1. IsFiniteSet(Values)
      BY DomainAssumption, FS_Interval DEF Values
    <3> QED  BY <3>1, FunctionSets DEF Assignments, Tables
  <2>3. IsFiniteSet({g[e] : e \in Assignments(Vars)})
    <3> HIDE DEF g
    <3> QED  BY <2>2, FiniteImage
  <2> QED  BY <1>5, <1>6, <1>7, <2>1, <2>3
<1> HIDE DEF Results
<1>9. /\ largest[Results] \in Known /\ ~Greater(ProductOf(F, zero), largest[Results])
  BY <1>8, LargestOf, SpecialCosts DEF Known
<1>10. BestCompletion(Vars, <<>>) = largest[Results]
  BY DEF BestCompletion, BestOver, F, FW, Results
<1>11. ProductOf(E, zero) = GlobalConstant /\ GlobalConstant \in Known
  BY ConstantValue DEF E, I, FW
<1>12. SomeSolution = Times(ProductOf(E, zero), ProductOf(F, zero))
  <2> DEFINE v == [i \in I |-> Value(problem.functions[i], zero)]
  <2>1. \A i \in I : Value(problem.functions[i], zero) \in Known
    <3>1. ASSUME NEW i \in I  PROVE Value(problem.functions[i], zero) \in Known
      <4>1. Table(problem.functions[i], Vars)
        BY DEF Tables, I
      <4>2. \A y \in problem.functions[i].scope : zero[y] \in Values
        BY <1>6, <4>1 DEF Table, Assignments
      <4> QED  BY <4>1, <4>2, TableValue
    <3> QED  BY <3>1
  <2>2. v \in [I -> Known]
    BY <2>1
  <2>3. SomeSolution = Product(v)
    BY DEF SomeSolution, ProductOf, I, zero
  <2>4. ProductOf(E, zero) = Product(Part(v, I \ FW)) /\ ProductOf(F, zero) = Product(Part(v, FW))
    <3>1. [i \in DOMAIN E |-> Value(E[i], zero)] = Part(v, I \ FW)
      BY <1>2 DEF Part
    <3>2. [i \in DOMAIN F |-> Value(F[i], zero)] = Part(v, FW)
      BY <1>1, <1>2 DEF Part
    <3> QED  BY <3>1, <3>2 DEF ProductOf
  <2> HIDE DEF v
  <2>5. Part(v, I) = v
    BY <2>2 DEF Part
  <2>6. (I \ FW) \cup FW = I /\ (I \ FW) \cap FW = {} /\ I \ FW \in SUBSET I
    BY <1>1
  <2>7. Product(Part(v, (I \ FW) \cup FW)) =
          Times(Product(Part(v, I \ FW)), Product(Part(v, FW)))
    BY <1>1, <2>2, <2>6, ProductOfTwo
  <2> QED  BY <2>3, <2>4, <2>5, <2>6, <2>7
<1>13. Optimum = Times(GlobalConstant, largest[Results])
  BY <1>10 DEF Optimum
<1>14. ProductOf(F, zero) \in Known /\ Known \subseteq Cost
  BY <1>6, <1>7, TimesLaws
<1>15. Optimum \in Known /\ SomeSolution \in Known
  BY <1>9, <1>11, <1>12, <1>13, <1>14, TimesLaws
<1>16. ~Greater(GlobalConstant, GlobalConstant)
  BY <1>11, <1>14, NeverGreater
<1> QED  BY <1>9, <1>10, <1>11, <1>12, <1>13, <1>14, <1>15, <1>16, TimesBelow

(* Taking a constant of at most one out of a bound does not lower it.      *)
LEMMA ConstantOut ==
  ASSUME NEW o \in Known, NEW p \in Known, NEW c \in Known,
         ~Greater(o, p), ~Greater(c, ELEM_ONE)
  PROVE  ISNAN(Minus(p, c)) \/ (Minus(p, c) \in Known /\ ~Greater(o, Minus(p, c)))
<1>1. CASE c = ELEM_ZERO
  BY <1>1, SpecialCosts DEF Minus, Finite, ISNAN
<1>2. CASE c \in Int
  <2>1. c <= 0
    BY <1>2, SpecialCosts DEF Greater, greater, Known, Cost, ELEM_ONE
  <2>2. CASE p = ELEM_ZERO
    <3>1. p \notin Int
      BY <2>2, SpecialCosts
    <3>2. Minus(p, c) = ELEM_ZERO
      BY <1>2, <2>2, <3>1 DEF Minus, Finite
    <3> QED  BY <2>2, <3>2 DEF Known
  <2>3. CASE p \in Int
    <3>1. Minus(p, c) = p - c /\ p - c \in Int /\ p <= p - c
      <4>1. p # ELEM_ZERO
        BY <2>3, SpecialCosts
      <4> QED  BY <1>2, <2>1, <2>3, <4>1 DEF Minus, Finite
    <3>2. ~Greater(o, p - c)
      BY <2>3, <3>1, SpecialCosts DEF Greater, greater, Known, Cost
    <3> QED  BY <3>1, <3>2 DEF Known
  <2> QED  BY <2>2, <2>3 DEF Known
<1> QED  BY <1>1, <1>2 DEF Known

(* The bound on the whole problem is no less than the optimum, if taking   *)
(* out the constant does not lower it.                                     *)
LEMMA RootBound ==
  ASSUME Sound, Delivered, Accounted, todo = {}, ~Greater(GlobalConstant, ELEM_ONE),
         globalUB = Minus(ProductOf(Family(Collected(Dummy)), <<>>), GlobalConstant)
  PROVE  ISNAN(globalUB) \/ (globalUB \in Known /\ ~Greater(Optimum, globalUB))
<1> DEFINE H == Heur(Dummy, <<>>)
           P == ProductOf(Family(Collected(Dummy)), <<>>)
           I == DOMAIN problem.functions
           A == augmented[Dummy]
           K == Given(Dummy)
<1>1. /\ Dummy \notin Vars /\ Ancestors(best, Dummy) = {} /\ Dummy \in TreeNodes
      /\ Tables(Vars)
  BY DEF Sound, TreeNodes, OwnersFit, Tables
<1>2. Subtree(best, Dummy) \ {Dummy} = Vars
  BY <1>1 DEF Subtree, Sound, Line, Ancestors
<1>3. <<>> \in Assignments((Ancestors(best, Dummy) \cup {Dummy}) \ {Dummy})
  BY <1>1 DEF Assignments
<1>4. ~Greater(BestCompletion(Vars, <<>>), H)
  BY <1>1, <1>2, <1>3, AdmissibleAt
<1>5. intermediate[Dummy] = {} /\ A \in SUBSET DOMAIN sent
  BY <1>1 DEF Delivered, PassedOn
<1>6. K \in SUBSET Names /\ K \cap DOMAIN sent = {} /\ A \in SUBSET Names
      /\ IsFiniteSet(Names) /\ \A n \in Names : Table(FunctionAt(n), Vars)
  <2>1. K = GivenTo({Dummy})
    BY DEF GivenTo
  <2> QED  BY <1>5, <2>1, NamedTables DEF Names
<1>7. K = {<<GIVEN, i>> : i \in I \ FunctionsWith(Vars)}
  <2>1. ASSUME NEW i \in I
        PROVE  i \in FunctionsOf(best, Dummy) <=> i \notin FunctionsWith(Vars)
    <3>1. problem.functions[i].scope # {} =>
            Owner(best, problem.functions[i]) = Earliest(best.order, problem.functions[i].scope)
      BY DEF Owner, Earliest
    <3>2. problem.functions[i].scope = {} => Owner(best, problem.functions[i]) = Dummy
      BY DEF Owner
    <3>3. problem.functions[i].scope \subseteq Vars
      BY <1>1 DEF Tables, Table
    <3> QED  BY <1>1, <3>1, <3>2, <3>3 DEF FunctionsOf, FunctionsWith, Sound, OwnersFit
  <2> QED  BY <2>1 DEF Given, FunctionsOf
<1>8. /\ \A n \in A : FunctionAt(n).scope = {}
      /\ \A n \in K : FunctionAt(n).scope = {}
  <2>1. augmented[Dummy] \cup intermediate[Dummy] = Pending(Dummy)
        /\ \A n \in Pending(Dummy) :
             FunctionAt(n).scope \subseteq (Ancestors(best, Dummy) \cup {Dummy}) \ {Dummy}
    BY <1>1, MessagesAt
  <2>2. \A i \in I \ FunctionsWith(Vars) : problem.functions[i].scope = {}
    BY <1>1 DEF Tables, Table, FunctionsWith
  <2> QED  BY <1>1, <1>7, <2>1, <2>2 DEF FunctionAt
<1> DEFINE v == [n \in K \cup A |-> Value(FunctionAt(n), <<>>)]
<1> HIDE DEF I, A, K, H, P
<1>9. /\ v \in [K \cup A -> Known] /\ IsFiniteSet(K \cup A) /\ K \cap A = {}
  <2>1. ASSUME NEW n \in K \cup A  PROVE Value(FunctionAt(n), <<>>) \in Known
    <3>1. Table(FunctionAt(n), Vars) /\ FunctionAt(n).scope = {}
      BY <1>6, <1>8
    <3>2. \A y \in FunctionAt(n).scope : <<>>[y] \in Values
      BY <3>1
    <3> QED  BY <3>1, <3>2, TableValue
  <2> QED  BY <1>5, <1>6, <2>1, FS_Subset
<1>10. \A T \in SUBSET (K \cup A) : ProductOf(Family(T), <<>>) = Product(Part(v, T))
  <2>1. ASSUME NEW T \in SUBSET (K \cup A)
        PROVE  [n \in DOMAIN Family(T) |-> Value(Family(T)[n], <<>>)] = Part(v, T)
    BY DEF Family, Part
  <2> QED  BY <2>1 DEF ProductOf
<1> HIDE DEF v
<1>11. /\ Product(Part(v, K)) \in Known /\ Product(Part(v, A)) \in Known
       /\ Product(Part(v, K \cup A)) = Times(Product(Part(v, K)), Product(Part(v, A)))
  <2>1. K \in SUBSET (K \cup A) /\ A \in SUBSET (K \cup A)
    OBVIOUS
  <2> QED  BY <1>9, <2>1, ProductOfTwo
<1>12. P = Product(Part(v, K \cup A))
  BY <1>10 DEF P, Collected, K, A
<1>13. H = Product(Part(v, A))
  <2>1. augmented[Dummy] \cup intermediate[Dummy] = A
    BY <1>5 DEF A
  <2> QED  BY <1>10, <2>1 DEF H, Heur
<1>14. ProductOf(Family(K), <<>>) = GlobalConstant
  <2> DEFINE C == I \ FunctionsWith(Vars)
  <2>1. \A i \in C : Value(problem.functions[i], <<>>) \in Known
    <3>1. \A i \in C : <<GIVEN, i>> \in K /\ FunctionAt(<<GIVEN, i>>) = problem.functions[i]
      BY <1>7 DEF FunctionAt
    <3>2. \A n \in K : v[n] = Value(FunctionAt(n), <<>>)
      BY DEF v
    <3> QED  BY <1>9, <3>1, <3>2
  <2>2. C \in SUBSET DOMAIN problem.functions /\ IsFiniteSet(DOMAIN problem.functions)
    BY <1>1 DEF Tables, I
  <2> QED  BY <1>7, <2>1, <2>2, GivenProduct DEF GlobalConstant, I
<1>15. P = Times(GlobalConstant, H) /\ GlobalConstant \in Known /\ H \in Known
  BY <1>10, <1>11, <1>12, <1>13, <1>14
<1>16. BestCompletion(Vars, <<>>) \in Known /\ Optimum = Times(GlobalConstant, BestCompletion(Vars, <<>>))
       /\ Optimum \in Known
  BY <1>1, NoSolutionBetter DEF Optimum
<1>17. ~Greater(Optimum, P) /\ P \in Known
  <2>1. GlobalConstant \in Cost /\ H \in Cost /\ BestCompletion(Vars, <<>>) \in Cost
    BY <1>15, <1>16, TimesLaws
  <2>2. ~Greater(GlobalConstant, GlobalConstant)
    BY <2>1, NeverGreater
  <2>3. P \in Known
    BY <1>15, TimesLaws
  <2> QED  BY <1>4, <1>15, <1>16, <2>1, <2>2, <2>3, TimesBelow
<1> QED  BY <1>15, <1>16, <1>17, ConstantOut DEF P
-----------------------------------------------------------------------------
(* The stages of main() after build(), under the conditions of the theorem *)
(* below: no function is shifted, a constant of at most one, and a user's  *)
(* bound that leaves something to find.                                    *)
ToBeSearched ==
  /\ Plain /\ ~Greater(GlobalConstant, ELEM_ONE)
  /\ ISNAN(initialBound) \/ Greater(optimum, initialBound)

(* The flag m_solved says no more than that the heuristic is accurate; and *)
(* then LDS has found the optimum.                                         *)
HandedOn ==
  /\ stage \in {"lds", "finish"} => rootValue = initialBound
  /\ stage = "lds" => ~ReachesUB(rootValue) /\ (IsAccurate => lds)
  /\ stage \in {"lds", "finish", "search"} => (solved <=> IsAccurate)
  /\ stage \in {"finish", "search"} => (IsAccurate => curCost = optimum)
  /\ stage = "search" => rootValue \in {ELEM_NAN, initialBound, curCost}
  /\ stage = "done" => curCost = optimum

LateStages == {"lds", "finish", "search", "done"}

MainInv ==
  /\ optimum = Optimum
  /\ curCost = ELEM_NAN \/ (curCost \in Known /\ ~Greater(curCost, optimum))
  /\ initialBound \in Int \cup {ELEM_NAN}
  /\ stage \notin LateStages => initialBound = ELEM_NAN /\ rootValue = ELEM_NAN
  /\ stage = "built" =>
       globalUB = Minus(ProductOf(Family(Collected(Dummy)), <<>>), GlobalConstant)
  /\ ToBeSearched => HandedOn

(* The cost of a solution replaces what is known only if it is better.     *)
LEMMA ReportedCost ==
  ASSUME NEW o \in Known, optimum = o, NEW c \in Known \cup {ELEM_NAN},
         c = ELEM_NAN \/ ~Greater(c, o),
         curCost = ELEM_NAN \/ (curCost \in Known /\ ~Greater(curCost, o))
  PROVE  /\ Reported(c) = ELEM_NAN \/ (Reported(c) \in Known /\ ~Greater(Reported(c), o))
         /\ c = o => Reported(c) = o
<1>1. o # ELEM_NAN
  BY CostOrder
<1>2. Reported(c) = IF c = ELEM_NAN \/ Greater(curCost, c) THEN curCost ELSE c
  BY DEF Reported, ISNAN
<1>3. o \in Cost /\ ~Greater(ELEM_NAN, o)
  BY TimesLaws, NeverGreater
<1> QED  BY <1>1, <1>2, <1>3

(* What depends on the problem alone, and on the tree and the i-bound.     *)
LEMMA ProblemStays ==
  ASSUME UNCHANGED <<problem, primal>>
  PROVE  /\ Optimum' = Optimum /\ GlobalConstant' = GlobalConstant
         /\ SomeSolution' = SomeSolution
         /\ UNCHANGED <<best, ibound>> => IsAccurate' = IsAccurate
<1>1. Vars' = Vars
  BY DEF Vars
<1>2. /\ FunctionsWith(Vars)' = FunctionsWith(Vars) /\ GlobalConstant' = GlobalConstant
      /\ BestCompletion(Vars, <<>>)' = BestCompletion(Vars, <<>>)
  BY <1>1 DEF FunctionsWith, GlobalConstant, BestCompletion
<1> QED  BY <1>1, <1>2 DEF Optimum, SomeSolution, IsAccurate

(* Ordering and build() do not touch the best cost, nor the bounds.        *)
LEMMA EarlyStep ==
  ASSUME OrderInv, MainInv, stage \notin LateStages,
         (Ordering /\ UNCHANGED <<bucketVars, mainVars>>) \/ (Buckets /\ UNCHANGED mainVars)
  PROVE  MainInv'
<1>1. UNCHANGED <<problem, primal, mainVars>> /\ stage' \notin LateStages
  <2>1. CASE Ordering /\ UNCHANGED <<bucketVars, mainVars>>
    BY <2>1 DEF Ordering, StartElimination, RemoveSimplicial, EliminateNode, StartBuild, LateStages,
                InsertNewNode, FinishBuild, DropCandidate, FinishOrdering, ChainNode, FinishChain
  <2>2. CASE Buckets /\ UNCHANGED mainVars
    BY <2>2 DEF Buckets, StartBuckets, OpenBucket, PlaceFunction, MatchMoments, SendMessages,
                ProcessRootBucket, LateStages
  <2> QED  BY <2>1, <2>2
<1>2. Optimum' = Optimum /\ GlobalConstant' = GlobalConstant
  BY <1>1, ProblemStays
<1>3. ASSUME stage' = "built"
      PROVE  globalUB' = Minus(ProductOf(Family(Collected(Dummy)), <<>>), GlobalConstant)'
  <2>1. ProcessRootBucket
    <3>1. ~Ordering
      BY <1>3 DEF Ordering, StartElimination, RemoveSimplicial, EliminateNode, StartBuild,
                  InsertNewNode, FinishBuild, DropCandidate, FinishOrdering, ChainNode, FinishChain
    <3> QED  BY <1>3, <3>1 DEF Buckets, StartBuckets, OpenBucket, PlaceFunction, MatchMoments,
                               SendMessages
  <2>2. /\ UNCHANGED <<problem, primal, best, sent, augmented>>
        /\ globalUB' = Minus(ProductOf(Family(Collected(Dummy)), <<>>), GlobalConstant)
    BY <2>1 DEF ProcessRootBucket
  <2>3. Dummy' = Dummy /\ Collected(Dummy)' = Collected(Dummy)
    BY <2>2 DEF Dummy, Vars, Collected, Given, FunctionsOf, Owner
  <2>4. Family(Collected(Dummy))' = Family(Collected(Dummy))
    BY <2>2, <2>3 DEF Family, FunctionAt
  <2> QED  BY <1>2, <2>2, <2>4
<1>4. UNCHANGED <<optimum, curCost, initialBound, rootValue>>
  BY <1>1 DEF mainVars
<1>5. HandedOn'
  BY <1>1 DEF HandedOn, LateStages
<1> QED  BY <1>1, <1>2, <1>3, <1>4, <1>5 DEF MainInv

(* Local search contributes the cost of a solution.                        *)
LEMMA LocalSearchStep ==
  ASSUME OrderInv, MainInv, RunSLS
  PROVE  MainInv'
<1>1. /\ UNCHANGED <<problem, primal, optimum, initialBound, rootValue>>
      /\ stage = "sls" /\ stage' = "ordering"
  BY DEF RunSLS
<1>2. PICK c \in {ELEM_NAN, SomeSolution} : curCost' = Reported(c)
  BY DEF RunSLS
<1>3. /\ Optimum' = Optimum /\ optimum = Optimum
      /\ Optimum \in Known /\ SomeSolution \in Known /\ ~Greater(SomeSolution, Optimum)
  BY <1>1, ProblemStays, TablesOfProblem, NoSolutionBetter DEF OrderInv, MainInv
<1>4. curCost' = ELEM_NAN \/ (curCost' \in Known /\ ~Greater(curCost', Optimum))
  BY <1>2, <1>3, ReportedCost DEF MainInv
<1>5. HandedOn'
  BY <1>1 DEF HandedOn
<1> QED  BY <1>1, <1>3, <1>4, <1>5 DEF MainInv, LateStages

(* A bound below the optimum does not reach the bound of the heuristic.    *)
LEMMA CompileStep ==
  ASSUME OrderInv, BucketInv, MainInv, CompileHeuristic
  PROVE  MainInv'
<1>1. /\ UNCHANGED <<problem, primal, best, match, ibound, globalUB, optimum, curCost>>
      /\ stage = "built" /\ stage' = "lds"
      /\ initialBound' \in UserBounds /\ rootValue' = LoadedAtRoot(initialBound')
      /\ solved' = (ReachesUB(rootValue') \/ IsAccurate)
      /\ \E given \in LdsModes : lds' = RunsLDS(given)
  BY DEF CompileHeuristic, bucketVars
<1>2. /\ Optimum' = Optimum /\ GlobalConstant' = GlobalConstant /\ IsAccurate' = IsAccurate
      /\ optimum = Optimum /\ Optimum \in Known
  BY <1>1, ProblemStays, TablesOfProblem, NoSolutionBetter DEF OrderInv, MainInv
<1>3. initialBound' \in Int \cup {ELEM_NAN}
  BY <1>1, <1>2, MainAssumption DEF UserBounds, Known
<1>4. rootValue' = initialBound'
  <2>1. rootValue = ELEM_NAN
    BY <1>1 DEF MainInv, LateStages
  <2> QED  BY <1>1, <2>1 DEF LoadedAtRoot, ISNAN
<1>5. ASSUME ToBeSearched'
      PROVE  ~ReachesUB(rootValue')
  <2>1. Plain /\ ~Greater(GlobalConstant, ELEM_ONE)
        /\ (initialBound' = ELEM_NAN \/ Greater(optimum, initialBound'))
    BY <1>1, <1>2, <1>5 DEF ToBeSearched, ISNAN, Plain
  <2>2. Sound /\ Delivered /\ Accounted /\ todo = {}
    BY <1>1, <2>1, SoundFromOrder DEF BucketInv
  <2>3. ISNAN(globalUB) \/ (globalUB \in Known /\ ~Greater(Optimum, globalUB))
    BY <1>1, <2>1, <2>2, RootBound DEF MainInv
  <2>4. \A o, u \in Known : \A b \in Int : ~Greater(o, u) /\ Greater(o, b) => Greater(u, b)
    BY SpecialCosts DEF Greater, greater, Known, Cost
  <2> QED  BY <1>2, <1>3, <1>4, <2>1, <2>3, <2>4 DEF ReachesUB, ISNAN
<1>6. ToBeSearched' => HandedOn'
  <2> SUFFICES ASSUME ToBeSearched'  PROVE HandedOn'
    OBVIOUS
  <2>1. ~ReachesUB(rootValue') /\ ~ReachesUB(rootValue)'
    BY <1>1, <1>5 DEF ReachesUB
  <2>2. IsAccurate => lds'
    BY <1>1, <2>1 DEF RunsLDS
  <2> QED  BY <1>1, <1>2, <1>4, <2>1, <2>2 DEF HandedOn
<1>7. curCost' = ELEM_NAN \/ (curCost' \in Known /\ ~Greater(curCost', optimum'))
  BY <1>1 DEF MainInv
<1> QED  BY <1>1, <1>2, <1>3, <1>6, <1>7 DEF MainInv, LateStages

(* LDS finds a solution, and the best one if the heuristic is accurate.    *)
LEMMA LDSStep ==
  ASSUME OrderInv, MainInv, RunLDS
  PROVE  MainInv'
<1>1. /\ UNCHANGED <<problem, primal, best, match, ibound, globalUB, optimum, initialBound, rootValue>>
      /\ stage = "lds" /\ stage' = "finish"
  BY DEF RunLDS, bucketVars
<1>2. /\ Optimum' = Optimum /\ GlobalConstant' = GlobalConstant /\ IsAccurate' = IsAccurate
      /\ optimum = Optimum /\ Optimum \in Known /\ SomeSolution \in Known
      /\ ~Greater(SomeSolution, Optimum)
  BY <1>1, ProblemStays, TablesOfProblem, NoSolutionBetter DEF OrderInv, MainInv
<1>3. curCost = ELEM_NAN \/ (curCost \in Known /\ ~Greater(curCost, Optimum))
  BY <1>2 DEF MainInv
<1>4. ASSUME lds
      PROVE  /\ curCost' = ELEM_NAN \/ (curCost' \in Known /\ ~Greater(curCost', Optimum))
             /\ IsAccurate => curCost' = Optimum
             /\ solved' <=> solved \/ ReachesUB(rootValue)
  <2>1. PICK c \in LdsResults : curCost' = Reported(c)
    BY <1>4 DEF RunLDS
  <2>2. c \in Known /\ ~Greater(c, Optimum) /\ (IsAccurate => c = Optimum)
    <3>1. ~Greater(Optimum, Optimum)
      BY <1>2, TimesLaws, NeverGreater
    <3> QED  BY <1>2, <2>1, <3>1 DEF LdsResults
  <2>3. solved' <=> solved \/ ReachesUB(rootValue)
    <3>1. solved' = (solved \/ ReachesUB(rootValue))
      BY <1>4 DEF RunLDS
    <3> QED  BY <3>1, Zenon
  <2> QED  BY <1>2, <1>3, <2>1, <2>2, <2>3, ReportedCost
<1>5. ~lds => UNCHANGED <<curCost, solved>>
  BY DEF RunLDS
<1>6. curCost' = ELEM_NAN \/ (curCost' \in Known /\ ~Greater(curCost', Optimum))
  BY <1>3, <1>4, <1>5
<1>7. ToBeSearched' => HandedOn'
  <2> SUFFICES ASSUME ToBeSearched'  PROVE HandedOn'
    OBVIOUS
  <2>1. ToBeSearched
    BY <1>1, <1>2 DEF ToBeSearched, Plain
  <2>2. rootValue = initialBound /\ ~ReachesUB(rootValue) /\ (IsAccurate => lds)
        /\ (solved <=> IsAccurate)
    BY <1>1, <2>1 DEF MainInv, HandedOn
  <2>3. solved' <=> IsAccurate
    BY <1>4, <1>5, <2>2
  <2>4. IsAccurate => curCost' = Optimum
    BY <1>4, <2>2
  <2> QED  BY <1>1, <1>2, <2>2, <2>3, <2>4 DEF HandedOn
<1> QED  BY <1>1, <1>2, <1>6, <1>7 DEF MainInv, LateStages

(* The root of the search takes over the better of the two costs.          *)
LEMMA FinishStep ==
  ASSUME OrderInv, MainInv, FinishPreproc
  PROVE  MainInv'
<1>1. /\ UNCHANGED <<problem, primal, best, match, ibound, optimum, initialBound, curCost, solved>>
      /\ stage = "finish" /\ stage' = "search" /\ rootValue' = LoadedAtRoot(curCost)
  BY DEF FinishPreproc, bucketVars
<1>2. /\ Optimum' = Optimum /\ GlobalConstant' = GlobalConstant /\ IsAccurate' = IsAccurate
  BY <1>1, ProblemStays
<1>3. ToBeSearched' => HandedOn'
  <2> SUFFICES ASSUME ToBeSearched'  PROVE HandedOn'
    OBVIOUS
  <2>1. ToBeSearched
    BY <1>1, <1>2 DEF ToBeSearched, Plain
  <2>2. rootValue = initialBound /\ (solved <=> IsAccurate) /\ (IsAccurate => curCost = optimum)
    BY <1>1, <2>1 DEF MainInv, HandedOn
  <2>3. rootValue' \in {initialBound, curCost}
    BY <1>1, <2>2 DEF LoadedAtRoot
  <2> QED  BY <1>1, <1>2, <2>2, <2>3 DEF HandedOn
<1> QED  BY <1>1, <1>2, <1>3 DEF MainInv, LateStages

(* The main search is skipped only if the optimum is known; and what it    *)
(* does not report because its root has it is known.                       *)
LEMMA SearchStep ==
  ASSUME OrderInv, MainInv, RunSearch
  PROVE  MainInv'
<1>1. /\ UNCHANGED <<problem, primal, best, match, ibound, optimum, initialBound>>
      /\ stage = "search" /\ stage' = "done"
  BY DEF RunSearch, bucketVars
<1>2. /\ Optimum' = Optimum /\ GlobalConstant' = GlobalConstant /\ IsAccurate' = IsAccurate
      /\ optimum = Optimum /\ Optimum \in Known
  BY <1>1, ProblemStays, TablesOfProblem, NoSolutionBetter DEF OrderInv, MainInv
<1>3. /\ curCost = ELEM_NAN \/ (curCost \in Known /\ ~Greater(curCost, Optimum))
      /\ initialBound \in Int \cup {ELEM_NAN} /\ Optimum # ELEM_NAN
  BY <1>2, CostOrder DEF MainInv
<1>4. Reported(Optimum) = Optimum /\ ~Greater(Optimum, Optimum)
  <2>1. ~Greater(Optimum, Optimum)
    BY <1>2, TimesLaws, NeverGreater
  <2> QED  BY <1>2, <1>3, <2>1, ReportedCost
<1>5. curCost' = curCost \/ curCost' = Optimum
  BY <1>2, <1>4 DEF RunSearch
<1>6. ToBeSearched' => curCost' = optimum'
  <2> SUFFICES ASSUME ToBeSearched'  PROVE curCost' = Optimum
    BY <1>1, <1>2
  <2>1. ToBeSearched
    BY <1>1, <1>2 DEF ToBeSearched, Plain
  <2>2. /\ rootValue \in {ELEM_NAN, initialBound, curCost}
        /\ (solved <=> IsAccurate) /\ (IsAccurate => curCost = Optimum)
    BY <1>1, <1>2, <2>1 DEF MainInv, HandedOn
  <2>3. CASE solved
    BY <2>2, <2>3 DEF RunSearch
  <2>4. CASE ~solved
    <3>1. /\ rootValue' = LoadedAtRoot(Optimum)
          /\ curCost' = IF rootValue' # rootValue THEN Optimum ELSE curCost
      BY <1>2, <1>4, <2>4 DEF RunSearch
    <3>2. CASE rootValue = ELEM_NAN
      BY <1>3, <3>1, <3>2 DEF LoadedAtRoot, ISNAN
    <3>3. CASE rootValue # ELEM_NAN /\ rootValue = initialBound
      <4>1. Greater(Optimum, rootValue)
        BY <1>2, <2>1, <3>3 DEF ToBeSearched, ISNAN
      <4>2. Optimum # rootValue
        BY <1>4, <4>1
      <4> QED  BY <1>3, <3>1, <4>1, <4>2 DEF LoadedAtRoot, ISNAN
    <3>4. CASE rootValue # ELEM_NAN /\ rootValue = curCost
      <4>1. curCost \in Known /\ ~Greater(curCost, Optimum)
        BY <1>3, <3>4
      <4>2. CASE Greater(Optimum, curCost)
        <5>1. rootValue' = Optimum /\ Optimum # rootValue
          BY <1>3, <1>4, <3>1, <3>4, <4>2 DEF LoadedAtRoot, ISNAN
        <5> QED  BY <3>1, <5>1
      <4>3. CASE ~Greater(Optimum, curCost)
        <5>1. curCost = Optimum
          BY <1>2, <4>1, <4>3, CostOrder
        <5> QED  BY <3>1, <5>1
      <4> QED  BY <4>2, <4>3
    <3> QED  BY <2>2, <3>2, <3>3, <3>4
  <2> QED  BY <2>3, <2>4
<1>7. ToBeSearched' => HandedOn'
  BY <1>1, <1>6 DEF HandedOn
<1>8. curCost' = ELEM_NAN \/ (curCost' \in Known /\ ~Greater(curCost', optimum'))
  BY <1>1, <1>2, <1>3, <1>4, <1>5
<1> QED  BY <1>1, <1>2, <1>3, <1>7, <1>8 DEF MainInv, LateStages

(* And where nothing happens the invariant stays.                          *)
LEMMA MainStutter ==
  ASSUME MainInv, UNCHANGED vars
  PROVE  MainInv'
<1>1. UNCHANGED <<problem, primal, stage, best, match, ibound, sent, augmented, globalUB,
                  optimum, initialBound, lds, curCost, rootValue, solved>>
  BY DEF vars, orderVars, bucketVars, mainVars
<1>2. /\ Optimum' = Optimum /\ GlobalConstant' = GlobalConstant /\ IsAccurate' = IsAccurate
  BY <1>1, ProblemStays
<1>3. Collected(Dummy)' = Collected(Dummy)
  BY <1>1 DEF Dummy, Vars, Collected, Given, FunctionsOf, Owner
<1>4. Family(Collected(Dummy))' = Family(Collected(Dummy))
  BY <1>1, <1>3 DEF Family, FunctionAt
<1>5. ToBeSearched' = ToBeSearched /\ HandedOn' = HandedOn
  BY <1>1, <1>2 DEF ToBeSearched, Plain, HandedOn, ReachesUB
<1> QED  BY <1>1, <1>2, <1>4, <1>5 DEF MainInv

-----------------------------------------------------------------------------
(* What each stage of main() hands to the next: the cost found so far is   *)
(* never better than the optimum, the bound of the user is below that of   *)
(* the heuristic, and m_solved means that LDS has had an exact heuristic   *)
(* (Main.cpp:829-838, 891-895).                                            *)
THEOREM MainInvariance == Spec => []MainInv
<1>1. Init => MainInv
  BY DEF Init, MainInv, HandedOn, LateStages
<1>2. OrderInv /\ BucketInv /\ MainInv /\ [Next]_vars => MainInv'
  <2> SUFFICES ASSUME OrderInv, BucketInv, MainInv, [Next]_vars
               PROVE  MainInv'
    OBVIOUS
  <2>1. CASE Ordering /\ UNCHANGED <<bucketVars, mainVars>>
    <3>1. stage \notin LateStages
      BY <2>1 DEF Ordering, StartElimination, RemoveSimplicial, EliminateNode, StartBuild, LateStages,
                  InsertNewNode, FinishBuild, DropCandidate, FinishOrdering, ChainNode, FinishChain
    <3> QED  BY <2>1, <3>1, EarlyStep
  <2>2. CASE Buckets /\ UNCHANGED mainVars
    <3>1. stage \notin LateStages
      BY <2>2 DEF Buckets, StartBuckets, OpenBucket, PlaceFunction, MatchMoments, SendMessages,
                  ProcessRootBucket, LateStages
    <3> QED  BY <2>2, <3>1, EarlyStep
  <2>3. CASE UNCHANGED vars
    BY <2>3, MainStutter
  <2> QED  BY <2>1, <2>2, <2>3, LocalSearchStep, CompileStep, LDSStep, FinishStep, SearchStep
           DEF Next
<1> QED  BY <1>1, <1>2, OrderInvariance, BucketInvariance, PTL DEF Spec

(* Without moment matching, and with it if the heuristic is accurate, for  *)
(* every problem whose constant is at most one and whichever stages were   *)
(* skipped, the cost printed at the end is the optimum, unless the user's  *)
(* bound already reaches it (Main.cpp:829-838, 891-895,                    *)
(* daoopt_solver.cpp:355-385).                                             *)
THEOREM OutputsOptimumHolds ==
  Spec => [](Plain /\ ~Greater(GlobalConstant, ELEM_ONE) => OutputsOptimum)
<1>1. MainInv => (Plain /\ ~Greater(GlobalConstant, ELEM_ONE) => OutputsOptimum)
  BY DEF MainInv, ToBeSearched, HandedOn, OutputsOptimum
<1> QED  BY <1>1, MainInvariance, PTL
=============================================================================
