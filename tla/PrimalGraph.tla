---------------------------- MODULE PrimalGraph ----------------------------
(***************************************************************************)
(* The undirected graph of Graph.h and Graph.cpp.  A graph is a function   *)
(* from its nodes to the sets of their neighbours (m_neighbors), with      *)
(* every edge in both directions, as in the code.                          *)
(***************************************************************************)
EXTENDS Integers, FiniteSetsExt

NodesOf(G) == DOMAIN G

AddClique(G, S) ==
  [x \in NodesOf(G) \cup S |->
     (IF x \in NodesOf(G) THEN G[x] ELSE {}) \cup (IF x \in S THEN S \ {x} ELSE {})]

RemoveNodes(G, S) == [x \in NodesOf(G) \ S |-> G[x] \ S]
RemoveNode(G, x)  == RemoveNodes(G, {x})

(* The edges that eliminating x would add. *)
FillIn(G, x) == {e \in kSubset(2, G[x]) : \A y \in e : e \cap G[y] = {}}
ScoreMinfill(G, x) == Cardinality(FillIn(G, x))

FromScopes(scopes) ==
  [x \in UNION scopes |-> (UNION {s \in scopes : x \in s}) \ {x}]
=============================================================================
