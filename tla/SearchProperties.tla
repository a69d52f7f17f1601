-------------------------- MODULE SearchProperties --------------------------
(***************************************************************************)
(* What must hold of the search space under any search scheme.  "open" is  *)
(* the set of nodes the scheme still holds in its stack or stacks.         *)
(***************************************************************************)
EXTENDS AOSearch

Path == Seq(Vars \cup Int)

(* The shape of the variables that all schemes share. *)
SearchTypeOK ==
  /\ Live \subseteq Path
  /\ assignment \in [Vars -> Int]
  /\ DOMAIN cache = Vars
  /\ phase \in {"next", "climb", "finish", "heur", "heurEnd", "done"}
  /\ DOMAIN reg = DOMAIN Idle
  /\ reg.leaf \in Path /\ reg.prev \in Path /\ reg.high \in Path
  /\ reg.prop \in BOOLEAN /\ reg.del \in BOOLEAN

(* No node is used after eraseChild has deleted it: the open nodes and     *)
(* those propagate works on are alive, and so are all their ancestors,     *)
(* which pruning and propagation follow upwards.                           *)
NoneDangling(open) ==
  /\ open \subseteq Live
  /\ \A p \in Live : \A k \in 1 .. Len(p) : Prefix(p, k) \in Live
  /\ phase \in {"climb", "finish"} => {reg.leaf, reg.prev} \subseteq Live
  /\ phase = "finish" /\ reg.high # NULL => reg.high \in Live

(* Nothing is lost and nothing is leaked: the nodes without children are   *)
(* the open ones and the leaf that is being propagated.  Whatever else has *)
(* been closed is erased; only the root stays.                             *)
OpenNodesAreLeaves(open) ==
  {p \in Live : Childless(p)} \ {RootNode} =
    (open \cup (IF phase \in {"climb", "finish"} THEN {reg.leaf} ELSE {})) \ {RootNode}

(* What the search can still find below p, and has found already.          *)
Reachable(open) ==
  LET exact(p) == IF IsOR(p) THEN ExactOR(prob, p) ELSE ExactAND(prob, p)
      known(p) == IF ISNAN(node[p].value) THEN ELEM_ZERO ELSE node[p].value
      reach[p \in Live] ==
        IF p \in open THEN Larger(exact(p), known(p))
        ELSE IF Childless(p) THEN known(p)
        ELSE IF IsAND(p) THEN Times(node[p].subSolved, Product([q \in Kids(p) |-> reach[q]]))
        ELSE Larger(known(p), Maximum([q \in Kids(p) |-> Times(reach[q], node[q].label)]))
  IN  reach

(* No pruning and no cache entry cuts off the optimum: it is the value of  *)
(* the root, or can still be put together from the open nodes.             *)
CompletesToOptimum(open) == phase # "done" => Reachable(open)[RootNode] = Optimum(prob)

(* Every known value is at most the optimum of its subproblem: it is the   *)
(* cost of a real solution of it (an anytime bound, Problem reports it).   *)
ValuesAreLowerBounds ==
  \A p \in Live :
    ISNAN(node[p].value) \/
    ~Greater(node[p].value, IF IsOR(p) THEN ExactOR(prob, p) ELSE ExactAND(prob, p))

(* A subproblem found in the cache has its optimum as its value, although  *)
(* the table may be shared by several values of the variables that an      *)
(* adaptive context leaves out.                                            *)
CacheHitsExact ==
  phase = "climb" /\ reg.prev = reg.leaf /\ IsOR(reg.leaf) /\ ~node[reg.leaf].pruned
    => node[reg.leaf].value = ExactOR(prob, reg.leaf)

(* What is written to a table is the optimum of the subproblem, although   *)
(* parts of it may have been pruned against solutions of other parts.      *)
CacheWritesExact ==
  [][\A x \in Vars : \A c \in DOMAIN cache'[x] \ DOMAIN cache[x] :
        cache'[x][c] = ExactOR(prob, reg.prev)]_searchVars

(* When solve returns, the root and Problem hold the optimum.              *)
ResultOptimal ==
  phase = "done" => node[RootNode].value = Optimum(prob) /\ curCost = Optimum(prob)

(* The bound that is printed with "h" and compared with the solution       *)
(* ("LB >= UB", Search.h) bounds what is better than the best value known. *)
UpperBoundSound ==
  ISNAN(upper) \/ node[RootNode].value = Optimum(prob) \/ ~Greater(Optimum(prob), upper)

(* solve returns.                                                          *)
Terminates == <>(phase = "done")

Anytime == INSTANCE AnytimeSolver
  WITH best <- curCost, finished <- (phase = "done"), optimum <- Optimum(prob)
(* The cost reported to the user improves step by step and is the optimum  *)
(* when the search ends.                                                   *)
ImplementsAnytime == Anytime!Spec
=============================================================================
