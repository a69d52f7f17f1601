------------------------------- MODULE AOStar -------------------------------
(***************************************************************************)
(* Best-first AND/OR search: class AOStar on the explicit context-minimal  *)
(* graph of BFSearchSpace.  The search expands a tip of the best partial   *)
(* solution tree, revises what this changes above it, and looks for the    *)
(* best partial solution tree again, until the root is solved.             *)
(*                                                                         *)
(* An OR node is its variable and the assignment that Context() makes its  *)
(* key; its AND children add a value.  Two paths that give an OR node the  *)
(* same key share it, so that it has several parents (the option nocaching *)
(* is not set).  Keys that the code makes unique by counting are those     *)
(* that only one path can give.                                            *)
(***************************************************************************)
EXTENDS AOModel

(* The artificial root has one value, and a problem has variables.         *)
ASSUME DummyAssumption == Dom[Root] = 1 /\ ChildSet(Root) # {}

VARIABLES
  prob,        \* the problem being solved; never changes
  kids,        \* children_ of every node of the graph
  parents,     \* parents_
  value,       \* m_nodeValue, an upper bound
  solved,      \* is_solved_
  best,        \* best_child_ of the OR nodes, NULL at first
  assignment,  \* m_assignment
  tips,        \* tip_nodes_
  revise,      \* revise_set: the visited nodes, each with its index_
  bound,       \* heuristic_bound_
  curCost,     \* Problem::m_curCost
  upper,       \* Problem::m_curUpperBound
  stage        \* "choose", "revise", "done" or "gaveup"

graph == <<kids, parents, value, solved, best>>
vars  == <<prob, graph, assignment, tips, revise, bound, curCost, upper, stage>>

UNKNOWN == -1

Nodes == DOMAIN kids
OrNode(x, c)  == [var |-> x, ctx |-> c]
AndNode(o, v) == [var |-> o.var, ctx |-> o.ctx, val |-> v]
IsOrNode(n)   == "val" \notin DOMAIN n
Top           == OrNode(Root, <<>>)

Extended(c, x, v) == [y \in DOMAIN c \cup {x} |-> IF y = x THEN v ELSE c[y]]
AssignmentOf(n)   == Extended(n.ctx, n.var, n.val)

(* Context(): what of the assignment of the day identifies an OR node of x. *)
Key(asg, x) == Restriction(asg, Ctx[x])

-----------------------------------------------------------------------------
(* What assignCostsOR leaves in an OR node.  DoSearch overwrites it in the *)
(* root with the global bound and the weight ELEM_ONE: the global constant *)
(* of the problem, which is the label of the root, is left out.            *)

GlobalConstant == Label(prob, Root, Extended(<<>>, Root, 0))
GlobalUB ==
  IF prob.bound[Root][<<>>] = ELEM_ZERO THEN ELEM_ZERO
  ELSE prob.bound[Root][<<>>] - GlobalConstant

Weight(o, v) ==
  IF o = Top THEN ELEM_ONE ELSE Label(prob, o.var, Extended(o.ctx, o.var, v))

HeurCacheAt(o, v) ==
  IF o = Top THEN GlobalUB
  ELSE Times(Weight(o, v), HeurOf(prob, o.var, Extended(o.ctx, o.var, v)))

HeurOR(o)  == Maximum([v \in Values(o.var) |-> HeurCacheAt(o, v)])
HeurAND(n) ==
  LET o == OrNode(n.var, n.ctx)
  IN  IF HeurCacheAt(o, n.val) = ELEM_ZERO THEN ELEM_ZERO
      ELSE HeurCacheAt(o, n.val) - Weight(o, n.val)

-----------------------------------------------------------------------------
(* Expand: the children of a tip enter the graph, or are found there.      *)

ChildrenOf(n, asg) ==
  IF IsOrNode(n) THEN {AndNode(n, v) : v \in Values(n.var)}
  ELSE {OrNode(x, Key(asg, x)) : x \in ChildSet(n.var)}

Expand(n, asg) ==
  \E children \in {ChildrenOf(n, asg)} :
    LET new == children \ Nodes
    IN  /\ kids' = [m \in Nodes \cup new |->
              IF m = n THEN children ELSE IF m \in new THEN {} ELSE kids[m]]
        /\ parents' = [m \in Nodes \cup new |->
              (IF m \in new THEN {} ELSE parents[m]) \cup (IF m \in children THEN {n} ELSE {})]
        /\ value' = [m \in Nodes \cup new |->
              IF m \notin new THEN value[m] ELSE IF IsOrNode(m) THEN HeurOR(m) ELSE HeurAND(m)]
        /\ solved' = [m \in Nodes \cup new |-> m \notin new /\ solved[m]]
        /\ best' = [m \in Nodes \cup new |-> IF m \in new THEN NULL ELSE best[m]]

(* The comparators of ArrangeTipNodes begin with an ordering heuristic     *)
(* that is not modelled: any tip may come first.                           *)
ExpandTip(n) ==
  /\ stage = "choose" /\ ~solved[Top] /\ n \in tips
  /\ Expand(n, assignment)
  /\ revise' = [m \in {n} |-> 0]
  /\ stage' = "revise"
  /\ UNCHANGED <<prob, assignment, tips, bound, curCost, upper>>

-----------------------------------------------------------------------------
(* Revise: a new value, the best child and the solved flag of one node. *)

RevisedValueOfOpen(n, val) ==
  IF IsOrNode(n) THEN Maximum([m \in kids[n] |-> Times(Weight(n, m.val), val[m])])
  ELSE Product([m \in {m \in kids[n] : ~solved[m]} |-> val[m]])

RevisedValue(n, val) ==
  IF IsOrNode(n) THEN Maximum([m \in kids[n] |-> Times(Weight(n, m.val), val[m])])
  ELSE Product([m \in kids[n] |-> val[m]])

(* Among equals a solved child replaces one that came before it. *)
BestChild(o, q, val, isSolved) ==
  LET ties  == {m \in kids[o] : Times(Weight(o, m.val), val[m]) = q}
      final == {m \in ties : isSolved[m]}
  IN  IF final # {} THEN CHOOSE m \in final : \A k \in final : k.val <= m.val
      ELSE CHOOSE m \in ties : \A k \in ties : k.val >= m.val

ChangedOnlyInValue(q, isSolved, old) == q # old

Changed(q, isSolved, old) == isSolved \/ q # old

-----------------------------------------------------------------------------
(* ExpandAndRevise: the index of a node in revise_set counts its children  *)
(* there, so that a node is revised after all of them.                     *)

VisitedKids(p, visited) == Cardinality(kids[p] \cap visited)

Decremented(i) == IF i > 0 THEN i - 1 ELSE 0

(* The parents of e, e itself taken out.  An OR parent that is not waiting *)
(* is only revised if e is the child it goes by.                           *)
Waiting(e)        == DOMAIN revise \ {e}
NotWaiting(e) == parents[e] \ Waiting(e)
ToInsert(e)   == {p \in NotWaiting(e) : IsOrNode(p) => best[p] = e}

ReviseSet(e, change, insert) ==
  LET added == IF change THEN insert ELSE {}
  IN  [p \in Waiting(e) \cup added |->
         IF p \in added THEN VisitedKids(p, Waiting(e))
         ELSE IF p \in parents[e] THEN Decremented(revise[p])
         ELSE revise[p]]

Front(e) == e \in DOMAIN revise /\ \A m \in DOMAIN revise : revise[e] <= revise[m]

ReviseNode(e) ==
  /\ stage = "revise" /\ Front(e)
  /\ \E q \in {RevisedValue(e, value)} :
     \E b \in {IF IsOrNode(e) THEN BestChild(e, q, value, solved) ELSE NULL} :
     \E isSolved \in {IF IsOrNode(e) THEN solved[b] ELSE \A m \in kids[e] : solved[m]} :
       /\ value' = [value EXCEPT ![e] = q]
       /\ best' = [best EXCEPT ![e] = b]
       /\ solved' = [solved EXCEPT ![e] = @ \/ isSolved]
       /\ revise' = ReviseSet(e, kids[e] = {} \/ Changed(q, isSolved, value[e]), ToInsert(e))
       /\ bound' = IF e = Top /\ Greater(bound, q) THEN q ELSE bound
  /\ UNCHANGED <<prob, kids, parents, assignment, tips, stage>>

(* Problem::updateLowerUpperBound *)
UpdateLowerUpperBound(cost, ub) ==
  /\ curCost' = IF Greater(curCost, cost) THEN curCost ELSE cost
  /\ upper' = IF ISNAN(upper) \/ Greater(upper, ub) THEN ub ELSE upper

(* The bound at the root is printed, the first time that it changes and    *)
(* then every five seconds at most; there is no solution until the end.    *)
ReportsProgress ==
  \/ (bound' # bound => ~ISNAN(upper)) /\ UNCHANGED <<curCost, upper>>
  \/ bound' # bound /\ UpdateLowerUpperBound(ELEM_ZERO, bound')

(* FindBestPartialTree: down the best children of the OR nodes and the     *)
(* unsolved children of the AND nodes, to the nodes without children.      *)
NextInTree(n) ==
  IF IsOrNode(n) THEN (IF kids[n] = {} THEN {} ELSE {best[n]})
  ELSE {m \in kids[n] : ~solved[m]}

PartialTree ==
  LET below[n \in Nodes] == {n} \cup UNION {below[m] : m \in NextInTree(n)}
  IN  below[Top]

(* The assignment that a partial tree stands for *)
AssignmentTo(tree) ==
  [x \in Vars |->
     LET at == {n \in tree : ~IsOrNode(n) /\ n.var = x}
     IN  IF at = {} THEN UNKNOWN ELSE (CHOOSE n \in at : TRUE).val]

MarkBestPartialTree ==
  \E tree \in {PartialTree} :
    /\ tips' = {n \in tree : kids[n] = {}}
    /\ assignment' = AssignmentTo(tree)

FindBestPartialTree ==
  /\ stage = "revise" /\ DOMAIN revise = {}
  /\ MarkBestPartialTree
  /\ stage' = "choose"
  /\ UNCHANGED <<prob, graph, revise, bound, curCost, upper>>

Report ==
  /\ stage = "choose" /\ solved[Top]
  /\ UpdateLowerUpperBound(value[Top], bound)
  /\ stage' = "done"
  /\ UNCHANGED <<prob, graph, assignment, tips, revise, bound>>

(* The time limit is tested once per round; memory may run out anywhere.   *)
GiveUp ==
  /\ stage \in {"choose", "revise"} /\ (stage = "choose" => ~solved[Top])
  /\ stage' = "gaveup"
  /\ UNCHANGED <<prob, graph, assignment, tips, revise, bound, curCost, upper>>

InitialGraph ==
  /\ prob \in Problems
  /\ kids = [n \in {Top} |-> {}] /\ parents = kids
  /\ value = [n \in {Top} |-> GlobalUB] /\ solved = [n \in {Top} |-> FALSE]
  /\ best = [n \in {Top} |-> NULL]
  /\ assignment = [x \in Vars |-> UNKNOWN]
  /\ revise = <<>> /\ bound = GlobalUB
  /\ stage = "choose"

Init == InitialGraph /\ tips = {Top} /\ curCost = ELEM_NAN /\ upper = ELEM_NAN

Search ==
  \/ (\E n \in tips : ExpandTip(n))
  \/ (\E e \in DOMAIN revise : ReviseNode(e) /\ ReportsProgress)
  \/ FindBestPartialTree \/ Report

Next == Search \/ GiveUp

Spec == Init /\ [][Next]_vars

-----------------------------------------------------------------------------
(* Properties *)

ExactBelow(n) ==
  LET c == AssignmentOf(n)
  IN  Product([y \in ChildSet(n.var) |-> prob.opt[y][Restriction(c, Ctx[y])]])
Exact(o) == Maximum([v \in Values(o.var) |-> Times(Weight(o, v), ExactBelow(AndNode(o, v)))])

(* Although the order of the revisions is only heuristic and a subproblem  *)
(* is shared by paths that are revised at different times, every value is  *)
(* an upper bound on its subproblem, a node is called solved only when the *)
(* value is exact.  What is reported encloses the optimum, though the two  *)
(* bounds are updated at different times, and is the optimum in the end    *)
(* (AOStar.cpp:87-91, 96-210, 286-368).                                    *)
ValuesSound ==
  /\ \A n \in Nodes :
       LET w == IF IsOrNode(n) THEN ELEM_ONE ELSE Weight(OrNode(n.var, n.ctx), n.val)
           e == IF IsOrNode(n) THEN Exact(n) ELSE ExactBelow(n)
       IN  /\ ~Greater(Times(w, e), Times(w, value[n]))
           /\ solved[n] => Times(w, value[n]) = Times(w, e)
  /\ ~Greater(Exact(Top), bound)
  /\ ~Greater(curCost, Exact(Top)) /\ ~Greater(Exact(Top), upper)
  /\ stage = "done" => curCost = Exact(Top) /\ upper = Exact(Top)

(* The assertions in the code: the node at the front of revise_set waits   *)
(* for nobody, a root that is not solved leaves tips to expand, and a tip  *)
(* is never solved (AOStar.cpp:97, 115, 208).                              *)
AssertionsHold ==
  /\ stage = "revise" => \A e \in DOMAIN revise : Front(e) => revise[e] = 0
  /\ stage = "choose" /\ ~solved[Top] => tips # {} /\ \A n \in tips : ~solved[n]

(* Unless it gives up, the search solves the root: no revision is lost on  *)
(* the way up and no round repeats another (AOStar.cpp:73-85).             *)
Terminates == <>(stage \in {"done", "gaveup"})
=============================================================================
