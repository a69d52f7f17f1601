---------------------------- MODULE AnytimeAOStar ----------------------------
(***************************************************************************)
(* Class AnytimeAOStar (algorithm aaobf): before each best-first expansion *)
(* the search dives depth first into the partial tree that promises most,  *)
(* for solutions and lower bounds.  A dive expands nodes without revising  *)
(* their upper bounds; Repair makes up for that on the whole graph at once.*)
(*                                                                         *)
(* algorithm chooses between this search and the plain one, aobf.          *)
(***************************************************************************)
EXTENDS AOStar

CONSTANT Algorithms

ASSUME AlgorithmAssumption == Algorithms \subseteq {"aobf", "aaobf"}

VARIABLES
  algorithm,
  expanded,       \* the nodes with is_expanded_
  feasibleValue,  \* m_feasibleValue, a lower bound
  feasible,       \* is_feasible_
  feasibleChild,  \* feasible_child_ of the OR nodes
  diveTips,       \* tip_nodes_feasible_
  solutionCost,   \* solution_cost_
  repairNeeded,   \* since the last Repair a dive has expanded something
  next,           \* the node that is being expanded
  layer           \* the layer that Repair revises next

lowerGraph  == <<expanded, feasibleValue, feasible, feasibleChild>>
anytimeVars == <<algorithm, lowerGraph, diveTips, solutionCost, repairNeeded, next, layer>>
allVars     == <<vars, anytimeVars>>

Anytime  == algorithm = "aaobf"
IsTerminal(n) == ~IsOrNode(n) /\ ChildSet(n.var) = {}   \* once it is expanded

-----------------------------------------------------------------------------
(* MarkFeasibleChild: the largest gap to what is known is the largest upper *)
(* bound; among equals the last child is taken, of hopeless ones none.      *)
MarkedChild(o, children, val) ==
  LET reach(m) == Times(Weight(o, m.val), val[m])
      hopeful  == {m \in children : reach(m) # ELEM_ZERO}
  IN  IF hopeful = {} THEN NULL
      ELSE CHOOSE m \in hopeful :
             \A k \in hopeful : Greater(reach(m), reach(k)) \/ (reach(m) = reach(k) /\ k.val <= m.val)

(* ExpandAndRevise up to the first revision *)
ExpandAndMark(n, asg) ==
  /\ Expand(n, asg)
  /\ expanded' = expanded \cup {n}
  /\ \E new \in {DOMAIN kids' \ Nodes} :
     \E marked \in {IF IsOrNode(n) THEN MarkedChild(n, kids'[n], value') ELSE NULL} :
       /\ feasibleValue' = [m \in Nodes \cup new |-> IF m \in new THEN ELEM_ZERO ELSE feasibleValue[m]]
       /\ feasible' = [m \in Nodes \cup new |-> m \notin new /\ feasible[m]]
       /\ feasibleChild' = [m \in Nodes \cup new |->
             IF m = n THEN marked ELSE IF m \in new THEN NULL ELSE feasibleChild[m]]
  /\ revise' = [m \in {n} |-> 0]

-----------------------------------------------------------------------------
(* ReviseFeasible: the lower bound of one node from those of its children. *)

WithSolution(n) == {m \in kids[n] : feasible[m] \/ (~IsOrNode(n) /\ solved[m])}

HasSolution(n) ==
  IF IsOrNode(n) THEN WithSolution(n) # {} ELSE WithSolution(n) = kids[n]

LowerBound(n) ==
  IF IsOrNode(n) THEN Maximum([m \in WithSolution(n) |-> Times(Weight(n, m.val), feasibleValue[m])])
  ELSE Product([m \in WithSolution(n) |-> feasibleValue[m]])

(* An AND node without a solution keeps the value that it has. *)
RevisedLower(n) ==
  IF IsOrNode(n) \/ HasSolution(n) THEN LowerBound(n) ELSE feasibleValue[n]

(* Every parent is revised, whichever child it prefers. *)
ReviseFeasible(e) ==
  /\ stage = "feasible" /\ Front(e)
  /\ \E change \in {HasSolution(e) \/ LowerBound(e) # feasibleValue[e]} :
       /\ feasibleValue' = [feasibleValue EXCEPT ![e] = RevisedLower(e)]
       /\ feasible' = [feasible EXCEPT ![e] = @ \/ HasSolution(e)]
       /\ solved' = [solved EXCEPT ![e] = @ \/ IsTerminal(e)]
       /\ revise' = ReviseSet(e, change, NotWaiting(e))
  /\ UNCHANGED <<prob, kids, parents, value, best, assignment, tips, bound, curCost, upper, stage>>
  /\ UNCHANGED <<algorithm, expanded, feasibleChild, diveTips, solutionCost,
                 repairNeeded, next, layer>>

-----------------------------------------------------------------------------
(* FindFeasiblePartialTree: down the marked children of the OR nodes and   *)
(* all children of the AND nodes.                                          *)

MarkedTree ==
  LET nextOf(n) == IF ~IsOrNode(n) THEN kids[n]
                   ELSE IF kids[n] = {} \/ feasibleChild[n] = NULL THEN {} ELSE {feasibleChild[n]}
      below[n \in Nodes] == {n} \cup UNION {below[m] : m \in nextOf(n)}
  IN  below[Top]

HeurOfTip(n) == IF n = Top THEN GlobalUB ELSE IF IsOrNode(n) THEN HeurOR(n) ELSE HeurAND(n)

(* What the tree may be worth; the tips that are solved are worth one. *)
Promise(tree) ==
  Times(Product([n \in {n \in tree : IsOrNode(n) /\ kids[n] # {}} |-> Weight(n, feasibleChild[n].val)]),
        Product([n \in {n \in tree : kids[n] = {} /\ ~solved[n]} |-> HeurOfTip(n)]))

Hopeless(tree) ==
  \/ solved[Top]
  \/ \E n \in tree : IsOrNode(n) /\ kids[n] # {} /\ feasibleChild[n] = NULL
  \/ ~Greater(Promise(tree), solutionCost)

TipsOfSolved(tree) == IF Hopeless(tree) THEN {} ELSE {n \in tree : kids[n] = {}}

TipsOf(tree) == IF Hopeless(tree) THEN {} ELSE {n \in tree : kids[n] = {} /\ ~solved[n]}

FindFeasiblePartialTree ==
  /\ stage = "feasible" /\ DOMAIN revise = {}
  /\ diveTips' = TipsOf(MarkedTree)
  /\ bound' = IF repairNeeded THEN bound ELSE value[Top]
  /\ stage' = "choose"
  /\ UNCHANGED <<prob, graph, assignment, tips, revise, curCost, upper>>
  /\ UNCHANGED <<algorithm, lowerGraph, solutionCost, repairNeeded, next, layer>>

-----------------------------------------------------------------------------
(* The loop of DoSearch.  One round of a dive, with the assignment of its  *)
(* own partial tree:                                                       *)
Dive(n) ==
  /\ stage = "choose" /\ ~solved[Top] /\ n \in diveTips
  /\ \E tree \in {MarkedTree} :
       assignment' = AssignmentTo(tree) /\ ExpandAndMark(n, AssignmentTo(tree))
  /\ repairNeeded' = TRUE
  /\ next' = n
  /\ stage' = "feasible"
  /\ UNCHANGED <<prob, tips, bound, curCost, upper>>
  /\ UNCHANGED <<algorithm, diveTips, solutionCost, layer>>

(* Repair: layer by layer from the deepest up, every node that is expanded *)
(* is revised in both ways.                                                *)
LayerOf(n) == 2 * (Depth[n.var] + 1) + (IF IsOrNode(n) THEN 0 ELSE 1)
Deepest    == CHOOSE d \in {LayerOf(n) : n \in Nodes} : \A n \in Nodes : LayerOf(n) <= d

(* The fields q of the nodes that are revised, written into f.             *)
Updated(f, q) == [n \in DOMAIN f |-> IF n \in DOMAIN q THEN q[n] ELSE f[n]]

RepairLayer ==
  /\ stage = "repair" /\ layer >= 0
  /\ \E here \in {{n \in Nodes : LayerOf(n) = layer}} :
     \E q \in {[n \in here \cap expanded |-> RevisedValue(n, value)]} :
     \E b \in {[n \in here \cap expanded |->
                 IF IsOrNode(n) THEN BestChild(n, q[n], value, solved) ELSE NULL]} :
     \E done \in {{n \in here \cap expanded :
                    IF IsOrNode(n) THEN solved[b[n]] ELSE \A m \in kids[n] : solved[m]}} :
       /\ value' = Updated(value, q)
       /\ best' = Updated(best, b)
       /\ solved' = [n \in Nodes |-> IF n \in here THEN n \in done ELSE solved[n]]
       /\ feasibleValue' = Updated(feasibleValue, [n \in here \cap expanded |-> RevisedLower(n)])
       /\ feasible' = [n \in Nodes |-> feasible[n] \/ (n \in here \cap expanded /\ HasSolution(n))]
       /\ feasibleChild' = Updated(feasibleChild,
            [n \in {m \in here \cap expanded : IsOrNode(m)} \ done |-> MarkedChild(n, kids[n], value)])
       /\ bound' = IF Top \in here /\ Greater(bound, q[Top]) THEN q[Top] ELSE bound
  /\ layer' = layer - 1
  /\ UNCHANGED <<prob, kids, parents, assignment, tips, revise, curCost, upper, stage>>
  /\ UNCHANGED <<algorithm, expanded, diveTips, solutionCost, repairNeeded, next>>

EndOfDive ==
  /\ stage = "choose" /\ ~solved[Top] /\ diveTips = {}
  /\ IF Greater(feasibleValue[Top], solutionCost)
     THEN solutionCost' = feasibleValue[Top] /\ UpdateLowerUpperBound(feasibleValue[Top], bound)
     ELSE UNCHANGED <<solutionCost, curCost, upper>>
  /\ IF repairNeeded THEN stage' = "repair" /\ layer' = Deepest
     ELSE stage' = "best" /\ UNCHANGED layer
  /\ UNCHANGED <<prob, graph, assignment, tips, revise, bound>>
  /\ UNCHANGED <<algorithm, lowerGraph, diveTips, repairNeeded, next>>

AfterRepair ==
  /\ stage = "repair" /\ layer < 0
  /\ MarkBestPartialTree
  /\ repairNeeded' = FALSE
  /\ stage' = "best"
  /\ UNCHANGED <<prob, graph, revise, bound, curCost, upper>>
  /\ UNCHANGED <<algorithm, lowerGraph, diveTips, solutionCost, next, layer>>

ExpandBest(n) ==
  /\ stage = "best" /\ n \in tips
  /\ ExpandAndMark(n, assignment)
  /\ next' = n
  /\ stage' = "revise"
  /\ UNCHANGED <<prob, assignment, tips, bound, curCost, upper>>
  /\ UNCHANGED <<algorithm, diveTips, solutionCost, repairNeeded, layer>>

(* UpdateBound(kHeuristic) ends, UpdateBound(kFeasible) begins. *)
TurnToFeasible ==
  /\ stage = "revise" /\ DOMAIN revise = {}
  /\ MarkBestPartialTree
  /\ revise' = [m \in {next} |-> 0]
  /\ stage' = "feasible"
  /\ UNCHANGED <<prob, graph, bound, curCost, upper, anytimeVars>>

(* The search trusts that the two bounds have met. *)
Conclude ==
  /\ (stage = "choose" /\ solved[Top]) \/ (stage = "best" /\ tips = {})
  /\ solutionCost' = bound /\ UpdateLowerUpperBound(bound, bound)
  /\ stage' = "done"
  /\ UNCHANGED <<prob, graph, assignment, tips, revise, bound>>
  /\ UNCHANGED <<algorithm, lowerGraph, diveTips, repairNeeded, next, layer>>

RunOut ==
  /\ stage \notin {"done", "gaveup"} /\ (stage = "choose" => ~solved[Top])
  /\ stage' = "gaveup"
  /\ UNCHANGED <<prob, graph, assignment, tips, revise, bound, curCost, upper, anytimeVars>>

AnytimeInit ==
  /\ algorithm \in Algorithms
  /\ IF Anytime THEN InitialGraph /\ tips = {} /\ diveTips = {Top} /\ curCost = ELEM_ZERO
                          /\ upper = GlobalUB
     ELSE Init /\ diveTips = {}
  /\ expanded = {}
  /\ feasibleValue = [n \in {Top} |-> ELEM_ZERO] /\ feasible = [n \in {Top} |-> FALSE]
  /\ feasibleChild = [n \in {Top} |-> NULL]
  /\ solutionCost = ELEM_ZERO
  /\ repairNeeded = FALSE /\ next = NULL /\ layer = -1

Round ==
  \/ (\E n \in diveTips : Dive(n))
  \/ (\E e \in DOMAIN revise : ReviseFeasible(e))
  \/ (\E e \in DOMAIN revise : ReviseNode(e) /\ UNCHANGED <<curCost, upper, anytimeVars>>)
  \/ FindFeasiblePartialTree \/ EndOfDive \/ RepairLayer \/ AfterRepair
  \/ (\E n \in tips : ExpandBest(n))
  \/ TurnToFeasible \/ Conclude

SearchStep == (Anytime /\ Round) \/ (~Anytime /\ Search /\ UNCHANGED anytimeVars)
AnytimeNext ==
  SearchStep \/ (Anytime /\ RunOut) \/ (~Anytime /\ GiveUp /\ UNCHANGED anytimeVars)

(* The program is sequential: it goes on as long as it can.  Nothing       *)
(* forces it to run out of time or memory.                                 *)
AnytimeSpec == AnytimeInit /\ [][AnytimeNext]_allVars /\ WF_allVars(SearchStep)

-----------------------------------------------------------------------------
(* Properties *)

(* The two bounds enclose the optimum, at every node, whether its values   *)
(* stem from a dive, from a revision that stopped on the way or from       *)
(* Repair; so do the two that are printed, and they meet when the search   *)
(* trusts that they do (AnytimeAOStar.cpp:32-88, 360-447).                 *)
BoundsEnclose ==
  /\ ValuesSound
  /\ \A n \in DOMAIN feasibleValue :
       LET w == IF IsOrNode(n) THEN ELEM_ONE ELSE Weight(OrNode(n.var, n.ctx), n.val)
           e == IF IsOrNode(n) THEN Exact(n) ELSE ExactBelow(n)
       IN  ~Greater(Times(w, feasibleValue[n]), Times(w, e))

(* The assertions in the code: those of AO*, in the second kind of         *)
(* revision too, and when all upper bounds are revised the root is solved  *)
(* or leaves tips to expand, none of which has been expanded by a dive     *)
(* (AnytimeAOStar.cpp:196-197, 241, 352-356).                              *)
AssertionsMet ==
  /\ ~Anytime => AssertionsHold
  /\ stage \in {"revise", "feasible"} => \A e \in DOMAIN revise : Front(e) => revise[e] = 0
  /\ stage = "feasible" /\ ~repairNeeded => solved[Top] \/ tips # {}
  /\ stage = "best" => (tips = {} <=> solved[Top]) /\ tips \cap expanded = {}
  /\ stage = "choose" => diveTips \cap expanded = {}
=============================================================================
