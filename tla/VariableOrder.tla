--------------------------- MODULE VariableOrder ---------------------------
(***************************************************************************)
(* Search for a variable order and the pseudo tree that it induces:        *)
(* Pseudotree::eliminate (randomised min-fill), Pseudotree::build and      *)
(* buildChain, and the loop of Main::findOrLoadOrdering that keeps the     *)
(* best of several orders.                                                 *)
(*                                                                         *)
(* A variable is its index, 0 .. N-1 in the problem; build() adds the      *)
(* artificial root with the next index.  The functions of the problem are  *)
(* records [id, scope, val] (Function.h).                                  *)
(***************************************************************************)
EXTENDS PrimalGraph, SequencesExt

CONSTANTS
  Instances,     \* the problems: records with "functions", a sequence
  Iterations,    \* the option order_iterations
  Tolerance,     \* the option order_tolerance
  AutoIter,      \* the option adaptive
  OrSearchModes  \* the values of the option or (OR search) to explore

ASSUME OrderAssumption ==
  /\ Iterations \in Nat \ {0} /\ Tolerance \in Nat
  /\ AutoIter \in BOOLEAN /\ OrSearchModes \subseteq BOOLEAN

(* Functions without arguments do not appear in the primal graph. *)
Scopes(p) == {p.functions[i].scope : i \in DOMAIN p.functions} \ {{}}

UNKNOWN == -1
INT_MAX == 1000      \* stands for a width above all others

(* removeEvidence() drops the variables that occur in no function, and     *)
(* numbers the others from 0 on (Problem.cpp:125-135, 188-224).            *)
ASSUME InstancesAssumption ==
  \A p \in Instances :
    LET variables == UNION Scopes(p) IN
    /\ IsFiniteSet(variables) /\ Cardinality(variables) < INT_MAX
    /\ variables = 0 .. Cardinality(variables) - 1

VARIABLES
  problem,    \* the problem after the evidence has been removed
  primal,     \* its graph
  stage,      \* what main() is doing
  G,          \* the copy of the graph that is taken apart
  scores,     \* min-fill scores
  elim,       \* the order computed so far
  width,      \* and the width of that, or UNKNOWN
  tree,       \* the pseudo tree under construction
  best,       \* the pseudo tree of the best order so far (m_pseudotree)
  orSearch,   \* the option
  remaining, sinceLast

workVars  == <<G, scores, elim, width, tree>>
loopVars  == <<remaining, sinceLast>>
orderVars == <<problem, primal, stage, workVars, best, orSearch, loopVars>>

Vars  == NodesOf(primal)
Dummy == Cardinality(Vars)

-----------------------------------------------------------------------------
(* Pseudo trees. *)

NoTree == [order |-> <<>>, parent |-> <<>>, ctx |-> <<>>, above |-> <<>>,
           roots |-> {}, running |-> {}, width |-> UNKNOWN]

Mapped(f, S, v) == [y \in DOMAIN f \cup S |-> IF y \in S THEN v ELSE f[y]]

(* One round of build(): the context of x are its neighbours, and the      *)
(* roots whose context has x become its children.                          *)
Inserted(t, x, nb) ==
  LET attached == {y \in t.roots : x \in t.ctx[y]}
  IN  [t EXCEPT !.ctx    = Mapped(@, {x}, nb),
                !.parent = Mapped(@, attached, x),
                !.roots  = (@ \ attached) \cup {x},
                !.width  = Max({@, Cardinality(nb)})]

ChainedNoRunning(t, x, nb) ==      \* the context of a chain node is its own
  [t EXCEPT !.ctx    = Mapped(@, {x}, nb),
            !.parent = Mapped(@, t.roots, x),
            !.roots  = {x}]

(* One round of buildChain(): the context is a running one, and the        *)
(* previous variable is the only child.                                    *)
Chained(t, x, nb) ==
  LET context == (t.running \ {x}) \cup nb
  IN  [t EXCEPT !.running = context,
                !.ctx     = Mapped(@, {x}, context),
                !.parent  = Mapped(@, t.roots, x),
                !.roots   = {x}]

(* All ancestors, from the parents. *)
Above(parent) ==
  LET up[x \in Vars \cup {Dummy}] ==
        IF x = Dummy THEN {} ELSE {parent[x]} \cup up[parent[x]]
  IN  up

(* The tree with the artificial root over what is left. *)
WithRoot(t, order) ==
  LET parent == Mapped(t.parent, t.roots, Dummy)
  IN  [t EXCEPT !.order = Append(order, Dummy), !.parent = parent,
                !.ctx = Mapped(@, {Dummy}, {}), !.above = Above(parent), !.roots = {Dummy}]

Ancestors(t, x)  == t.above[x]
ChildrenOf(t, x) == {y \in DOMAIN t.parent : t.parent[y] = x}
Subtree(t, x)    == {x} \cup {y \in Vars : x \in Ancestors(t, y)}

(* updateDepthHeight(-1) - 1: the artificial root does not count. *)
Height(t) == Max({Cardinality(Ancestors(t, x)) : x \in Vars}) - 1

(* resetFunctionInfo: a function belongs to the variable of its scope that *)
(* is eliminated first.                                                    *)
Owner(t, f) ==
  IF f.scope = {} THEN Dummy
  ELSE t.order[Min({i \in DOMAIN t.order : t.order[i] \in f.scope})]
FunctionsOf(t, x) ==
  {i \in DOMAIN problem.functions : Owner(t, problem.functions[i]) = x}

-----------------------------------------------------------------------------
(* eliminate(g, elimCand, w, tolerance) *)

OrderInit ==
  /\ problem \in Instances
  /\ primal = FromScopes(Scopes(problem))
  /\ G = <<>> /\ scores = <<>> /\ elim = <<>> /\ width = UNKNOWN /\ tree = NoTree
  /\ best = NoTree
  /\ orSearch \in OrSearchModes
  /\ remaining = Iterations /\ sinceLast = 0

Limit == IF best = NoTree THEN INT_MAX ELSE best.width

StartElimination ==
  /\ stage = "ordering" /\ remaining > 0
  /\ stage' = "simplicial"
  /\ G' = primal
  /\ scores' = [x \in Vars |-> ScoreMinfill(primal, x)]
  /\ elim' = <<>> /\ width' = UNKNOWN
  /\ UNCHANGED <<problem, primal, tree, best, orSearch, loopVars>>

ScoreZero == {x \in NodesOf(G) : scores[x] = 0}

ByIndex(S) ==      \* the nodes of S in the order of their index
  [i \in 1 .. Cardinality(S) |-> CHOOSE x \in S : Cardinality({y \in S : y < x}) = i - 1]

Degree(gone, i) == Cardinality(G[gone[i]] \ {gone[j] : j \in 1 .. i - 1})

(* Nodes of score 0 go all at once, in the order of their index, and the   *)
(* scores of their neighbours are left as they are.                        *)
RemoveSimplicial ==
  /\ stage = "simplicial"
  /\ LET gone == ByIndex(ScoreZero)
     IN  /\ elim'  = elim \o gone
         /\ width' = Max({width} \cup {Degree(gone, i) : i \in DOMAIN gone})
  /\ G' = RemoveNodes(G, ScoreZero)
  /\ stage' = IF NodesOf(G) = ScoreZero THEN "candidate" ELSE "pick"
  /\ UNCHANGED <<problem, primal, scores, tree, best, orSearch, loopVars>>

(* Candidates are the nodes with one of the Tolerance + 1 lowest scores. *)
Candidates ==
  {x \in NodesOf(G) :
     Cardinality({s \in {scores[y] : y \in NodesOf(G)} : s < scores[x]}) <= Tolerance}

(* The neighbours and their neighbours, once the former are connected. *)
Touched(filled, nb) == UNION {{y} \cup filled[y] : y \in nb}

NotFilled(nb) == G      \* the neighbours are not connected

Filled(nb) == AddClique(G, nb)

EliminateNode(x) ==
  /\ stage = "pick" /\ x \in Candidates
  /\ LET nb     == G[x]
         filled == Filled(nb)
         rest   == RemoveNode(filled, x)
         w      == Max({width, Cardinality(nb)})
     IN  IF w > Limit
         THEN /\ width' = INT_MAX
              /\ stage' = "candidate"
              /\ UNCHANGED <<G, scores>>
         ELSE /\ width' = w
              /\ G' = rest
              /\ scores' = [y \in DOMAIN scores |->
                              IF y \in Touched(filled, nb) \ {x} THEN ScoreMinfill(rest, y)
                              ELSE scores[y]]
              /\ stage' = "simplicial"
  /\ elim' = Append(elim, x)
  /\ UNCHANGED <<problem, primal, tree, best, orSearch, loopVars>>

-----------------------------------------------------------------------------
(* The loop of findOrLoadOrdering. *)

(* If the width is promising a tree is built. *)
StartBuild ==
  /\ stage = "candidate" /\ width # INT_MAX /\ width <= Limit
  /\ stage' = "build"
  /\ G' = primal /\ tree' = NoTree
  /\ UNCHANGED <<problem, primal, scores, elim, width, best, orSearch, loopVars>>

Next1(order) == order[1 + Cardinality(DOMAIN tree.ctx)]

InsertNewNode ==
  /\ stage = "build" /\ NodesOf(G) # {}
  /\ LET x  == Next1(elim)
         nb == G[x]
     IN  /\ tree' = Inserted(tree, x, nb)
         /\ G' = RemoveNode(AddClique(G, nb), x)
  /\ UNCHANGED <<problem, primal, stage, scores, elim, width, best, orSearch, loopVars>>

Lower(t) == Height(t) < Height(best)

CountAlways(improved) ==      \* an iteration without improvement prolongs the loop, too
  LET left == remaining - 1 IN
  IF AutoIter /\ left > 0
  THEN remaining' = Max({left, sinceLast + 2}) /\ sinceLast' = 0
  ELSE remaining' = left /\ sinceLast' = sinceLast + 1

CountIteration(improved) ==
  LET left == remaining - 1 IN
  IF improved /\ AutoIter /\ left > 0
  THEN remaining' = Max({left, sinceLast + 2}) /\ sinceLast' = 0
  ELSE remaining' = left /\ sinceLast' = sinceLast + 1

Discarded == G' = <<>> /\ scores' = <<>> /\ elim' = <<>> /\ width' = UNKNOWN /\ tree' = NoTree

(* A narrower tree is kept, and one of the same width if it is lower. *)
FinishBuild ==
  /\ stage = "build" /\ NodesOf(G) = {}
  /\ LET built    == WithRoot(tree, elim)
         improved == width < Limit \/ Lower(built)
     IN  /\ best' = IF improved THEN built ELSE best
         /\ CountIteration(improved)
  /\ stage' = "ordering"
  /\ Discarded
  /\ UNCHANGED <<problem, primal, orSearch>>

DropCandidate ==
  /\ stage = "candidate" /\ (width = INT_MAX \/ width > Limit)
  /\ CountIteration(FALSE)
  /\ stage' = "ordering"
  /\ Discarded
  /\ UNCHANGED <<problem, primal, best, orSearch>>

FinishOrdering ==
  /\ stage = "ordering" /\ remaining = 0
  /\ IF orSearch
     THEN /\ stage' = "chain"
          /\ G' = primal /\ tree' = [NoTree EXCEPT !.width = best.width]
          /\ UNCHANGED <<scores, elim, width>>
     ELSE stage' = "ordered" /\ UNCHANGED workVars
  /\ UNCHANGED <<problem, primal, best, orSearch, loopVars>>

(* buildChain, with the width of the tree it replaces. *)
ChainNode ==
  /\ stage = "chain" /\ NodesOf(G) # {}
  /\ LET x  == Next1(best.order)
         nb == G[x]
     IN  /\ tree' = Chained(tree, x, nb)
         /\ G' = RemoveNode(AddClique(G, nb), x)
  /\ UNCHANGED <<problem, primal, stage, scores, elim, width, best, orSearch, loopVars>>

FinishChain ==
  /\ stage = "chain" /\ NodesOf(G) = {}
  /\ best' = WithRoot(tree, SubSeq(best.order, 1, Dummy))
  /\ stage' = "ordered"
  /\ Discarded
  /\ UNCHANGED <<problem, primal, orSearch, loopVars>>

Ordering ==
  \/ StartElimination \/ RemoveSimplicial \/ (\E x \in Vars : EliminateNode(x))
  \/ StartBuild \/ InsertNewNode \/ FinishBuild \/ DropCandidate
  \/ FinishOrdering \/ ChainNode \/ FinishChain

-----------------------------------------------------------------------------
(* Properties *)

(* eliminate() removes nodes of score 0 in one go, without connecting      *)
(* their neighbours, by scores that it does not recompute everywhere:      *)
(* still no score is too low, and the width it reports, by which orders    *)
(* are compared and given up, is that of the tree that build() makes of    *)
(* the order with all edges added (Pseudotree.cpp:207-264, 392-398).       *)
WidthIsThatOfTree ==
  /\ stage \in {"simplicial", "pick"} =>
       \A x \in NodesOf(G) : scores[x] >= ScoreMinfill(G, x)
  /\ stage = "build" /\ NodesOf(G) = {} => tree.width = width

(* What the search relies on (AOModel assumes it): contexts are ancestors, *)
(* they grow by at most the parent from a node to its child, and every     *)
(* function has its arguments among the node that owns it and its context, *)
(* so that labels and cached values depend on nothing else                 *)
(* (Pseudotree.cpp:84-108, 395-495, 938-958).                              *)
ContextsSeparate ==
  stage = "ordered" =>
    /\ DOMAIN best.parent = Vars
    /\ \A x \in Vars :
         /\ Dummy \in Ancestors(best, x)
         /\ best.ctx[x] \subseteq Ancestors(best, x) \ {Dummy}
         /\ best.ctx[x] \subseteq best.ctx[best.parent[x]] \cup {best.parent[x]}
         /\ ~orSearch => IF best.parent[x] = Dummy THEN best.ctx[x] = {}
                         ELSE best.parent[x] \in best.ctx[x]
    /\ \A f \in ToSet(problem.functions) :
         f.scope \subseteq best.ctx[Owner(best, f)] \cup {Owner(best, f)}
=============================================================================
