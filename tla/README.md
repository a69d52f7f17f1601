# A verification development for daoopt

daoopt finds the best complete assignment of a graphical model: a maximum of a
product of functions, computed in logarithms. It orders the variables, builds a
pseudo tree and an upper bound (mini-buckets, look-ahead or cost shifting), and
searches the AND/OR space that the tree gives, depth first or best first, in one
process or with subproblems sent to a cluster. These modules model that way from
the problem to the printed cost. The checks say that the bounds are bounds, that
the optimum is never lost although branches are pruned, tables are shared and
reset, subproblems are interleaved and solved parts are deleted while the search
is running, and that the threads of the parallel scheme neither lose a result
nor wait for ever, with the exceptions that section 3 names.

Paths below are relative to `src/daoopt/source/`.

## 1. Inventory

| Component | State it keeps | Operations | Makes it correct | Module |
|---|---|---|---|---|
| Cost algebra, `_base.h` | none | `OP_TIMES`, comparison, `ISNAN` | infinities and NaN are treated alike wherever they meet | `Costs` |
| Functions, `Function.cpp` | scope, table | `getValue`, elimination, `substitute` | a table is read for its own scope | `Factors` |
| Graph, `Graph.cpp` | neighbours | cliques, removal, min-fill score | - | `PrimalGraph` |
| Pseudo tree, `Pseudotree.cpp` | tree, contexts, cache contexts, reset lists | `eliminate`, `build`, `buildChain`, `resetFunctionInfo` | the width reported is that of the tree; contexts separate a subproblem from the rest | `VariableOrder`, `AOModel` |
| Mini-buckets, `MiniBucketElim.cpp`, `MiniBucket.cpp` | augmented and intermediate functions | `build`, `getHeurAll`, `getLabelAll` | an upper bound for every context; exact if it says so | `MiniBuckets` |
| Look-ahead, `MiniBucketElimLH.cpp`, `MiniBucketElimLHsubtree.cpp` | a subtree of tables for every variable, marks of validity | `noteOrNodeExpansionBeginning`, `getHeurAll` | a table is read only in the context it was computed for | `Lookahead` |
| Cost shifting, `FGLP.cpp`, `PriorityFGLP.cpp`, `FGLPHeuristic.cpp` | reparameterised functions in every node, recorded shifts | `Run`, `Condition`, `getHeurAll` | the product of the functions is preserved; an upper bound | `CostShifting` |
| Search core, `Search.cpp` | `m_assignment`, the node being expanded | `nextLeaf`, `doProcess`, `doCaching`, `doPruning`, `generateChildrenAND/OR`, `propHeuristic` | pruning never cuts off the optimum; the assignment that is read is that of the node | `AOSearch` |
| Nodes, `SearchNode.h`, `SearchSpace.h` | value, bound, label, flags, children, `m_subSolved` | creation, `eraseChild`, `addSubSolved` | nothing is used after it is deleted, nothing closed stays behind | `AOSearch` |
| Bound propagation, `BoundPropagator.cpp` | local: `prev`, `cur`, `prop`, `del`, `highestDelete` | `propagate` | values are those of real solutions; exactly the closed part is erased; only exact values reach the cache | `AOSearch` |
| Cache, `CacheTable.h` | one table per variable | `read`, `write`, `reset` | a hit returns the optimum for the assignment at hand | `AOSearch` |
| Branch and bound, `BranchAndBound.cpp` | `m_stack` | `nextNode`, `doExpand`, `solve` | every node is handled once; the result is the optimum | `BranchAndBound` |
| Rotation, `BranchAndBoundRotate.cpp` | queue of stacks, their parents and child counts, `m_stackCount` | `nextNode`, `doExpand`, `solve` | as above, and the tree of stacks stays consistent | `BranchAndBoundRotate` |
| Limited discrepancy, `LimitedDiscrepancy.cpp` | stack of (node, discrepancy), `m_discCache` | `nextNode`, `doExpand`, `solve` | as good as every solution near the preference of the heuristic; optimal if that is exact | `LimitedDiscrepancy` |
| Best solution, `Problem.cpp` | `m_curCost`, `m_curUpperBound` | `updateSolution`, `updateUpperBound` | the lower bound only grows, and is attained | `AOSearch`, `AnytimeSolver` |
| AO*, `AOStar.cpp`, `BFSearchSpace.h` | graph of shared nodes, tips, revise set | `Expand`, `Revise`, `FindBestPartialTree` | values are upper bounds; a node called solved is | `AOStar` |
| Anytime AO*, `AnytimeAOStar.cpp` | as above, feasible values and marks | dives, `ReviseFeasible`, `Repair` | both bounds enclose the optimum in every state | `AnytimeAOStar` |
| Dynamic parallel, `SearchMaster`, `BoundPropagatorMaster`, `SubproblemCondor`, `SigHandler` | queues, mutexes, condition variables, flags | search, propagator, submission engine, a handler per subproblem, signals | no result lost or used twice, no thread waits for ever | `DynamicMaster` |
| Main, `Main.cpp`, `daoopt_solver.cpp` | pipeline of stages | `findOrLoadOrdering` ... `runSearch` | stages skipped because the problem is thought to be solved leave the optimum | `SolverMain` |
| Static parallel, `ParallelManager.cpp` | frontier, job files | `findFrontier`, `writeJobs`, `readExtResults` | results are matched to the node they belong to | - |
| Constraint propagation, `Search.cpp` | domains, a SAT solver | `DoSATPropagate`, `DoCPLookahead` | only infeasible values are removed | - |
| Sampling, `BranchAndBoundSampler.cpp`, `LearningEngine.cpp` | samples, regression | estimates of subproblem sizes | none: the result is an estimate | - |
| Local search, `SLSWrapper.cpp` | none of its own | `run` | a feasible lower bound | in `SolverMain`, as its result |

How they interact. `main` computes an order and the pseudo tree, may obtain a
lower bound (local search, LDS, option), builds the heuristic, stores the bound in
the root node and calls `solve`. `solve` asks the search for the next leaf:
`nextLeaf` repeats `nextNode`, `doProcess`, `doCaching`, `doPruning`, `doExpand`
until a node is a leaf, and hands it to `propagate`, which climbs from it, changes
values, writes the cache, tells `Problem` of a new best cost at the root and
deletes the highest closed node. All share the search space, the cache and,
through `Search`, one assignment vector. When the search expands an OR node, it
calls the heuristic with that vector (`noteOrNodeExpansionBeginning`,
`getHeurAll`): the heuristics with state of their own, look-ahead and cost
shifting, compute tables there that later nodes read. The default build is
sequential; in the dynamic parallel build, search and propagation are threads on
one search space, and subproblems are solved by Condor jobs.

What is hard: the search deletes nodes to which stacks, parents and the
propagation point; the assignment vector is never undone, and look-ahead writes
into it; adaptive cache tables drop part of the context and rely on resets; pruning
leaves subproblems unsolved, and these must be kept out of the cache; with
rotation all of this happens for several subproblems in turn. Best-first search
revises shared nodes in an order that is only heuristic. The dynamic scheme
waits on condition variables without predicates. `PROJECT.json` lists the hazards
at their lines and the properties that would catch them.

## 2. Modules

| Module | What it models |
|---|---|
| `Costs` | the log cost algebra: finite costs are integers, -infinity and NaN are special values, comparisons follow IEEE |
| `AOModel` | pseudo tree, contexts, cache contexts and reset lists; nodes as paths; labels and bounds of a problem as tables |
| `AOSearch` | processing of one node, the loops of `propagate` and `propHeuristic`, cache tables, best cost |
| `SearchProperties` | what must hold under any depth-first scheme |
| `BranchAndBound`, `BranchAndBoundRotate`, `LimitedDiscrepancy` | the orders in which nodes are taken |
| `AnytimeSolver` | the abstract specification of a solver for its user |
| `AOStar`, `AnytimeAOStar` | best-first search on the graph of shared nodes, plain and with dives and repairs |
| `Factors`, `PrimalGraph` | functions and their elimination; the graph of a problem |
| `VariableOrder` | min-fill orders, the adaptive loop over them, trees and chains with their contexts |
| `MiniBuckets` | the mini-bucket heuristic on the tree that `VariableOrder` found; extends it |
| `SolverMain` | the stages of `main`, from the problem to the printed cost; extends `MiniBuckets` |
| `Lookahead` | look-ahead on the heuristic of `MiniBuckets`, under depth-first search; extends it |
| `CostShifting` | cost shifting at the root and along a path of the search |
| `DynamicMaster` | the threads of the dynamic parallel scheme, Condor and the faults |
| `Instances`, `SmallProblems` | pseudo trees and problems for the model checker |
| `MC*` | a specification together with its instances |
| `CommonLemmas`, `SearchLemmas`, `OptimumLemmas` | lemmas for the proofs |
| `BranchAndBound_proofs`, `BranchAndBoundRotate_proofs`, `AnytimeAOStar_proofs`, `DynamicMaster_proofs`, `SolverMain_proofs` | theorems and their proofs |

Depth-first search. A search node is named by the path from the root,
variables and values in turn: the path determines `m_parent`, the variable, the
value and the assignment of the ancestors. `node` maps the live paths to the
fields of `SearchNodeOR` and `SearchNodeAND`; deleting a node is leaving the
domain. `m_children` is the set `Kids`. `assignment` is `Search::m_assignment`,
`cache` is `CacheTable::m_tables`, `curCost` and `upper` are `Problem::m_curCost`
and `m_curUpperBound`, `stack`, `stacks` and `queue` those of the search classes.
`reg` holds the local variables of the two loops that climb, and `phase` says
where the program is. Handling one node (`doCompleteProcessing`, with the
expansion) is one action, split by its outcome: `HitCache`, `Prune`, `LeafAND`,
`ExpandAND`, `ExpandOR`. In the order of the code, an AND node first writes the
assignment and resets its tables, an OR node first looks in the cache, then the
pruning test runs, then the children are made. An iteration of the loop of
`propagate` is `PropagateAND` or `PropagateOR`, the code after the loop
`PropagateFinish`; an iteration of `propHeuristic` is `PropHeurAND` or
`PropHeurOR`, and `PropHeurEnd` is what follows. Where the code sorts children
with a comparison that leaves ties, any order that it allows is possible.

Two details are kept because they matter. `propagate` decides to delete a node
from the number of children before the child that has just been closed is
erased, hence "at most one". And `eraseChild` runs after the climb, on the
highest closed node only. The bound at a node is a table of the problem, any upper
bound on the exact values: these modules represent the heuristic by what it
promises, and `MiniBuckets`, `Lookahead` and `CostShifting` are where the promise is
checked. `P.opt` is read by the properties alone.

Best-first search. Nodes of the graph are (variable, context) and (variable,
context, value), so that equal subproblems are one node, as the keys in
`BFSearchSpace` make them. `revise` is `revise_set` with the index of every entry,
`tips` the tip nodes of the best partial tree. One round of `DoSearch` up to a
revision, one revision, and one search for the best partial tree are actions; in
`AnytimeAOStar` so are one expansion of a dive and one layer of `Repair`. Any tip
may be chosen. The plain search prints its bound when that changes, at most every five
seconds: the first change is reported, any later one may be.

Preprocessing. `VariableOrder` eliminates one node, or all nodes of score zero,
in a step; the random choice among the best scores is a choice. `MiniBuckets` takes
a bucket in several steps: open it, place one function at a time, match, send.
Functions go by names, `<<x, i>>` for the message from the i-th mini-bucket of x and
`<<GIVEN, i>>` for the i-th function of the problem, and any order that the
comparison of `sort` leaves open is possible. `SolverMain` adds local search, the
user's bound, LDS and the search as single steps with the results that they may
have, the search being exact by what `BranchAndBound` shows.

Look-ahead. `subtreeOf`, `outputs` and `valid` are the subtrees, their tables and
`_IsValidForCurrentContext`. Of the search the module keeps the order in which
nodes are generated and the assignment vector; whether a node is expanded or
pruned is open, as is the random decision not to compute. Which buckets have an
error is any set of the buckets that are split.

Cost shifting. The store of a node is a list of functions and a constant; one
update of a variable is a step, and the module follows one path of the search,
with a branch chosen at every node. A shift is recorded in the store, and taken
back when the variable it came from is assigned.

Dynamic scheme. A step is a critical section, or the part between two mutexes taken
one in the other. Mutexes, condition variables (with lost and spurious
notifications), interruption points, the batches of jobs, the exits of the threads
and `SigHandler` are modelled; the search space itself is not, since `AOSearch`
has it.

## 3. Checks

| Run | Instance | What it shows |
|---|---|---|
| `bab_chain` | chain of five variables, cache bound 1, heuristic propagation | `TypeOK`, `NoDangling`, `AssignmentOnPath`, `NeverEmptyOR`; nothing inexact is written to the adaptive tables (`CacheWritesExact`); on a chain the propagated upper bound, by which the search may end early, is sound (`UpperBoundSound`); `ResultOptimal` |
| `bab_split` | two decompositions, full caching, children ordered by bound | `NothingLost`, `OptimumNotLost`, `ValuesAreLowerBounds`, `Terminates`; the search implements `AnytimeSolver` (`ImplementsAnytime`) |
| `bab_rotate` | nested decompositions, six variables, cache bound 1, rotation after two nodes | for interleaved subproblems: `StackTree`, `NothingLost`, `OptimumNotLost`, `ReadsOwnPath`, `CacheHitsExact`, `Terminates` |
| `lds` | two decompositions, three values, limits 0 to 2, no cache | the result is at least as good as every solution near the preference (`FindsNearSolutions`); with an exact heuristic it is the optimum (`OptimalIfExact`) |
| `bab_heur_split` | two decompositions with heuristic propagation | violated: see the findings |
| `dynamic` | three items, two threads, limits 2 and none; lost files and signals, and all faults | `ExternsComplete`, `ExternsInFlight`, `PropagatedOnceWithValue`, `TokensConserved`, `GoesOnWithOwnJob`, `EndsUnlessLost`, `TypeOK` |
| `dynamic_race` | the same, no fault at all | violated: see the findings |
| `preprocess` | cycle, two triangles, a bipartite graph, functions of three variables with an isolated one; i-bounds 1 and 2, matching on and off, trees and chains | `WidthIsThatOfTree`, `ContextsSeparate`, `HeuristicAdmissible`, `AccurateIsExact`, `OutputsOptimum`, `Terminates` |
| `lookahead` | cycle of four, two triangles with a common edge, i-bound 1, depths 1 to 3, every set of buckets with an error | `LookaheadSound` |
| `fglp` | three variables, three shapes, three schedules, with and without nullary shift and time limit | `SameProblem`, `Admissible`, `BoundNeverRises` |
| `fglp_root` | the same, with iterations at the root in AND/OR search | violated: see the findings |
| `aostar` | chain that forks, with nodes shared by several paths; plain and anytime | `BoundsEnclose`, `AssertionsMet`, `Terminates` |

The properties, in words:

- `NoDangling`: open nodes, the nodes of the propagation and all ancestors of
  live nodes are alive. `NothingLost`: a live node without children is open or is
  the leaf being propagated, so nothing is forgotten and nothing closed stays.
- `OptimumNotLost`: in every state the optimum of the problem is known at the
  root or can be put together from the open nodes, the values and the solved
  parts that have been erased. It fails at the first wrong pruning, long before
  the result is wrong.
- `CacheWritesExact`, `CacheHitsExact`: a value is written to the cache only if
  it is the optimum of its subproblem, and what is read is the optimum for the
  assignment at hand. `ValuesAreLowerBounds`: a value never exceeds what its
  subproblem can attain.
- `AssignmentOnPath`, `ReadsOwnPath`: what is read of the assignment vector is
  the path of the node. With rotation the property is stated for the context: the
  rest of the vector may be that of another stack.
- `FindsNearSolutions`: a solution is near if on every branch the ranks of its values,
  0 for the value that the heuristic likes best, add up to at most the limit; ties count
  against it. `OptimalIfExact`: the limit 0, which `compileHeuristic` sets for an
  accurate heuristic in place of a search, finds an optimal solution, although it
  follows a single value at every variable and breaks ties at will.
- `BoundsEnclose`: lower and upper bounds of every node of the graph, and those
  that are printed, enclose the optimum of its subproblem in every state, and a
  solved node is exact. `AssertionsMet`: the assertions in the code, and the
  comment that a tree without tips means a solved root.
- `WidthIsThatOfTree`, `ContextsSeparate`: what the search relies on
  (`PseudotreeAssumption` of `AOModel`) is what the ordering delivers, for every
  problem, as section 4 proves.
- `HeuristicAdmissible`, `AccurateIsExact`: the promise that pruning, and the
  decision to do without a search, rest on. `OutputsOptimum`: the cost printed.
- `LookaheadSound`: whatever table is used, by which node and however long after it
  was computed, the value lies between the best completion of the path and the
  mini-bucket bound that it refines. The path is read from the assignment vector, of
  which `AssignmentOnPath` and `ReadsOwnPath` say that it is the node's.
- `SameProblem`: the store of a node gives every completion the cost that the
  problem gives it, after any number of shifts, also into functions that another
  branch owns. `BoundNeverRises`: no update makes the bound worse.
- `ExternsComplete`: when the propagator decides that all is done, each
  subproblem has been solved and propagated. `ExternsInFlight`: until then each is
  in the table of active threads or just being reaped. `TokensConserved`: the limit
  on items in flight neither leaks nor grows. `GoesOnWithOwnJob`: a handler never
  waits for a job that does not exist, although it waits without a predicate.
  `EndsUnlessLost`: all threads end, unless a handler waits for a notification that
  is past or was never sent, or a solution file never came: these are the only
  ways to hang.

Bounds. `Instances` has four pseudo trees: a chain whose contexts exceed the
cache bound, so that tables are cut and reset; a tree with a decomposition below a
decomposition; one that has both; and for AO* a chain that forks, whose contexts
let paths meet. Variables are binary, the smallest domain with a choice; for `LimitedDiscrepancy` they have
three values, the smallest domain in which ranks and deviations differ. Problems
come from a seeded mixing function: `Seeds` of them, labels in a range of
`MaxLabel` + 1 values or infeasible, bounds exact or off by up to `MaxSlack` for each
variable, so that pruning, dead ends, ties and cache hits all occur. Initially the
lower bound is unknown, infeasible, one below the optimum or the optimum. For AO*
labels are of both signs (`LabelShift`), since a search by gaps treats costs
above one differently. The search on one problem is nearly deterministic, and the
breadth is in the number of problems. In `preprocess`, `lookahead` and `fglp` costs
are multiples of a unit that all roots (`OP_ROOT`) taken on these instances divide
exactly: 1296, and 1327104 for cost shifting, which divides again and again. The
constant of the problem is one or less. Three items are enough for a leaf, a
subproblem in the batch and one queued behind it; two threads and a limit of two
make the search wait. There is no state constraint, every space is explored
completely, and every property is broken by a mutant of the code on its instance
(`PROJECT.json`, "mutants"). Deadlock is not checked, since the programs stop.

Fairness. Each sequential search, and `main`, is the loop of a single thread that
always takes its next step when there is one: weak fairness of `Next`. For AO* it
is that of `SearchStep`: nothing forces the search to run out of time or memory.
In `DynamicMaster` it is weak fairness of each thread, and of Condor's answer to a
job that it has accepted; nobody has to signal, and no fault has to happen.

### Findings

`bab_heur_split`: with the option `do_heuristic_prop`, `propHeuristic`
(`Search.cpp:1071`) sets the bound of an OR node to the maximum over the
children that are left. Children already solved have been erased, and their
value, kept in the OR node, is not taken into account. On a chain this is
harmless, since the value has then reached the root as well (`bab_chain`). Below a
decomposition it has not, and the bound recorded at the root can fall below the
optimum: the printed "anytime upper bound" is wrong, and the test LB >= UB ends
the search early.

`dynamic_race`: the propagator sets `allDone` when the search is done and no
thread is active, but it has looked at the queue of leaves before that. The search
may push its last leaf and finish in between; the leaf is then never propagated,
and its cost may be missing at the root. The code has a "TODO: Make sure race
condition can't happen" at this place (`BoundPropagatorMaster.cpp:104`).

`fglp_root`: `FGLPHeuristic::build` runs FGLP at the root and turns the recording
of shifts on afterwards (`FGLPHeuristic.cpp:85`). In AND/OR search what that run
has shifted between branches is never taken back, and the heuristic falls below the
true value of subproblems. With no iterations at the root (`fglp`), or on a chain,
it does not.

Noted while modelling. `LimitedDiscrepancy.h:31` says that the search "explores every
solution that deviates from the heuristic preference at most k times"; `doExpand`
(`LimitedDiscrepancy.cpp:104-120`) charges a child its rank, so that the third best value
costs two deviations and is cut off with a limit of 1. The model and
`FindsNearSolutions` follow the code; with one deviation charged for every value that is not
the best, as the comment says, TLC finds the property violated in the run `lds`.

Also noted, and kept out of the instances: a problem constant above
one is divided out of the bound but not out of the value it is compared with
(`MiniBucketElim.cpp:218`), and a good initial bound then ends the program
without a search; AO* leaves the problem's constant out of its cost
(`AOStar.cpp:58`); `initSearch` empties the vector of node tables before it adds
the root (`AOStar.cpp:445`, `BFSearchSpace.h:128`), so that the tables are
accessed beyond its end; the model takes them to be there, and empty. That
shared look-ahead tables are right only for depth-first order shows if the model
takes nodes in any order: `LookaheadSound` is then violated. `daoopt_solver.cpp`
turns sharing off for the other algorithms (lines 268-272).

## 4. Proofs

TLAPS proves the following for every value of the constants: all pseudo trees,
problems and options (`BranchAndBound_proofs`, `BranchAndBoundRotate_proofs`), all
pseudo trees, problems and admissible heuristics (`AnytimeAOStar_proofs`), all
numbers of items and threads, limits and sets of faults (`DynamicMaster_proofs`),
and all finite problems, numbers of iterations, i-bounds and ways to partition a
bucket (`SolverMain_proofs`).

| Module | Theorem | Statement |
|---|---|---|
| `BranchAndBound_proofs` | `Invariance` | `Spec => [](IInv /\ DepthFirst /\ Assigned)`, the inductive invariant |
| | `TypeCorrect`, `NoDanglingHolds`, `NothingLostHolds`, `AssignmentOnPathHolds` | `Spec => []P` for `TypeOK`, `NoDangling`, `NothingLost`, `AssignmentOnPath` |
| | `CostInvariance` | `Spec => []` of the invariant above with `Handled(OnStack)` and `CostInv(OnStack)` |
| | `ValuesAreLowerBoundsHold` | `Spec => []ValuesAreLowerBounds` |
| | `ReportedCostReachable` | `Spec => [](~Greater(curCost, Optimum(prob)))`: the cost reported is never better than the optimum |
| | `NeverEmptyORHolds` | `Spec => []NeverEmptyOR` |
| | `OptInvariance` | without `PropHeuristic`: `Spec => [](OptInv(OnStack) /\ Emptied)`, the inductive invariant for the optimum |
| | `CacheHitsExactHolds`, `ResultOptimalHolds`, `CacheWritesExactHolds` | without `PropHeuristic`: `Spec => []P` for `CacheHitsExact`, `ResultOptimal`; `Spec => CacheWritesExact` |
| | `OptimumNotLostHolds` | without `PropHeuristic`: `Spec => []OptimumNotLost` |
| | `ImplementsAnytimeHolds` | without `PropHeuristic`: `Spec => ImplementsAnytime`, the refinement of `AnytimeSolver` |
| `BranchAndBoundRotate_proofs` | `RotateInvariance` | `Spec => []RInv`, the inductive invariant |
| | `StackTreeHolds`, `RotateNothingLost`, `ReadsOwnPathHolds` | `Spec => []P` for `StackTree`, `NothingLost`, `ReadsOwnPath` |
| | `RotateCostInvariance` | `Spec => [](RInv /\ Handled(OnStacks) /\ CostInv(OnStacks))` |
| | `RotateValuesAreLowerBounds` | `Spec => []ValuesAreLowerBounds` |
| | `RotateOptInvariance` | without `PropHeuristic`: `Spec => [](OptInv(OnStacks) /\ Emptied)` |
| | `RotateCacheHitsExact`, `RotateResultOptimal`, `RotateCacheWritesExact`, `RotateOptimumNotLost`, `RotateImplementsAnytime` | without `PropHeuristic`: as for branch and bound |
| `AnytimeAOStar_proofs` | `AOInvariance` | `AnytimeSpec => []AOInv`, the inductive invariant of both best-first algorithms |
| | `BoundsEncloseHolds`, `AssertionsMetHolds` | `AnytimeSpec => []P` for `BoundsEnclose`, `AssertionsMet` |
| `DynamicMaster_proofs` | `Typing`, `Accounting`, `CustodyHolds` | `Spec => []I` for the three parts of the inductive invariant |
| | `ExternsCompleteHolds`, `ExternsInFlightHolds`, `GoesOnWithOwnJobHolds`, `TypeCorrect`, `PropagatedOnceHolds`, `TokensConservedHolds` | `Spec => []P` for the six invariants of the run `dynamic` |
| `SolverMain_proofs` | `OrderInvariance` | `Spec => []OrderInv`, the inductive invariant |
| | `WidthIsThatOfTreeHolds`, `ContextsSeparateHolds` | `Spec => []P` for `WidthIsThatOfTree`, `ContextsSeparate` |
| | `BucketInvariance` | `Spec => []BucketInv`, the inductive invariant of the mini-buckets |
| | `HeuristicAdmissibleHolds` | without moment matching, or with an accurate heuristic (`Plain`): `Spec => [](Plain => HeuristicAdmissible)` |
| | `AccurateIsExactHolds` | `Spec => []AccurateIsExact` |
| | `MainInvariance` | `Spec => []MainInv`, the inductive invariant of the stages of `main` |
| | `OutputsOptimumHolds` | as for `HeuristicAdmissible`, and a constant of at most one: `Spec => [](Plain /\ ~Greater(GlobalConstant, ELEM_ONE) => OutputsOptimum)` |

`CommonLemmas` has what all of them need: sequences without repetition, the cost
algebra, products and maxima over finite sets (one element less, bounds from bounds),
what can be reached in a finite graph, and depths in a tree. `SearchLemmas` has facts on
paths, on what the pseudo tree says of the variables on a path and what two paths with the
same context share, and on a set of live and a set of open nodes, which do not mention a
stack; then one lemma for each way in which `AOSearch` handles a node or passes a value on,
for any search scheme. Its `CostInv` depends on the scheme only through the set of open
nodes. `OptimumLemmas` does the same for what makes the result the optimum (`OptInv`).

Branch and bound. The assumptions used are `ModelAssumption` of `AOModel`, the types
of the pseudo tree, the domains and the contexts, and, for `AssignmentOnPath`,
`PseudotreeAssumption`: a variable has one parent, the artificial root has none,
and contexts grow by at most the parent. That is what `Pseudotree::build` delivers
(`ContextsSeparate`). Nothing is assumed of the problem there: the tree is handled
correctly whatever the bounds and labels are. None of the properties is
inductive. That an erased node is not on the stack depends on what `propagate`
knows when it deletes. `IInv` says that the live nodes form a tree (`Tree`), that
its leaves are exactly the nodes on the stack and the leaf being propagated
(`Frontier`), that the stack repeats nothing, and, while `propagate` climbs, that
(`Closing`) its pointers are on the path of that leaf, that no open node lies below
`highestDelete`, and that either the next iteration looks at the parent of
`highestDelete` or another child of that parent has been seen. From that, one
iteration either moves `highestDelete` up by one, to a node with at most one child,
or stops deleting for good, and the erasure at the end removes the leaf with its
closed ancestors and nothing else. For the assignment, the stack is in depth-first
order (`DepthFirst`: the parent of a node on it is above the parents of all later
ones), and the assignment agrees with the path of every parent of an open node
(`Assigned`): a value is written at the top, and whatever is below in the stack
hangs on the path of the top, above that value, or the variable would occur twice
on a path of the pseudo tree.

Values. `ValuesAreLowerBounds` also uses `LimitAssumption` (the option `cbound`), the
last part of `PseudotreeAssumption` (all variables hang below the root) and
`ProblemAssumption`: labels and optima are costs, the optima satisfy the equation
of variable elimination, and a solution known before the search is no better than
the optimum. The heuristic is not constrained: with an inadmissible one the
search may miss the optimum, but it never invents a value. An OR node takes the
best of label times value of its children, an AND node the product of `subSolved`
and the values of the children left, and since erased children have been
multiplied into `subSolved` its bound is that of the children that are gone
(`RestsFit`). The difficult part is the cache. With an adaptive context, an entry
stands for many paths that have other optima, and it is right only for those below
the node that reset the table last. `CacheSound` therefore bounds an entry for
every path that lies below the handled nodes that reset its table, whether it has
been generated or not. Of the handled nodes no two part at a value (`OneValued`), so that
such a path agrees with the one written on all of its context, and its optimum is
the same. That needs the order in which nodes are taken: a node handled and not
erased has an open node below it, or the leaf being propagated (`Covers`), and what is
below it in the stack hangs on the path of the top (`DepthFirst`). When a node that
reset a table is erased, the bound for the paths below it is given up; whatever
reaches the table again lies below a node that is handled later, which empties it.
The theorem holds for every limit on the cache and every pseudo tree, where the
runs have tables of one or two variables.

Optimum. Two more assumptions enter here. `BoundAssumption`: the heuristic is
admissible, which `MiniBuckets` checks of the one that the program computes.
`ConstantAssumption`: the constant of the problem is not zero (section 5 says what
the program does otherwise). `NeverEmptyOR` follows from them: an OR node has a
bound above zero when it is made, or its parent had been a dead end, and so a value
that its functions allow (`AllFeasible`). The theorems on the optimum have the
hypothesis `~PropHeuristic`: that option lowers the bounds of nodes as the search
goes on, and by the finding `bab_heur_split` below what they promise; runs with it
stay with the model checker. Otherwise bounds never change (`BoundsFit`). `InSync`
says what values mean: the value of an AND node is the product of `subSolved` and
the children left, that of an OR node at least what each child gives it, except
at the one node that the next iteration of `propagate` looks at. `NotLost` is the
core. A node that is pruned may have a value that is too low, without a mark that
lasts until the end; so there is a set of nodes that have kept their optimum
(`Keeping`), which contains every OR node that is not marked `notOpt`, and whose members
are open, or have their optimum as their value, or get it from children in the set
(`Kept`). When `canBePruned` succeeds at an OR node above, the bound of the partial
solution tree covers the optimum of every node in the set on the way
(`BoundedUpAND`, `BoundedUpOR`: the solved children of an AND node in the set have
exact values, the open ones admissible bounds), so that nothing above can improve
on the value it has already; the nodes below are marked, and leave the set. A node written
to a table is not marked, and is closed: it has its optimum (`CacheExact`, which
is as `CacheSound` with equality), and so has the root when nothing is left
(`OptDone`). `OptimumNotLost` puts the optimum together from below (`Reachable`), which
is a recursive function on the live nodes. Those are finitely many (`FiniteAlways`),
so that among any of them there is a longest path, and the function is what it is
defined as: `Found` computes it at a node from its children (`ReachableIs`). Then what
can be found is at most the optimum at every live node, and it is the optimum on the
set of `NotLost`, which has the root in it because the root is never marked
(`OptimumReachable`). The refinement of `AnytimeSolver` needs both halves: what is reported is
never above the optimum, and at the end it is the optimum.

Rotation. Every stack has a root node, and holds nodes below it. Two stacks part at
a variable, or one lies above the other; and then the upper one waits for a stack
that lies above the lower one too, so that its count of children is not zero and
the scheduler does not take it. Hence the stack in use has none below it, and a
value that it writes is on the path of everything that stays open above it, and on
no path read by the stacks beside it. `RInv` is this (`Placed`, `Hierarchy`) with
`StackTree`, which is inductive only together with it, and with every node on one
stack only. The costs depend on the order of the search only through `Handled`,
and that follows again from the places of the stacks: a handled node has an open
one below it, on a stack that is above the one in use, or parts from it at a
variable, as different children of a variable in the pseudo tree do. So `CostInv` and `OptInv` hold
here too, with the same lemmas.

Best-first search. The assumptions are those on the model, the pseudo tree and the
problem, `BoundAssumption` (the heuristic is admissible), `ConstantAssumption`, and
`DummyAssumption`: the artificial root has one value, as `Main` makes it, and the
problem has variables. The exact value of a shared node depends on its context alone,
and `GraphOK` says that the graph is a part of the space of all nodes, that a node has
all of its children or none yet, and that parents are the converse of children: the
node that the code finds under the key of the assignment is the node that belongs
there, since the assignment agrees with every tip when it is expanded. `UpperOK` and
`LowerOK` are about values and would be inductive but for two things. A solved node
has to be exact, which is passed up only if the child that reaches the new value is
solved, and the flags of parents and children do not agree at every moment. And what is
expanded has to be a tip that agrees with the assignment and is not solved. For the first,
`FlagsOK` has two directions. Solved nodes have solved children (`Down`), also while
revisions are under way, except during `Repair`, which clears the flags and restores the
agreement from the deepest layer up. Nodes whose children are solved are solved
themselves (`Up`), unless they wait in the revise set; a dive breaks this until `Repair`.
That a revision may stop where nothing changes, and leaves the parents alone, is part of
this: `Up` of a parent depends on the flags of its children and on its best child only.
`WaitOK` says of the index of a waiting node that it is at most the number of its
children that wait. The code decrements and increments indices from several sides,
and a shared node may be put in again; but the deepest waiting node has no child in the set,
so that its index is zero, and the assertion that the front has index zero holds although
indices may be too small. For the second, the nodes that a partial tree visits are a tree
in which a variable occurs once (`SolutionTree`), so that the assignment it leaves behind agrees with
all of its nodes (`TreeAgrees`), and an unsolved root with flags in agreement has an unsolved tip
(`TipsOfPartialTree`). That tips of the best tree have not been expanded by a dive follows
from `ExpandedOK`: an expanded node without children is solved, or waits.
What is reported is `CostsOK`: a bound that encloses the optimum may be reported at any
time (`MayBeReported`), and at the end, when the root is solved, the bound and the value
of the root are both the optimum (`SolvedRoot`), for the plain search too, whose printed
bound lags behind.

Dynamic scheme. The assumptions are `BoundsAssumption`, `ThreadsAssumption` and
`FaultsAssumption`. That nothing is left when the propagator says so is not
inductive either: it has looked at the queue and at the table of threads in
different critical sections. `Accounted` says for each subproblem where it is and
where its handler thread is, step by step of the propagator's clean-up, and what
the flags say about the search once they are set. `JobsKept` does the same for the
jobs between a handler's push and the notification of its batch, when neither
submissions fail nor waiters wake without reason. `Custody` says that an item is
in one place: from it follow the single propagation, and by counting (an item that
is in nobody's hands has given its token back) the tokens.

Orders and trees. The assumptions are `OrderAssumption` and `InstancesAssumption`
(the variables that occur in a scope are 0 to n - 1, fewer than `INT_MAX`). `OrderInv` says that the order built so far comes with a trace of
graphs, each the former with one node eliminated, and describes every stage of the
code against it. A node of score zero has neighbours that are connected already,
so removing it without connecting them is eliminating it, and removing one of
them leaves the others with score zero; elsewhere a score that is not recomputed
is at most too high. The same trace is what `build` reads: the context of a
variable is its neighbourhood in its graph, contexts of the roots of the partial
tree are cliques of what is left, and so every context but its next variable is in
the context of that. A neighbourhood in the trace lies among the ancestors in the tree,
has no more members than the width, and is connected in the graphs that follow
(`Covering`, `Neighbours`): that is what the width says of the buckets. Statements
about ancestors go by the position of a variable in
the order, with a least counterexample in place of induction.

Mini-buckets. The assumptions are also `TablesAssumption` (a function of the problem
has a cost for every assignment of its scope) and `DomainAssumption`; `OrderInv`
supplies the tree. Admissibility is a statement about the end of `build`, and about
a product of maxima over functions that were taken apart and sent to different
places. `BucketInv` holds at every step. Messages come from buckets
that are done and are where `Target` says (`Delivered`), and the mini-buckets of an open
bucket and what is not placed yet share out its functions (`Partitioned`).
`Accounted` is the core: for every full assignment and every node, the product of
the functions given to the buckets below the node that are done is at most the
product of the messages that these have sent and no bucket below the node has taken up.
A step replaces the functions of a bucket by one message for each mini-bucket,
and the maximum over the variable of a mini-bucket is no less than its product at the
assignment at hand; a product of maxima only grows. At the end what is pending below a
node is exactly `m_augmented` and `m_intermediate` of the node, and since these depend
on its ancestors only, a best completion is among the assignments that `Accounted`
speaks of. No order of placement and no limit on the size enters, so that the proof
holds for every partitioning.

An accurate heuristic is one whose i-bound reaches the width of the order
(`MiniBucketElim.h:181-184`). What a bucket collects is then over its variable and the
neighbours this had when it was eliminated, because messages are (`Narrow`): a message is
over the neighbours of the bucket that sends it, these are connected with each other, and
so lie, but for itself, among the neighbours of the one eliminated next, where the
message goes. So everything fits into the first mini-bucket, nothing is split, and nothing is
shifted even if moment matching is switched on. `Attained` is the counterpart of `Accounted`:
for every assignment there are values of the variables of the buckets that are done for
which the product of their functions is no less than that of the pending messages. They
are changed one bucket at a time, to where the one message takes its maximum, which
with two mini-buckets could be two different values. Both bounds together are
`AccurateIsExact` at the end of `build` (`CompletionsAt`, `ExactAt`).

Moment matching of a bucket that is split is left out of the theorems: it divides
by max-marginals and takes roots, which for integers is exact only where the
instances make it so, and an infeasible entry gives NaN.

Stages. `MainAssumption` is added (the bounds and options that the user may give).
`MainInv` says that the cost found so far is never better than the optimum, and what each
stage leaves to the next. The test for a solved problem compares the user's bound with
the bound of the heuristic; the latter is never below the optimum, by `BucketInv` at the
artificial root, and dividing out the constant does not lower it as long as the constant
is at most one (`RootBound`). Hence, unless the user's bound reaches the optimum, `m_solved` is
set for an accurate heuristic only, and then LDS has run and found the optimum; and in all
other cases the main search runs, and reports the optimum or finds it at its root already.
What the searches find is taken from the specification of `SolverMain`, which rests on the
theorems on `BranchAndBound` and, for LDS, on `OptimalIfExact` in the run `lds`. A constant above one is
left out because the code then compares with a bound that can be too low
(`MiniBucketElim.cpp:218`, a hazard in PROJECT.json).

Only model-checked:

- `UpperBoundSound`, and the other properties of the search with `PropHeuristic`.
  `FindsNearSolutions` and `OptimalIfExact`: they follow ranks along paths to solutions.
- `HeuristicAdmissible` and `OutputsOptimum` with moment matching of buckets that are
  split, and `OutputsOptimum` for a constant above one. `LookaheadSound`, `SameProblem`, `Admissible`, `BoundNeverRises`: they compare
  folds over functions and buckets with optima. The provers have no induction over
  data, so each of these recursions would have to be taken apart by a least
  counterexample, as `ReachableIs` does for one of them, or by an invariant of the steps
  that build them, as `BucketInv` is. Those that
  average or shift costs hold for costs that can be divided, as the instances choose
  them: `Root` stands for a division of doubles by one of integers.
- `Terminates`, `EndsUnlessLost`: liveness.

## 5. Not modelled

- Constraint propagation. With `cp_type` FULL the loop that collects the literals of
  the path leaves after one iteration (`Search.cpp:273`, the condition is inverted),
  so that only the node's own literal is tested, and at a node just below the root
  it goes on with a null parent. With UNIT, `canBePruned` opens a decision level of
  the vendored SAT solver for the node it looks at, and `propagate` closes one for
  each node that it erases (`BoundPropagator.cpp:279-296`): the levels are those of
  one branch only without rotation. What the solver does with them is outside `src/daoopt/source`.
- The static parallel scheme: `ParallelManager.cpp` does not compile at this
  commit. It is a sequential pass over a frontier and files; a missing result file
  (line 587) and a frontier that the second process finds differently
  (`Main.cpp:1033`) are its hazards.
- Of the dynamic scheme, what decides when a node is cut off, and the local
  solution of small subproblems. It does not compile at this commit either
  (constructors are called with the wrong number of arguments); its logic is complete.
- Sampling: randomised probing whose only result is an estimate.
- `MiniBucketElimInc`; look-ahead subtrees limited by size and the tables of local
  errors; the order of subproblems that these give to AND/OR best-first search.
- Preprocessing by the vendored mex library (`DoFGLP`, `DoJGLP`), `ResidualFGLP`,
  `FGLPMBEHybrid` and shifted labels.
- Orders read from a file or made by the external generator, and a run without any
  order iteration (`Main.cpp:303`).
- AO* with the option `nocaching` (a subgraph of what is modelled).
- `propagateTuple`: the default build has `NO_ASSIGNMENT`, the solution is its cost.
- Conditioned subproblems, node limits, the time limit (it ends the process,
  `Search.cpp:232`), and an infeasible global constant (the root would be a leaf
  without a parent, `BoundPropagator.cpp:70`).
- Floating-point rounding: costs are integers.
- Parsing, evidence and output. The vendored code (`minisat`, `zchaff`, `ARP`,
  everything below `daoopt/lib`), which is most of the lines of the repository.

## 6. Plan

Done: the sequential program from the problem to the printed cost, its heuristics
but the incremental one, its depth-first and best-first searches, the dynamic
parallel scheme, and the proofs of section 4. Next, in this order:

1. `ConstraintPropagation`: the decision levels as the search pushes and `propagate`
   pops them, with rotation.
2. `ParallelStatic`: frontier, job files, results matched between the two processes.
