----------------------------- MODULE SolverMain -----------------------------
(***************************************************************************)
(* The stages of main() (daoopt_solver.cpp, Main.cpp): local search, the   *)
(* variable order, the mini-bucket heuristic, limited discrepancy search   *)
(* and the main search, and what one stage tells the next: the best cost   *)
(* so far, the value of the search's root and the flag m_solved.           *)
(*                                                                         *)
(* Preprocessing is modelled step by step (VariableOrder, MiniBuckets).    *)
(* The searches are modelled in modules of their own; here they are what   *)
(* those show of them: LimitedDiscrepancy finds the cost of some solution, *)
(* the best one if the heuristic is exact, and BranchAndBound the optimum. *)
(***************************************************************************)
EXTENDS MiniBuckets

CONSTANTS
  BoundGaps,   \* how far the option initial_bound may be below the optimum
  LdsModes     \* whether the option lds_limit is given

ASSUME MainAssumption == BoundGaps \subseteq Nat /\ LdsModes \subseteq BOOLEAN

VARIABLES
  optimum,       \* of the problem; nothing of the code, for the properties
  initialBound,  \* the option, or ELEM_NAN
  lds,           \* is lds_limit given?
  curCost,       \* Problem::m_curCost
  rootValue,     \* the value of the root of m_search
  solved         \* m_solved

mainVars == <<optimum, initialBound, lds, curCost, rootValue, solved>>
vars     == <<orderVars, bucketVars, mainVars>>

\* Problem::updateSolution and Search::updateSolution
Reported(c)  == IF ISNAN(c) \/ Greater(curCost, c) THEN curCost ELSE c
LoadedAtRoot(c) ==
  IF ISNAN(c) \/ (~ISNAN(rootValue) /\ ~Greater(c, rootValue)) THEN rootValue ELSE c

(* The cost of some solution, for the incomplete searches to find. *)
SomeSolution == ProductOf(problem.functions, [x \in Vars |-> 0])

Init ==
  /\ stage = "sls"
  /\ OrderInit /\ BucketsInit
  /\ optimum = Optimum
  /\ initialBound = ELEM_NAN /\ lds = FALSE
  /\ curCost = ELEM_NAN /\ rootValue = ELEM_NAN /\ solved = FALSE

RunSLS ==
  /\ stage = "sls"
  /\ \E c \in {ELEM_NAN, SomeSolution} : curCost' = Reported(c)
  /\ stage' = "ordering"
  /\ UNCHANGED <<problem, primal, workVars, best, orSearch, loopVars, bucketVars,
                 optimum, initialBound, lds, rootValue, solved>>

ReachesUB(v) == ~ISNAN(v) /\ ~ISNAN(globalUB) /\ ~Greater(globalUB, v)

(* The end of compileHeuristic: the bound given by the user enters the     *)
(* root, and the search may turn out to be unnecessary.  An accurate       *)
(* heuristic leaves the work to LDS with limit 0.  The options are chosen  *)
(* where they are first read.                                              *)
UserBounds ==
  {ELEM_NAN} \cup (IF optimum = ELEM_ZERO THEN {} ELSE {optimum - g : g \in BoundGaps})

RunsLDSOnRequest(given) == given     \* and the main search is skipped all the same

RunsLDS(given) == given \/ (IsAccurate /\ ~ReachesUB(rootValue'))

CompileHeuristic ==
  /\ stage = "built"
  /\ initialBound' \in UserBounds
  /\ rootValue' = LoadedAtRoot(initialBound')
  /\ solved' = (ReachesUB(rootValue') \/ IsAccurate)
  /\ \E given \in LdsModes : lds' = RunsLDS(given)
  /\ stage' = "lds"
  /\ UNCHANGED <<problem, primal, workVars, best, orSearch, loopVars, bucketVars,
                 optimum, curCost>>

(* LDS starts from the cost in the problem; the test for an optimal        *)
(* solution that follows reads the value of the main search.               *)
LdsResults == IF IsAccurate THEN {optimum} ELSE {optimum, SomeSolution}

RunLDS ==
  /\ stage = "lds"
  /\ IF lds THEN /\ \E c \in LdsResults : curCost' = Reported(c)
                 /\ solved' = (solved \/ ReachesUB(rootValue))
     ELSE UNCHANGED <<curCost, solved>>
  /\ stage' = "finish"
  /\ UNCHANGED <<problem, primal, workVars, best, orSearch, loopVars, bucketVars,
                 optimum, initialBound, lds, rootValue>>

FinishPreproc ==
  /\ stage = "finish"
  /\ rootValue' = LoadedAtRoot(curCost)
  /\ stage' = "search"
  /\ UNCHANGED <<problem, primal, workVars, best, orSearch, loopVars, bucketVars,
                 optimum, initialBound, lds, curCost, solved>>

(* The search reports only what is better than the value at its root. *)
RunSearch ==
  /\ stage = "search"
  /\ IF solved THEN UNCHANGED <<curCost, rootValue>>
     ELSE /\ rootValue' = LoadedAtRoot(optimum)
          /\ curCost' = IF rootValue' # rootValue THEN Reported(optimum) ELSE curCost
  /\ stage' = "done"
  /\ UNCHANGED <<problem, primal, workVars, best, orSearch, loopVars, bucketVars,
                 optimum, initialBound, lds, solved>>

Next ==
  \/ (Ordering /\ UNCHANGED <<bucketVars, mainVars>>)
  \/ (Buckets /\ UNCHANGED mainVars)
  \/ RunSLS \/ CompileHeuristic \/ RunLDS \/ FinishPreproc \/ RunSearch

Spec     == Init /\ [][Next]_vars
FairSpec == Spec /\ WF_vars(Next)

-----------------------------------------------------------------------------
(* Properties *)

(* Unless the user's bound already reaches the optimum, the cost that is   *)
(* printed at the end is the optimum, whichever stages were skipped        *)
(* because the problem was thought to be solved (Main.cpp:829-838,         *)
(* 891-895, daoopt_solver.cpp:355-385).                                    *)
OutputsOptimum ==
  stage = "done" /\ (ISNAN(initialBound) \/ Greater(optimum, initialBound)) =>
    curCost = optimum

(* The loop over orders, which an improvement may prolong, and everything  *)
(* after it come to an end (Main.cpp:270-332).                             *)
Terminates == <>(stage = "done")
=============================================================================
