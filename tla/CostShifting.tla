---------------------------- MODULE CostShifting ----------------------------
(***************************************************************************)
(* The dynamic cost-shifting heuristic: FGLP, its prioritised variant      *)
(* PriorityFGLP, and FGLPHeuristic, which gives every OR node of the       *)
(* search a copy of the store of its parent OR node, conditioned on the    *)
(* value in between and tightened further.                                 *)
(*                                                                         *)
(* A store depends on the stores above it alone, so a behaviour follows    *)
(* one path of the search space: the store of the whole problem, then that *)
(* of the artificial root, then that of one child after the other.         *)
(***************************************************************************)
EXTENDS Factors

CONSTANTS
  Vars,        \* 0 .. N-1, all but the artificial root variable
  Dummy,       \* the artificial root variable, N
  NoVar,       \* condition_var of the artificial root, -1
  Instances,   \* records [functions, tree, chain]: the parents of the variables
               \* in the pseudo tree of an AND/OR and of an OR search
  Settings,    \* records of options, see below
  Tolerance    \* the options mplpt and ndfglpt

ASSUME ShiftingAssumption ==
  /\ Vars = 0 .. Dummy - 1 /\ Dummy \in Nat \ {0} /\ NoVar = -1
  /\ Tolerance \in Nat
  /\ Settings \subseteq [orSearch : BOOLEAN, nullary : BOOLEAN, timed : BOOLEAN,
                         schedule : {"sweep", "cyclic", "priority"},
                         rootIters : Nat, nodeIters : Nat]

VARIABLES
  problem, settings,
  phase,        \* "start", "run", "ran", "built" or "evaluated"
  node,         \* the variable of the OR node, NoVar in the store of the problem
  path,         \* the assignment of its ancestors
  origCost,     \* the labels along that path: m_origCostToNode
  factors,      \* factors_ but the nullary one
  constant,     \* the nullary one: global_const_factor_
  conditioned,  \* conditioned_cost_
  contribs,     \* bound_contribs_
  reversal,     \* use_cost_shift_reversal_
  totalShift,   \* total_shift_
  ub,           \* ub_
  iter, next,   \* the counters of Run's loops
  settled,      \* the last sweep changed the bound by less than the tolerance
  priority,     \* var_priority_, a function on the variables it holds
  out           \* the heuristic of every value of the node

store   == <<factors, constant, conditioned, contribs, reversal, totalShift>>
running == <<iter, next, settled, priority>>
vars    == <<problem, settings, phase, node, path, origCost, store, ub, running, out>>

Infinity == 2147483647     \* numeric_limits<double>::max(), and inf as a distance

-----------------------------------------------------------------------------
(* The pseudo tree. *)

Parent(x) == IF settings.orSearch THEN problem.chain[x] ELSE problem.tree[x]
Ancestors(x) ==
  LET up[y \in Vars \cup {Dummy}] == IF y = Dummy THEN {} ELSE {Parent(y)} \cup up[Parent(y)]
  IN  up[x]

(* m_subproblemVars: the variable itself is in, but for the artificial root *)
SubproblemVars(x) == {y \in Vars : x = y \/ x \in Ancestors(y)}
Below(x) == SubproblemVars(x) \ {x}

FunctionsOf(x) ==
  SelectSeq(problem.functions, LAMBDA f :
    IF x = Dummy THEN f.scope = {}
    ELSE x \in f.scope /\ f.scope \subseteq Ancestors(x) \cup {x})

LabelOf(x, a) == ProductOf(FunctionsOf(x), a)

ValuesOf(x) == IF x = Dummy THEN {0} ELSE Values
Assigned(x, a) == IF x = Dummy THEN path ELSE path @@ (x :> a)

-----------------------------------------------------------------------------
(* One update of a variable: every factor that mentions it is shifted from *)
(* its own max-marginal to the average of all.                             *)

Mentioning(v) == {i \in DOMAIN factors : v \in factors[i].scope}

MaxWhere(f, v, a) == largest[{f.val[t] : t \in {u \in DOMAIN f.val : u[v] = a}}]
MaxMarginal(f, v) == Tabulated([a \in Values |-> MaxWhere(f, v, a)])
MaxOf(f)          == largest[{f.val[t] : t \in DOMAIN f.val}]

LargestMarginal(marginals) ==
  [a \in Values |-> Maximum([i \in DOMAIN marginals |-> marginals[i][a]])]

AverageMarginal(marginals) ==
  [a \in Values |-> Root(Product([i \in DOMAIN marginals |-> marginals[i][a]]),
                         Cardinality(DOMAIN marginals))]

(* The best average goes into the nullary factor, as an option.  If all    *)
(* are infeasible it is -DBL_MAX, and what is left -infinity.              *)
NullaryShift(avg) == IF settings.nullary THEN largest[{avg[a] : a \in Values}] ELSE ELEM_ONE
Lowered(avg) ==
  IF NullaryShift(avg) = ELEM_ZERO THEN avg
  ELSE [a \in Values |-> Minus(avg[a], NullaryShift(avg))]

Power(c, n) == IF c = ELEM_ZERO THEN ELEM_ZERO ELSE n * c

Reparameterize(f, v, mm, avg) ==
  [f EXCEPT !.val = [t \in DOMAIN f.val |->
     IF avg[t[v]] = ELEM_ZERO THEN ELEM_ZERO
     ELSE Times(f.val[t], Minus(avg[t[v]], mm[t[v]]))]]

RecordedShift(v, marginals, avg) ==
  [id \in DOMAIN totalShift |->
     LET i == {j \in DOMAIN marginals : factors[j].id = id}
     IN  IF i = {} THEN totalShift[id]
         ELSE [totalShift[id] EXCEPT ![v] =
                 [a \in Values |-> Times(@[a], Minus(avg[a], marginals[CHOOSE j \in i : TRUE][a]))]]]

(* PriorityFGLP: how much the update has changed a factor. *)
Distance(c, d) ==
  CASE c = d                 -> 0
    [] c \notin Finite       -> Infinity
    [] d \notin Finite       -> Infinity
    [] OTHER                 -> IF c > d THEN c - d ELSE d - c
MessageDist(mm, avg) ==
  LET d == [a \in Values |-> Distance(mm[a], avg[a])]
  IN  IF \E a \in Values : d[a] = Infinity THEN Infinity
      ELSE MapThenFoldSet(LAMBDA m, n : m + n, 0, LAMBDA a : d[a],
                          LAMBDA s : CHOOSE a \in s : TRUE, Values)

\* -1 in the code, whose absolute value is beyond any tolerance
NotQueued == -Infinity
OldPriority(w) == IF w \in DOMAIN priority THEN priority[w] ELSE NotQueued

Reprioritised(v, marginals, avg, queued) ==
  LET touched(w) == {i \in DOMAIN marginals : w \in factors[i].scope \ {v}}
      changed    == {w \in Vars : touched(w) # {}}
  IN  [w \in queued \cup changed |->
         Max({OldPriority(w)} \cup {MessageDist(marginals[i], avg) : i \in touched(w)})]

UpdateVariable(v, queued) ==
  IF Mentioning(v) = {}
  THEN /\ priority' = [w \in queued |-> priority[w]]
       /\ UNCHANGED store
  ELSE \E marginals \in {[i \in Mentioning(v) |-> MaxMarginal(factors[i], v)]} :
       \E average \in {Tabulated(AverageMarginal(marginals))} :
       \E avg \in {Tabulated(Lowered(average))} :
       \E total \in {Power(NullaryShift(average), Cardinality(Mentioning(v)))} :
         /\ factors' = [i \in DOMAIN factors |->
               IF i \in Mentioning(v) THEN Reparameterize(factors[i], v, marginals[i], avg)
               ELSE factors[i]]
         /\ constant' = Times(constant, total)
         /\ contribs' = [contribs EXCEPT ![v] = Times(@, total)]
         /\ totalShift' = IF reversal THEN RecordedShift(v, marginals, avg) ELSE totalShift
         /\ priority' = IF settings.schedule = "sweep" THEN priority
                        ELSE Reprioritised(v, marginals, average, queued)
         /\ UNCHANGED <<conditioned, reversal>>

TotalBound == Times(constant, Product([i \in DOMAIN factors |-> MaxOf(factors[i])]))
UpdateUB   == IF settings.nullary THEN constant ELSE TotalBound

-----------------------------------------------------------------------------
(* Run: sweeps over all variables, or one update after the other.          *)

Sweeping  == settings.schedule = "sweep"
NumVars   == Dummy + 1
Steps     == IF Sweeping THEN 1 ELSE IF node = NoVar THEN NumVars ELSE Cardinality(SubproblemVars(node))
MaxIters  == Steps * (IF node = NoVar THEN settings.rootIters ELSE settings.nodeIters)

StartRun ==
  /\ phase = "start"
  /\ phase' = "run"
  /\ ub' = UpdateUB
  /\ iter' = 0 /\ next' = 0 /\ settled' = FALSE
  /\ priority' = IF ~Sweeping /\ DOMAIN priority = {} THEN [v \in Vars \cup {Dummy} |-> Infinity]
                 ELSE priority
  /\ UNCHANGED <<problem, settings, node, path, origCost, store, out>>

SweepVariable ==
  /\ phase = "run" /\ Sweeping
  /\ iter < MaxIters /\ ~settled /\ next \in Vars
  /\ UpdateVariable(next, DOMAIN priority)
  /\ next' = next + 1
  /\ UNCHANGED <<problem, settings, phase, node, path, origCost, ub, iter, settled, out>>

FinishSweep ==
  /\ phase = "run" /\ Sweeping /\ next = Dummy
  /\ ub' = UpdateUB
  /\ LET diff == Minus(UpdateUB, ub)
     IN  settled' = (diff = ELEM_NAN \/ Distance(diff, 0) < Tolerance)
  /\ iter' = iter + 1 /\ next' = 0
  /\ UNCHANGED <<problem, settings, phase, node, path, origCost, store, priority, out>>

(* With a time limit of up to five seconds PriorityFGLP takes the variable *)
(* with the highest priority off the queue; without one it goes round.     *)
UpdateNext ==
  /\ phase = "run" /\ settings.schedule = "cyclic"
  /\ iter < MaxIters /\ DOMAIN priority # {}
  /\ UpdateVariable(iter % NumVars, DOMAIN priority)
  /\ iter' = iter + 1
  /\ UNCHANGED <<problem, settings, phase, node, path, origCost, ub, next, settled, out>>

OnTop(v) == v \in DOMAIN priority /\ \A w \in DOMAIN priority : priority[w] <= priority[v]
Within(v) == priority[v] <= Tolerance /\ -priority[v] <= Tolerance

UpdateUrgent(v) ==
  /\ phase = "run" /\ settings.schedule = "priority"
  /\ iter < MaxIters /\ OnTop(v) /\ ~Within(v)
  /\ UpdateVariable(v, DOMAIN priority \ {v})
  /\ iter' = iter + 1
  /\ UNCHANGED <<problem, settings, phase, node, path, origCost, ub, next, settled, out>>

Exhausted ==
  CASE Sweeping                       -> next = 0 /\ (settled \/ iter >= MaxIters)
    [] settings.schedule = "cyclic"   -> iter >= MaxIters \/ DOMAIN priority = {}
    [] settings.schedule = "priority" -> iter >= MaxIters \/ ~\E v \in Vars \cup {Dummy} :
                                                                OnTop(v) /\ ~Within(v)

(* The time limit ends the loops before any update. *)
FinishRun ==
  /\ phase = "run"
  /\ (Exhausted \/ (settings.timed /\ next # Dummy)) = TRUE
  /\ phase' = "ran"
  /\ ub' = UpdateUB
  /\ UNCHANGED <<problem, settings, node, path, origCost, store, running, out>>

-----------------------------------------------------------------------------
(* FGLPHeuristic: the store of a node is that of its parent, conditioned.  *)

Substituted(f, c, a) ==
  IF c \notin f.scope THEN f
  ELSE [id |-> f.id, scope |-> f.scope \ {c},
        val |-> [t \in Assignments(f.scope \ {c}) |->
                   LET old == f.val[t @@ (c :> a)]
                   IN  IF reversal THEN Minus(old, totalShift[f.id][c][a]) ELSE old]]

Kept(x, c) ==
  SelectSeq(factors, LAMBDA f : f.scope \cap SubproblemVars(x) # {} \/ f.scope = {c})

ContributionsOfAll(x) == Product([v \in Vars |-> contribs[v]])

Contributions(x) == Product([v \in SubproblemVars(x) |-> contribs[v]])

Condition(x, c, a) ==
  \E known \in {IF c \in Vars /\ ~reversal THEN Times(conditioned, contribs[c]) ELSE conditioned} :
  \E remaining \in {LET kept == Kept(x, c)
                    IN  [i \in DOMAIN kept |-> Substituted(kept[i], c, a)]} :
  \E nullary \in {ProductOf(SelectSeq(remaining, LAMBDA f : f.scope = {}), <<>>)} :
    /\ factors' = SelectSeq(remaining, LAMBDA f : f.scope # {})
    /\ constant' = Times(Times(known, Contributions(x)), nullary)
    /\ conditioned' = Times(known, nullary)
    /\ UNCHANGED <<contribs, totalShift>>
    /\ priority' = IF Sweeping THEN priority
                   ELSE [v \in SubproblemVars(x) |->
                           IF \E i \in DOMAIN factors' : v \in factors'[i].scope THEN Infinity
                           ELSE OldPriority(v)]

(* The end of build: the shifts are recorded from now on, in AND/OR search *)
FinishBuild ==
  /\ phase = "ran" /\ node = NoVar
  /\ phase' = "built"
  /\ reversal' = ~settings.orSearch
  /\ UNCHANGED <<problem, settings, node, path, origCost, factors, constant, conditioned,
                 contribs, totalShift, ub, running, out>>

VisitRoot ==
  /\ phase = "built"
  /\ phase' = "start" /\ node' = Dummy
  /\ Condition(Dummy, NoVar, 0)
  /\ UNCHANGED <<problem, settings, path, origCost, reversal, ub, iter, next, settled, out>>

(* Only values that may lead to a solution are expanded. *)
VisitChild(x, a) ==
  /\ phase = "evaluated" /\ Parent(x) = node /\ a \in ValuesOf(node)
  /\ Times(LabelOf(node, Assigned(node, a)), out[a]) # ELEM_ZERO
  /\ phase' = "start" /\ node' = x
  /\ path' = Assigned(node, a)
  /\ origCost' = Times(origCost, LabelOf(node, Assigned(node, a)))
  /\ Condition(x, node, a)
  /\ out' = <<>> /\ ub' = ELEM_ONE
  /\ UNCHANGED <<problem, settings, reversal, iter, next, settled>>

VarUB(x, a) ==
  Times(constant, Product([i \in DOMAIN factors |->
    IF x \in factors[i].scope THEN MaxWhere(factors[i], x, a) ELSE MaxOf(factors[i])]))

AdjustedByPath(bound, x, a) ==      \* the label of the value is not taken out
  IF origCost # ELEM_ONE /\ bound \in Finite THEN Minus(bound, origCost) ELSE bound

(* AdjustHeurAll: what is below the node remains. *)
Adjusted(bound, x, a) ==
  LET cost == Times(origCost, LabelOf(x, Assigned(x, a)))
  IN  IF cost # ELEM_ONE /\ bound \in Finite THEN Minus(bound, cost) ELSE bound

Evaluate ==
  /\ phase = "ran" /\ node # NoVar
  /\ phase' = "evaluated"
  /\ out' = [a \in ValuesOf(node) |-> Adjusted(VarUB(node, a), node, a)]
  /\ UNCHANGED <<problem, settings, node, path, origCost, store, ub, running>>

GlobalConst == LabelOf(Dummy, <<>>)

Init ==
  /\ problem \in Instances /\ settings \in Settings
  /\ phase = "start" /\ node = NoVar /\ path = <<>> /\ origCost = ELEM_ONE
  /\ factors = SelectSeq(problem.functions, LAMBDA f : f.scope # {})
  /\ constant = GlobalConst /\ conditioned = GlobalConst
  /\ contribs = [v \in Vars |-> ELEM_ONE]
  /\ totalShift = [i \in DOMAIN problem.functions |->
                     [v \in problem.functions[i].scope |-> [a \in Values |-> ELEM_ONE]]]
  /\ reversal = FALSE
  /\ ub = ELEM_ONE /\ iter = 0 /\ next = 0 /\ settled = FALSE /\ priority = <<>>
  /\ out = <<>>

Next ==
  \/ StartRun \/ SweepVariable \/ FinishSweep \/ UpdateNext
  \/ (\E v \in Vars \cup {Dummy} : UpdateUrgent(v))
  \/ FinishRun \/ FinishBuild \/ VisitRoot \/ Evaluate
  \/ (\E x \in Vars, a \in Values : VisitChild(x, a))

Spec == Init /\ [][Next]_vars

-----------------------------------------------------------------------------
(* Properties *)

Open == IF node = NoVar THEN Vars ELSE SubproblemVars(node)

(* The functions a store answers for: those assigned along the path and    *)
(* those that mention a variable below.                                    *)
Concerned ==
  SelectSeq(problem.functions, LAMBDA f : f.scope \subseteq DOMAIN path \/ f.scope \cap Open # {})

(* However often costs were shifted, by whom and in which order, a store   *)
(* gives every completion of its path the cost that the functions of the   *)
(* problem give it: shifts into factors that other branches own are taken  *)
(* back when the variable they came from is assigned (FGLP.cpp:169-183,    *)
(* 227-294).                                                               *)
SameProblem ==
  \A s \in Assignments(Open) :
    Times(constant, ProductOf(factors, s)) = ProductOf(Concerned, path @@ s)

BestBelow(x, a) ==
  BestOver(SelectSeq(problem.functions, LAMBDA f : f.scope \cap Below(x) # {}), a, Below(x))

(* The heuristic never underestimates what is below a value of a node,     *)
(* although the store mixes the costs above the node with those below, and *)
(* the global bound is one as soon as the nullary factor alone can be      *)
(* (FGLP.h:27-32, FGLPHeuristic.cpp:223-270).                              *)
Admissible ==
  /\ phase = "evaluated" => \A a \in ValuesOf(node) :
       /\ ~ISNAN(out[a])
       /\ LET full == Assigned(node, a)
          IN  ~Greater(Times(LabelOf(node, full), BestBelow(node, full)),
                       Times(LabelOf(node, full), out[a]))
  /\ phase = "built" /\ (settings.nullary => \A i \in DOMAIN factors : ~Greater(MaxOf(factors[i]), 0)) =>
       ~Greater(BestOver(problem.functions, <<>>, Vars), ub)

(* No update in a run makes the bound worse (FGLP.cpp:110-184).            *)
BoundNeverRises == [][phase = "run" => ~Greater(TotalBound', TotalBound) \/ phase' = "start"]_vars
=============================================================================
