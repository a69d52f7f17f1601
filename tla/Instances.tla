------------------------------ MODULE Instances ------------------------------
(***************************************************************************)
(* Instances for model checking: small pseudo trees, and for each a family *)
(* of problems whose labels and bounds come from a seeded mixing function, *)
(* infeasible values and loose or exact bounds included.                   *)
(***************************************************************************)
EXTENDS AOModel

CONSTANTS r, A, B, C, D, E, F,   \* the variables
          Seeds,     \* how many problems
          MaxLabel,  \* how far the finite labels are apart
          LabelShift,  \* how far they begin below zero
          MaxSlack   \* how far the bound of one variable may be off

\* A chain: B depends on A, C on A and B, D on A and C, E on D.
ChainVars == {r, A, B, C, D, E}
ChainPt   == [x \in ChainVars |->
  CASE x = r -> <<A>> [] x = A -> <<B>> [] x = B -> <<C>>
    [] x = C -> <<D>> [] x = D -> <<E>> [] x = E -> <<>>]
ChainCtx  == [x \in ChainVars |->
  CASE x \in {r, A} -> {} [] x = B -> {A} [] x = C -> {A, B}
    [] x = D -> {A, C} [] x = E -> {D}]

\* Two levels of decomposition: A splits into B and C, B into D and E.
SplitVars == {r, A, B, C, D, E}
SplitPt   == [x \in SplitVars |->
  CASE x = r -> <<A>> [] x = A -> <<B, C>> [] x = B -> <<D, E>> [] OTHER -> <<>>]
SplitCtx  == [x \in SplitVars |->
  CASE x \in {r, A} -> {} [] x \in {B, C} -> {A} [] x \in {D, E} -> {B}]

\* A chain that forks twice: F below A, and D and E below C, with contexts
\* that an adaptive cache has to cut.
ForkVars == {r, A, B, C, D, E, F}
ForkPt   == [x \in ForkVars |->
  CASE x = r -> <<A>> [] x = A -> <<B, F>> [] x = B -> <<C>> [] x = C -> <<D, E>>
    [] OTHER -> <<>>]
ForkCtx  == [x \in ForkVars |->
  CASE x \in {r, A} -> {} [] x \in {B, F} -> {A} [] x = C -> {A, B}
    [] x = D -> {A, C} [] x = E -> {B, C}]

\* The chain with a fork at C: the subproblems of D, E and F are met again
\* under other values of the variables above that they do not depend on.
GraphVars == {r, A, B, C, D, E, F}
GraphPt   == [x \in GraphVars |->
  CASE x = r -> <<A>> [] x = A -> <<B>> [] x = B -> <<C>> [] x = C -> <<D, F>>
    [] x = D -> <<E>> [] OTHER -> <<>>]
GraphCtx  == [x \in GraphVars |->
  CASE x \in {r, A} -> {} [] x = B -> {A} [] x = C -> {A, B}
    [] x = D -> {A, C} [] x = E -> {D} [] x = F -> {B, C}]

MCDom  == [x \in Vars |-> IF x = r THEN 1 ELSE 2]

-----------------------------------------------------------------------------
Index(x) == CASE x = r -> 1 [] x = A -> 2 [] x = B -> 3 [] x = C -> 4
              [] x = D -> 5 [] x = E -> 6 [] x = F -> 7

Code(c) == MapThenFoldSet(LAMBDA u, v : u + v, 0,
             LAMBDA y : (3 * c[y] + 1) * Index(y) * Index(y) * Index(y),
             LAMBDA s : CHOOSE y \in s : TRUE, DOMAIN c)

Mix(seed, x, c, salt) ==
  LET h == (seed * 7919 + Index(x) * 613 + Code(c) * 353 + salt * 1009) % 9973
  IN  ((h * h) % 9973) \div 7

\* A label: infeasible now and then, else from -LabelShift on.  The root
\* is artificial and carries the global constant, which is feasible.
SeedLabel(seed, x, c) ==
  LET m == Mix(seed, x, c, 1)
  IN  IF m % 9 = 0 /\ x # r THEN ELEM_ZERO ELSE (m % (MaxLabel + 1)) - LabelShift

\* TLC keeps a function it has compared as a table, and else evaluates it anew
\* at every application.
Tabulated(f) == CHOOSE g \in {f} : g = g

\* Variable elimination from the leaves, with or without slack in the result.
Eliminated(label, slack(_, _)) ==
  LET table[x \in Vars] ==
        LET below == Tabulated([y \in ChildSet(x) |-> table[y]])
        IN  Tabulated([c \in Assignments(Ctx[x]) |->
              Times(slack(x, c),
                Maximum([v \in Values(x) |->
                  LET a == With(x, c, v)
                  IN  Times(label[x][a],
                        Product([y \in ChildSet(x) |-> below[y][Restriction(a, Ctx[y])]]))]))])
  IN  [x \in Vars |-> table[x]]

SeedTables(seed) ==
  LET label == Tabulated([x \in Vars |->
                 [c \in Assignments(Ctx[x] \cup {x}) |-> SeedLabel(seed, x, c)]])
      opt   == Eliminated(label, LAMBDA x, c : ELEM_ONE)
      bound == Eliminated(label,
                 LAMBDA x, c : Mix(seed, x, c, 2) % (1 + MaxSlack * (seed % 3)))
      best  == opt[Root][CHOOSE c \in Assignments({}) : TRUE]
  IN  [label |-> label, opt |-> opt, bound |-> bound,
       known |-> {ELEM_NAN, ELEM_ZERO, best} \cup (IF best = ELEM_ZERO THEN {} ELSE {best - 1})]

MCProblems == {SeedTables(seed) : seed \in 1 .. Seeds}
=============================================================================
