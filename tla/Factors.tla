------------------------------ MODULE Factors ------------------------------
(***************************************************************************)
(* Cost functions (Function.cpp) and what the heuristics compute from      *)
(* them.  A function is a record of its id, its scope and its table, which *)
(* maps the assignments of the scope to costs.  The other operand of every *)
(* division is the result of one, so that integers stand for the doubles.  *)
(***************************************************************************)
EXTENDS Costs, Sequences, SequencesExt

CONSTANT DomainSize    \* of every variable

ASSUME DomainAssumption == DomainSize \in Nat \ {0}

Values == 0 .. DomainSize - 1
Assignments(S) == [S -> Values]
Tabulated(f) == CHOOSE g \in {f} : g = g     \* see Instances

(* A family of functions is a sequence of them, or a function from names   *)
(* to them.                                                                *)
Value(f, a)     == f.val[[y \in f.scope |-> a[y]]]
ProductOf(s, a) == Product([i \in DOMAIN s |-> Value(s[i], a)])

(* What f says, and g where f says nothing.                                *)
Joined(f, g) == [x \in DOMAIN f \cup DOMAIN g |-> IF x \in DOMAIN f THEN f[x] ELSE g[x]]

(* The loops over a table compute z = max(z, new): a NaN leaves z as it is *)
largest[C \in SUBSET Cost] ==
  IF C \cap Finite = {} THEN ELEM_ZERO ELSE Max(C \cap Finite)

(* The best product of the functions in s over the ways to extend a to S. *)
Extensions(a, S)  == {Joined(a, e) : e \in Assignments(S)}
BestOver(s, a, S) == largest[{ProductOf(s, full) : full \in Extensions(a, S)}]

JointScope(s) == UNION {s[i].scope : i \in DOMAIN s}

(* The maximum of the functions in s over all their variables but keep. *)
Eliminated(s, id, keep) ==
  [id    |-> id,
   scope |-> keep,
   val   |-> Tabulated([a \in Assignments(keep) |-> BestOver(s, a, JointScope(s) \ keep)])]

(* a OP_DIVIDE b and the n-th root, in log space. *)
Minus(a, b) ==
  CASE a \in Finite /\ b \in Finite -> a - b
    [] a = ELEM_ZERO /\ b \in Finite -> ELEM_ZERO
    [] OTHER                         -> ELEM_NAN
Root(a, n) == IF a \in Finite THEN a \div n ELSE a
=============================================================================
