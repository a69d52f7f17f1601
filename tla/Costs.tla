------------------------------- MODULE Costs -------------------------------
(***************************************************************************)
(* The cost algebra the solver computes in (_base.h).  The build uses      *)
(* USE_LOG: OP_TIMES is addition, ELEM_ONE is 0, ELEM_ZERO is -infinity    *)
(* and ELEM_NAN marks a value that is not known yet.  A finite cost is an  *)
(* integer here; the two special values are model values, and the          *)
(* operators below follow what IEEE arithmetic does with them.             *)
(***************************************************************************)
EXTENDS Integers, FiniteSets, Folds

CONSTANTS ELEM_ZERO, ELEM_NAN

ASSUME SpecialCosts == ELEM_ZERO # ELEM_NAN /\ {ELEM_ZERO, ELEM_NAN} \cap Int = {}

ELEM_ONE == 0

Finite == Int
Known  == Int \cup {ELEM_ZERO}          \* every cost but NaN
Cost   == Known \cup {ELEM_NAN}

ISNAN(c) == c = ELEM_NAN

(* The operators are functions on costs: TLC evaluates the arguments of a  *)
(* function once, those of an operator at every use.                       *)

(* a OP_TIMES b: NaN and then -infinity are absorbing. *)
times == [a \in Cost |-> [b \in Cost |->
  IF ELEM_NAN \in {a, b} THEN ELEM_NAN
  ELSE IF ELEM_ZERO \in {a, b} THEN ELEM_ZERO
  ELSE a + b]]
Times(a, b) == times[a][b]

(* a > b: false as soon as one side is NaN. *)
greater == [a \in Cost |-> [b \in Cost |->
  /\ ELEM_NAN \notin {a, b} /\ a # ELEM_ZERO
  /\ b = ELEM_ZERO \/ a > b]]
Greater(a, b) == greater[a][b]

(* a - b <= 0.0: false for NaN, and (-inf) - (-inf) is NaN as well. *)
gapClosed == [a \in Cost |-> [b \in Cost |->
  /\ ELEM_NAN \notin {a, b} /\ b # ELEM_ZERO
  /\ a = ELEM_ZERO \/ a <= b]]
GapClosed(a, b) == gapClosed[a][b]

larger == [a \in Cost |-> [b \in Cost |-> IF Greater(b, a) THEN b ELSE a]]
Larger(a, b) == larger[a][b]

(* The product and the maximum of the values of a function on a finite set. *)
Product(f) ==
  MapThenFoldSet(Times, ELEM_ONE, LAMBDA x : f[x], LAMBDA s : CHOOSE x \in s : TRUE, DOMAIN f)

Maximum(f) ==
  MapThenFoldSet(Larger, ELEM_ZERO, LAMBDA x : f[x], LAMBDA s : CHOOSE x \in s : TRUE, DOMAIN f)
=============================================================================
