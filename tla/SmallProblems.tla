---------------------------- MODULE SmallProblems ----------------------------
(* Problems for model checking: functions over given scopes, with entries   *)
(* from a seeded mixing function, infeasible ones now and then, and the     *)
(* constant of the problem.                                                 *)
EXTENDS Factors

Code(a) == MapThenSumSet(LAMBDA y : (3 * a[y] + 1) * (y + 2) * (y + 2) * (y + 2), DOMAIN a)

Entry(seed, id, a) ==
  LET h == (seed * 7919 + id * 613 + Code(a) * 353) % 9973
      m == ((h * h) % 9973) \div 7
  IN  IF m % 8 = 0 THEN ELEM_ZERO ELSE 1296 * (m % 4)

Tables(scopes, seed, constant) ==
  Append(
    [i \in DOMAIN scopes |->
     [id |-> i, scope |-> scopes[i],
      val |-> [a \in [scopes[i] -> 0 .. DomainSize - 1] |-> Entry(seed, i, a)]]],
    [id |-> Len(scopes) + 1, scope |-> {}, val |-> [a \in {<<>>} |-> constant]])
=============================================================================
