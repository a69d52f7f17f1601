---------------------------- MODULE MCLookahead ----------------------------
(* Lookahead on a cycle, and on two triangles with a common edge, whose     *)
(* pseudo tree has two branches.                                           *)
EXTENDS Lookahead, SmallProblems

CONSTANT Seeds

Shapes == <<
  << {0, 1}, {1, 2}, {2, 3}, {0, 3} >>,
  << {0, 2}, {1, 2}, {0, 3}, {1, 3}, {2, 3} >> >>

MCInstances ==
  {[functions |-> Tables(Shapes[i], seed, 0)] : i \in DOMAIN Shapes, seed \in 1 .. Seeds}
=============================================================================
