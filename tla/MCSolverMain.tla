---------------------------- MODULE MCSolverMain ----------------------------
(* SolverMain on a cycle, two triangles that share a node, a graph whose   *)
(* orders differ in width, and functions of three arguments next to a      *)
(* variable that has no other.                                             *)
EXTENDS SolverMain, SmallProblems

CONSTANTS Seeds, Constants

MCConstants == {0, -1296}

Shapes == <<
  {{0, 1}, {1, 2}, {2, 3}, {3, 4}, {0, 4}},
  {{0, 1}, {1, 2}, {0, 2}, {2, 3}, {3, 4}, {2, 4}},
  {{0, 2}, {0, 3}, {0, 4}, {1, 2}, {1, 3}, {1, 4}},
  {{0, 1, 2}, {0, 3}, {0, 4}, {2, 3, 4}, {5}} >>

MCInstances ==
  {[functions |-> Tables(SetToSeq(Shapes[i]), seed, c)] :
     i \in DOMAIN Shapes, seed \in 1 .. Seeds, c \in Constants}
=============================================================================
