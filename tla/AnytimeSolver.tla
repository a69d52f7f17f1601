--------------------------- MODULE AnytimeSolver ---------------------------
(***************************************************************************)
(* What any of the solver's search schemes promises to its user: the cost  *)
(* it reports ("u ..." lines, getSolutionCost) never gets worse and never  *)
(* exceeds the optimum, and when the search says that it is done the cost  *)
(* is the optimum.                                                         *)
(***************************************************************************)
EXTENDS Costs

VARIABLES best, finished, optimum

Init == finished = FALSE /\ ~Greater(best, optimum)

Improve ==
  /\ ~finished
  /\ ISNAN(best) \/ Greater(best', best)
  /\ best' \in Known /\ ~Greater(best', optimum)
  /\ UNCHANGED <<finished, optimum>>

Finish ==
  /\ ~finished /\ best = optimum
  /\ finished' = TRUE
  /\ UNCHANGED <<best, optimum>>

Spec == Init /\ [][Improve \/ Finish]_<<best, finished, optimum>>
=============================================================================
