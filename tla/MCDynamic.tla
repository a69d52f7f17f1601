----------------------------- MODULE MCDynamic -----------------------------
(* DynamicMaster with three rounds of the search and two tokens; runs in    *)
(* which all goes well, in which files get lost and the user may stop the   *)
(* program, and in which everything may go wrong.                           *)
EXTENDS DynamicMaster
AllGoesWell == {{}}
SomeGoWrong == {{"file", "signal"}, FaultKinds}
=============================================================================
