-------------------------- MODULE MCBranchAndBound --------------------------
(* BranchAndBound on the small problems of Instances.                      *)
EXTENDS BranchAndBound, Instances
=============================================================================
