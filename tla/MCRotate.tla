------------------------------ MODULE MCRotate ------------------------------
(* BranchAndBoundRotate on the small problems of Instances.                *)
EXTENDS BranchAndBoundRotate, Instances
=============================================================================
