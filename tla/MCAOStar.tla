------------------------------ MODULE MCAOStar ------------------------------
(* AOStar and AnytimeAOStar on the small problems of Instances.            *)
EXTENDS AnytimeAOStar, Instances
=============================================================================
