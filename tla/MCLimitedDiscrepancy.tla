------------------------ MODULE MCLimitedDiscrepancy ------------------------
(* LimitedDiscrepancy on the small problems of Instances.                  *)
EXTENDS LimitedDiscrepancy, Instances

\* Three values: the ranks differ from the number of deviations.
LdsDom == [x \in Vars |-> IF x = r THEN 1 ELSE 3]
=============================================================================
