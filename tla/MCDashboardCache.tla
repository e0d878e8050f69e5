--------------------------- MODULE MCDashboardCache ---------------------------
(* Two loads in flight at once; the custom ranges of one reading.               *)
EXTENDS DashboardCache, TLC

CONSTANTS l1, l2

Loads == Permutations({l1, l2})
First == {1}
Second == {2}
==============================================================================
