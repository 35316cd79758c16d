--------------------------- MODULE MCActivityTasks ---------------------------
(* ActivityTasks for TLC.                                                  *)
EXTENDS ActivityTasks, TLC

CONSTANTS a1, a2  \* task tokens

TwoActivities == {a1, a2}

Only1 == {a1}
=============================================================================
