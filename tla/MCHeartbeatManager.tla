------------------------- MODULE MCHeartbeatManager -------------------------
(* HeartbeatManager for TLC.                                               *)
EXTENDS HeartbeatManager, TLC

CONSTANTS a1, a2  \* task tokens

OneToken == {a1}
TwoTokens == {a1, a2}
=============================================================================
