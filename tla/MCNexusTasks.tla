---------------------------- MODULE MCNexusTasks ----------------------------
(* NexusTasks for TLC: workers of workflow tasks with both queues and few  *)
(* slots, and of Nexus tasks whose number of polls follows the server.     *)
EXTENDS NexusTasks, TLC

Simple(s, n) == s @@ [auto |-> FALSE, min |-> 1, max |-> n, initial |-> n]
Auto(s, n) == s @@ [auto |-> TRUE, min |-> 1, max |-> n, initial |-> 1]

Both == [kind |-> "workflow", buffers |-> {"normal", "sticky"}, slots |-> 2, permits |-> 3, grace |-> FALSE]
Few == [Both EXCEPT !.permits = 2]
Nexus == [kind |-> "nexus", buffers |-> {"nexus"}, slots |-> 2, permits |-> 0, grace |-> TRUE]

MCFewPermits == {Simple([Both EXCEPT !.slots = 4, !.permits = 2], 2)}
MCSetups == {Simple(Both, 2), Simple(Few, 2), Auto(Nexus, 2), Simple([Nexus EXCEPT !.grace = FALSE], 1)}
=============================================================================
