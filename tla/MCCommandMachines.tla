------------------------- MODULE MCCommandMachines -------------------------
(* Casts for TLC: one operation that lang may cancel twice, and two that it  *)
(* may cancel once each, one of them a timer.  A child or a Nexus operation  *)
(* that waits for the request is cancelled like one that waits for the end.  *)
EXTENDS CommandMachines, TLC

Plain == {"timer", "signal", "cancelext", "upsert", "modify"} \cup Ending

MCAlone ==
    {"a" :> Append(f, 2) :
        f \in Plain \X {"TryCancel"}
             \cup {"activity", "child", "nexus"} \X (CancelTypes \ {"WaitRequested"})}

MCBesideATimer ==
    {"a" :> Append(f, 1) @@ "b" :> <<"timer", "TryCancel", 1>> :
        f \in {"timer", "signal", "upsert", "complete"} \X {"TryCancel"}
             \cup {"activity", "child", "nexus"} \X {"WaitCompleted"}
             \cup {<<"activity", "TryCancel">>, <<"nexus", "TryCancel">>}}

MCSignal == {"a" :> <<"signal", "TryCancel", 1>>}
MCAbandonedNexus == {"a" :> <<"nexus", "Abandon", 1>>}

MCCasts == MCAlone \cup MCBesideATimer
=============================================================================
