----------------------------- MODULE NexusTasks -----------------------------
(***************************************************************************)
(* worker/nexus.rs on top of TaskPollers: NexusManager hands the tasks of  *)
(* the stream to lang with the cancels of timeouts and of the end of the   *)
(* grace period, takes completions, and ends when nothing is outstanding.  *)
(* For a worker of workflow tasks the module adds nothing: these are       *)
(* handled by WorkflowRuns.                                                *)
(***************************************************************************)
EXTENDS TaskPollers

CONSTANTS Tokens,    \* task tokens, used again when nothing refers to them
          Timed,     \* those of tasks with a Request-Timeout
          MayPreempt \* whether a completion may come between two steps of the stream's end

ASSUME TokensAssumption == Timed \subseteq Tokens /\ MayPreempt \in BOOLEAN

VARIABLES
    map,      \* outstanding_task_map
    sending,  \* tasks whose answer is on its way to the server
    timers,   \* timeout tasks that run
    cancels,  \* cancels channel
    ending,   \* the future that take_until waits for
    grace,    \* its grace_killer
    told,     \* outstanding tasks that lang has been told to cancel
    ended     \* poll_returned_shutdown_token

manager == <<map, sending, timers, cancels, ending, grace, told, ended>>
vars == <<pollers, manager>>

Init ==
    /\ PollersInit
    /\ map = {} /\ sending = {} /\ timers = {} /\ cancels = <<>>
    /\ ending = "not yet" /\ grace = "off" /\ told = {} /\ ended = FALSE

(* The stream gives cancels first, and nothing once its end has come. *)
Streaming == ending # "over"
Fresh == Tokens \ (map \cup sending \cup timers \cup told \cup ToSet(cancels))

NextTask(tt) ==
    /\ setup.kind = "nexus" /\ Streaming /\ cancels = <<>> /\ tt \in Fresh
    /\ \E b \in Buffers : TakeTask(b)
    /\ map' = map \cup {tt}
    /\ timers' = timers \cup ({tt} \cap Timed)
    /\ UNCHANGED <<out, sending, cancels, ending, grace, told, ended>>

NextCancel ==
    /\ Streaming /\ cancels # <<>>
    /\ cancels' = Tail(cancels)
    /\ told' = told \cup ({Head(cancels)} \cap map)
    /\ UNCHANGED <<pollers, map, sending, timers, ending, grace, ended>>

TimesOut(tt) ==
    /\ tt \in timers /\ timers' = timers \ {tt}
    /\ cancels' = Append(cancels, tt)
    /\ UNCHANGED <<pollers, map, sending, ending, grace, told, ended>>

(* SourceComplete *)
SourceDone ==
    /\ setup.kind = "nexus" /\ stream = "over" /\ ending = "not yet" /\ cancels = <<>>
    /\ ending' = "check" /\ grace' = IF setup.grace THEN "sleeping" ELSE "off"
    /\ UNCHANGED <<pollers, map, sending, timers, cancels, told, ended>>

EndingChecks ==
    /\ ending = "check"
    /\ ending' = CASE map = {} -> "over" [] MayPreempt -> "register" [] OTHER -> "waits"
    /\ grace' = IF map = {} THEN "off" ELSE grace
    /\ UNCHANGED <<pollers, map, sending, timers, cancels, told, ended>>

EndingRegisters ==
    /\ ending = "register" /\ ending' = "waits"
    /\ UNCHANGED <<pollers, map, sending, timers, cancels, grace, told, ended>>

GraceEnds ==
    /\ grace = "sleeping" /\ grace' = "fired"
    /\ cancels' = cancels \o SetToSeq(map)
    /\ UNCHANGED <<pollers, map, sending, timers, ending, told, ended>>

PollShutDown ==
    /\ ending = "over" /\ ~ended /\ ended' = TRUE
    /\ UNCHANGED <<pollers, map, sending, timers, cancels, ending, grace, told>>
-----------------------------------------------------------------------------
Removed(tt) == map' = map \ {tt} /\ timers' = timers \ {tt} /\ told' = told \ {tt}

(* complete_task: the answer is sent with the entry already gone. *)
Complete(tt) ==
    /\ tt \in map /\ Removed(tt)
    /\ sending' = sending \cup {tt}
    /\ UNCHANGED <<pollers, cancels, ending, grace, ended>>

(* An answer that does not fit the request is refused: nobody is notified. *)
CompleteMalformed(tt) ==
    /\ tt \in map /\ Removed(tt)
    /\ free' = free + 1
    /\ past' = [past EXCEPT !.missed = @ \/ (map' = {} /\ ending \in {"register", "waits"})]
    /\ UNCHANGED <<setup, buf, backlog, shutdown, stream, out, sending, cancels, ending, grace, ended>>

\* Mutant: a completion does not notify.
Mut_Notified == ending

(* notify_waiters reaches only those that wait. *)
Notified == IF ending = "waits" THEN "check" ELSE ending

(* The answer has arrived or failed, or there was none to send (AckCancel). *)
CompleteReturns(tt) ==
    /\ tt \in sending /\ sending' = sending \ {tt}
    /\ free' = free + 1
    /\ ending' = Notified
    /\ past' = [past EXCEPT !.missed = @ \/ (map = {} /\ ending = "register")]
    /\ UNCHANGED <<setup, buf, backlog, shutdown, stream, out, map, timers, cancels, grace, told, ended>>
-----------------------------------------------------------------------------
Workflow(b) == (BufferStep(b) \/ TakeWorkflowTask(b)) /\ UNCHANGED manager
ManagerStep == NextCancel \/ SourceDone \/ EndingChecks \/ EndingRegisters \/ GraceEnds \/ PollShutDown

(* Where a worker stops: with everything done, or waiting for a wake-up (see ShutdownEnds). *)
Stopped ==
    /\ stream = "over" /\ out = 0 /\ map = {} /\ sending = {} /\ timers = {}
    /\ setup.kind = "workflow" \/ ended \/ ending = "waits"
    /\ UNCHANGED vars

Next ==
    \/ \E b \in Buffers : Workflow(b)
    \/ (StreamStep \/ WorkflowTaskDone) /\ UNCHANGED manager
    \/ ManagerStep
    \/ \E tt \in Tokens : NextTask(tt) \/ TimesOut(tt) \/ Complete(tt) \/ CompleteMalformed(tt) \/ CompleteReturns(tt)
    \/ Stopped

Spec == Init /\ [][Next]_vars
-----------------------------------------------------------------------------
(***************************************************************************)
(* Tokio runs every task that can go on, its semaphore serves waiters in   *)
(* the order they came, long polls end, lang polls and completes what it   *)
(* was given.  The watch behind the wait for a permit keeps no order: a    *)
(* loop may find the permit gone each time it looks.                       *)
(***************************************************************************)
LoopGoesOn(b) ==
    LoopStarts(b) \/ LoopTop(b) \/ LoopDelay(b) \/ LoopPermit(b) \/ LoopAllow(b) \/ LoopBreaks(b) \/ LoopEnds(b)
PollEnds(b) == PollReturns(b) \/ PollDropped(b)
IsReported(b) == \E r \in Answers, hint \in {0, 2} : Report(b, r, hint)
IsTaken(b) == TakeEmpty(b) \/ TakeInvalid(b) \/ TakeError(b) \/ TakeWorkflowTask(b)

Running(b) ==
    /\ WF_vars(b \in Buffers /\ LoopGoesOn(b) /\ UNCHANGED manager)
    /\ SF_vars(b \in Buffers /\ LoopAcquire(b) /\ UNCHANGED manager)
    /\ WF_vars(b \in Buffers /\ PollEnds(b) /\ UNCHANGED manager)
    /\ WF_vars(b \in Buffers /\ IsReported(b) /\ UNCHANGED manager)
    /\ WF_vars(b \in Buffers /\ IsTaken(b) /\ UNCHANGED manager)

Lang ==
    /\ WF_vars((Poll \/ StreamEnds \/ StreamOver) /\ UNCHANGED manager)
    /\ WF_vars(WorkflowTaskDone /\ UNCHANGED manager)
    /\ WF_vars(ManagerStep) /\ WF_vars(\E tt \in Tokens : NextTask(tt))
    /\ \A tt \in Tokens : WF_vars(Complete(tt) \/ CompleteMalformed(tt)) /\ WF_vars(CompleteReturns(tt))

FairSpec == Spec /\ (\A b \in {"normal", "sticky", "nexus"} : Running(b)) /\ Lang
-----------------------------------------------------------------------------
(* After the grace period every outstanding task has been or will be told,  *)
(* and when a poll has answered ShutDown nothing is outstanding.            *)
CancelsReachLang ==
    /\ grace = "fired" => map \subseteq told \cup ToSet(cancels)
    /\ ended => map = {}

PollingSafe ==
    /\ SlotsConserved(out + Cardinality(map \cup sending))
    /\ ScalesWithin /\ BothKindsPoll /\ NoTaskLost /\ CancelsReachLang

(* Until shutdown some queue is polled again and again and, where the       *)
(* supplier's slots run out before the dealer's permits do, each queue is,  *)
(* whatever the server advises and the other queue gets.  With as many      *)
(* slots as permits or more, one queue may take every permit from the other *)
(* (wait_if_needed does not know of them).                                  *)
PermitsMayRunOut == setup.permits \in 1 .. setup.slots

PollsAgain ==
    /\ []<>(shutdown \/ \E b \in Buffers : buf[b].polling > 0)
    /\ \A b \in {"normal", "sticky", "nexus"} :
          []<>(shutdown \/ (b \in Buffers /\ ~PermitsMayRunOut => buf[b].polling > 0))

(* After shutdown has begun the stream ends, and a poll for Nexus tasks     *)
(* answers ShutDown, for which Worker::shutdown waits -- unless the wake-up *)
(* was missed: after a malformed last completion, or one in between the     *)
(* look at the map and the registration.                                    *)
ShutdownEnds == shutdown ~> (stream = "over" /\ (setup.kind = "nexus" => ended)) \/ past.missed
=============================================================================
