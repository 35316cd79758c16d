----------------------------- MODULE TaskPollers -----------------------------
(***************************************************************************)
(* pollers/poll_buffer.rs, pollers/mod.rs and wft_poller.rs: the loops     *)
(* that take a slot, wait until another long poll is wanted and make it,   *)
(* the buffers they fill, how the sticky and the normal queue share the    *)
(* slots, and the streams that take the tasks from the buffers.  A slot is *)
(* had in two steps (MeteredPermitDealer::acquire_owned): a wait for the   *)
(* dealer's own limit on permits, and the supplier's slot.                 *)
(*                                                                         *)
(* The server is external: a poll returns a task, nothing, something that  *)
(* is no valid task, or an error, with or without advice on the number of  *)
(* polls.  Slots are the ones of a fixed-size supplier (PermitDealer).     *)
(***************************************************************************)
EXTENDS Integers, Sequences, FiniteSets, FiniteSetsExt, SequencesExt

CONSTANT Setups  \* workers: kind of task, buffers, slots, permits, scaling, and whether there is a grace period

ASSUME SetupsAssumption ==
    \A s \in Setups :
        /\ s.kind \in {"workflow", "nexus"} /\ s.grace \in BOOLEAN
        /\ s.buffers \in IF s.kind = "workflow" THEN {{"normal"}, {"normal", "sticky"}} ELSE {{"nexus"}}
        /\ s.auto \in BOOLEAN /\ s.slots \in Nat \ {0}
        /\ s.permits \in IF "sticky" \in s.buffers THEN Nat \ {0, 1} ELSE {0}  \* max_permits, 0 for None
        /\ {s.min, s.initial, s.max} \subseteq Nat
        /\ 1 <= s.min /\ s.min <= s.initial /\ s.initial <= s.max  \* PollerBehavior::validate

VARIABLES
    setup,     \* the worker's configuration
    buf,       \* each LongPollBuffer with its PollScaler
    free,      \* free slots
    backlog,   \* last_seen_sticky_backlog
    shutdown,  \* the worker's shutdown_token
    stream,    \* the stream that polls the buffers
    out,       \* workflow tasks that have been taken from it and hold their slot
    past       \* history: what the properties need to know

pollers == <<setup, buf, free, backlog, shutdown, stream, out, past>>
-----------------------------------------------------------------------------
Buffers == setup.buffers
Shared == Cardinality(Buffers) = 2

(* PollScaler::new, LongPollBuffer::new *)
NewBuffer(s) ==
    [loop |-> "idle", woken |-> FALSE, polling |-> 0, returned |-> 0, queue |-> <<>>,
     target |-> s.initial, saw |-> FALSE, up |-> TRUE]

PollersInit ==
    /\ setup \in Setups
    /\ buf = [b \in Buffers |-> NewBuffer(setup)]
    /\ free = setup.slots /\ backlog = 0 /\ shutdown = FALSE /\ stream = "idle" /\ out = 0
    /\ past = [lost |-> 0, backlogged |-> FALSE, missed |-> FALSE]

(* LongPollBuffer::poll starts the loops the first time it is called. *)
Poll ==
    /\ stream = "idle" /\ stream' = "open"
    /\ UNCHANGED <<setup, buf, free, backlog, shutdown, out, past>>

Loop(b, s) == buf[b].loop = s /\ UNCHANGED <<setup, backlog, shutdown, stream, out, past>>

LoopStarts(b) ==
    /\ Loop(b, "idle") /\ stream # "idle"
    /\ buf' = [buf EXCEPT ![b].loop = "top"]
    /\ UNCHANGED free

LoopTop(b) ==
    /\ Loop(b, "top") /\ ~shutdown
    /\ buf' = [buf EXCEPT ![b].loop = "delay"]
    /\ UNCHANGED free

(* WFTPollerShared::wait_if_needed, which knows the slots of the supplier   *)
(* and not the dealer's limit.                                              *)
PreferSticky == backlog > 1 /\ backlog > buf["sticky"].polling
SlotsLeft == buf["sticky"].polling + buf["normal"].polling < setup.slots
KeepsOneFor(other, b) == buf[other].polling = 0 /\ buf[b].polling + 1 >= setup.slots

\* Mutant: the normal queue is not polled at all while the sticky one has a backlog.
Mut_Allowed(b) ==
    \/ ~Shared
    \/ /\ b = "normal" /\ ~KeepsOneFor("sticky", b) /\ ~PreferSticky /\ SlotsLeft
    \/ /\ b = "sticky"
       /\ buf[b].polling = 0 \/ (~KeepsOneFor("normal", b) /\ (PreferSticky \/ SlotsLeft))

Allowed(b) ==
    \/ ~Shared
    \/ buf[b].polling = 0
    \/ b = "normal" /\ ~KeepsOneFor("sticky", b) /\ ~PreferSticky /\ SlotsLeft
    \/ b = "sticky" /\ ~KeepsOneFor("normal", b) /\ (PreferSticky \/ SlotsLeft)

LoopDelay(b) ==
    /\ Loop(b, "delay") /\ Allowed(b)
    /\ buf' = [buf EXCEPT ![b].loop = "acquire"]
    /\ UNCHANGED free

(* acquire_owned waits for the number of permits, all slots in use, to be   *)
(* below max_permits, and then for a slot.  Nothing keeps what the first    *)
(* wait has seen: several loops may pass it with one permit left.           *)
PermitLeft == setup.permits = 0 \/ setup.slots - free < setup.permits

LoopPermit(b) ==
    /\ Loop(b, "acquire") /\ PermitLeft
    /\ buf' = [buf EXCEPT ![b].loop = "reserve"]
    /\ UNCHANGED free

LoopAcquire(b) ==
    /\ Loop(b, "reserve") /\ free > 0
    /\ free' = free - 1
    /\ buf' = [buf EXCEPT ![b].loop = "allow", ![b].woken = TRUE]

(***************************************************************************)
(* wait_until_allowed looks again only when the number of open polls       *)
(* changes, not when the target does.                                      *)
(***************************************************************************)
LoopAllow(b) ==
    /\ Loop(b, "allow") /\ buf[b].woken
    /\ buf' = IF buf[b].polling < setup.max /\ buf[b].polling < buf[b].target
              THEN [buf EXCEPT ![b].loop = "top", ![b].polling = @ + 1, ![b].woken = FALSE]
              ELSE [buf EXCEPT ![b].woken = FALSE]
    /\ UNCHANGED free

(* Every wait of the loop ends when shutdown begins; the slot goes back. *)
LoopBreaks(b) ==
    /\ shutdown /\ \E s \in {"idle", "top", "delay", "acquire", "reserve", "allow"} : Loop(b, s)
    /\ buf' = [buf EXCEPT ![b].loop = IF @ = "idle" THEN "ended" ELSE "drain"]
    /\ free' = free + (IF buf[b].loop = "allow" THEN 1 ELSE 0)

\* Mutant: the loop ends without waiting for the polls it has spawned.
Mut_LoopEnds(b) ==
    /\ Loop(b, "drain")
    /\ buf' = [buf EXCEPT ![b].loop = "ended"]
    /\ UNCHANGED free

(* poll_task_awaiter *)
LoopEnds(b) ==
    /\ Loop(b, "drain") /\ buf[b].polling = 0 /\ buf[b].returned = 0
    /\ buf' = [buf EXCEPT ![b].loop = "ended"]
    /\ UNCHANGED free
-----------------------------------------------------------------------------
(* A spawned poll: the server's answer, or the shutdown before it. *)
PollReturns(b) ==
    /\ buf[b].polling > 0
    /\ buf' = [buf EXCEPT ![b].polling = @ - 1, ![b].woken = TRUE, ![b].returned = @ + 1]
    /\ UNCHANGED <<setup, free, backlog, shutdown, stream, out, past>>

PollDropped(b) ==
    /\ shutdown /\ buf[b].polling > 0
    /\ buf' = [buf EXCEPT ![b].polling = @ - 1, ![b].woken = TRUE]
    /\ free' = free + 1
    /\ UNCHANGED <<setup, backlog, shutdown, stream, out, past>>

(* PollScalerReportHandle::change_target *)
Clamp(n) == Min({setup.max, Max({setup.min, n})})

(* PollScalerReportHandle::poll_result: the target, and whether the answer is passed on. *)
NewTarget(b, r) ==
    LET t == buf[b].target
    IN  CASE ~setup.auto -> t
          [] r.what = "exhausted" -> IF buf[b].saw THEN Clamp(t \div 2) ELSE t
          [] r.what = "error" -> IF buf[b].saw THEN Clamp(t - 1) ELSE t
          [] r.advice = "down" -> Clamp(t - 1)
          [] r.advice = "up" -> IF buf[b].up THEN Clamp(t + 1) ELSE t
          [] r.advice = "none" -> IF buf[b].saw /\ r.what = "empty" THEN Clamp(t - 1) ELSE t

IsError(r) == r.what \in {"error", "exhausted"}
PassedOn(b, r) == ~(IsError(r) /\ setup.auto /\ buf[b].saw)

Answers ==
    [what : {"task", "empty", "invalid"}, advice : IF setup.auto THEN {"none", "down", "up"} ELSE {"none"}]
      \cup [what : IF setup.auto THEN {"error", "exhausted"} ELSE {"error"}, advice : {"none"}]

(* Bound: one error at a time waits to be taken. *)
RoomFor(b, r) == IsError(r) => ~Contains(buf[b].queue, "error")

(* What a poll does with the answer once it is no longer counted as open. *)
Report(b, r, hint) ==
    /\ buf[b].returned > 0 /\ RoomFor(b, r)
    /\ backlog' = IF b = "sticky" /\ Shared /\ ~IsError(r) THEN hint ELSE backlog
    /\ buf' = [buf EXCEPT ![b].returned = @ - 1, ![b].target = NewTarget(b, r),
                          ![b].saw = @ \/ (setup.auto /\ r.advice # "none"),
                          ![b].queue = IF stream = "over" \/ ~PassedOn(b, r) THEN @
                                       ELSE Append(@, IF IsError(r) THEN "error" ELSE r.what)]
    /\ free' = free + (IF stream = "over" \/ IsError(r) THEN 1 ELSE 0)
    /\ past' = [past EXCEPT !.backlogged = @ \/ backlog' > 1,
                            !.lost = @ + (IF stream = "over" /\ r.what = "task" THEN 1 ELSE 0)]
    /\ UNCHANGED <<setup, shutdown, stream, out>>

(* The ingestor: whether more tasks came in this period than in the last. *)
Tick(b) ==
    /\ setup.auto /\ ~shutdown
    /\ \E up \in BOOLEAN : buf' = [buf EXCEPT ![b].up = up]
    /\ UNCHANGED <<setup, free, backlog, shutdown, stream, out, past>>
-----------------------------------------------------------------------------
(* new_wft_poller, TaskPollerStream: what is next in a buffer is taken.  An *)
(* empty answer only gives back its slot.                                   *)
Head1(b) == stream = "open" /\ buf[b].queue # <<>>
Popped(b) == [buf EXCEPT ![b].queue = Tail(@)]

TakeEmpty(b) ==
    /\ Head1(b) /\ Head(buf[b].queue) = "empty"
    /\ buf' = Popped(b) /\ free' = free + 1
    /\ UNCHANGED <<setup, backlog, shutdown, stream, out, past>>

(* An unparseable workflow task is passed over, an invalid Nexus task is    *)
(* reported as an error; in both cases the slot goes back.                  *)
TakeInvalid(b) ==
    /\ Head1(b) /\ Head(buf[b].queue) = "invalid"
    /\ buf' = Popped(b) /\ free' = free + 1
    /\ UNCHANGED <<setup, backlog, shutdown, stream, out, past>>

(* next_workflow_activation begins the shutdown when it meets an error, a   *)
(* poll for Nexus tasks only returns it.                                    *)
TakeError(b) ==
    /\ Head1(b) /\ Head(buf[b].queue) = "error"
    /\ buf' = Popped(b)
    /\ shutdown' = (shutdown \/ setup.kind = "workflow")
    /\ UNCHANGED <<setup, free, backlog, stream, out, past>>

TakeTask(b) ==
    /\ Head1(b) /\ Head(buf[b].queue) = "task"
    /\ buf' = Popped(b)
    /\ UNCHANGED <<setup, free, backlog, shutdown, stream, past>>

TakeWorkflowTask(b) == setup.kind = "workflow" /\ TakeTask(b) /\ out' = out + 1

WorkflowTaskDone ==
    /\ out > 0 /\ out' = out - 1 /\ free' = free + 1
    /\ UNCHANGED <<setup, buf, backlog, shutdown, stream, past>>

(* WorkflowTaskPoller::poll: when one buffer has come to its end the stream *)
(* has too, and with it what the other buffer still holds.                  *)
StreamEnds ==
    /\ stream = "open" /\ \E b \in Buffers : buf[b].loop = "ended" /\ buf[b].queue = <<>>
    /\ stream' = "closing"
    /\ UNCHANGED <<setup, buf, free, backlog, shutdown, out, past>>

(* What is in a queue, and which of it holds a slot; a sum over the buffers. *)
InQueue(q, kinds) == Cardinality({i \in DOMAIN q : q[i] \in kinds})
Held(q) == InQueue(q, {"task", "empty", "invalid"})
InAll(f) == LET At(b) == IF b \in Buffers THEN f[b] ELSE 0
            IN  At("normal") + At("sticky") + At("nexus")

(* shutdown_box *)
StreamOver ==
    /\ stream = "closing" /\ \A b \in Buffers : buf[b].loop = "ended"
    /\ stream' = "over" /\ shutdown' = TRUE
    /\ free' = free + InAll([b \in Buffers |-> Held(buf[b].queue)])
    /\ past' = [past EXCEPT !.lost = @ + InAll([b \in Buffers |-> InQueue(buf[b].queue, {"task"})])]
    /\ buf' = [b \in Buffers |-> [buf[b] EXCEPT !.queue = <<>>]]
    /\ UNCHANGED <<setup, backlog, out>>

InitiateShutdown ==
    /\ ~shutdown /\ shutdown' = TRUE
    /\ UNCHANGED <<setup, buf, free, backlog, stream, out, past>>
-----------------------------------------------------------------------------
BufferStep(b) ==
    \/ LoopStarts(b) \/ LoopTop(b) \/ LoopDelay(b) \/ LoopPermit(b) \/ LoopAcquire(b)
    \/ LoopAllow(b) \/ LoopBreaks(b) \/ LoopEnds(b)
    \/ PollReturns(b) \/ PollDropped(b) \/ Tick(b)
    \/ \E r \in Answers, hint \in {0, 2} : Report(b, r, hint)
    \/ TakeEmpty(b) \/ TakeInvalid(b) \/ TakeError(b)

StreamStep == Poll \/ StreamEnds \/ StreamOver \/ InitiateShutdown
-----------------------------------------------------------------------------
InBuffer(b) ==
    (IF buf[b].loop = "allow" THEN 1 ELSE 0) + buf[b].polling + buf[b].returned + Held(buf[b].queue)

(* Every slot is free, or held by one loop, poll, answer or task: nothing   *)
(* is lost or given back twice on any path through a shutdown.              *)
SlotsConserved(taken) == free + taken + InAll([b \in Buffers |-> InBuffer(b)]) = setup.slots

(* The advice of the server moves the number of open polls within bounds.   *)
ScalesWithin ==
    \A b \in Buffers : /\ buf[b].target \in setup.min .. setup.max
                       /\ buf[b].polling <= setup.max

(* "We need to make sure there's at least one poller of both kinds          *)
(* available": polls of one kind never use every slot of the supplier --    *)
(* except those of the sticky queue after it has had a backlog.             *)
BothKindsPoll ==
    Shared /\ setup.slots > 1 => /\ buf["normal"].polling < setup.slots
                                 /\ buf["sticky"].polling < setup.slots \/ past.backlogged

(* "Since we always need to be able to poll the normal task queue as well   *)
(* as the sticky queue, we need a value of at least 2" for max_permits: the *)
(* polls of the normal queue leave a permit.                                *)
BothKindsHavePermits == Shared => buf["normal"].polling < setup.permits

(* A task that was received is handed on, unless it waits in one of two     *)
(* buffers when the other comes to its end.                                 *)
NoTaskLost == past.lost > 0 => Shared /\ shutdown
=============================================================================
