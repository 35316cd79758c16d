---------------------------- MODULE ActivityTasks ----------------------------
(***************************************************************************)
(* WorkerActivityTasks (worker/activities.rs): how a worker receives       *)
(* remote activities, hands them and their cancels to the language side,   *)
(* completes them, and shuts down.                                         *)
(*                                                                         *)
(* The stream behind poll() runs on one task, so each item it handles is   *)
(* one step.  complete(), shutdown(), the pollers, the local timeouts and  *)
(* the heartbeat manager run concurrently with it; complete() and          *)
(* shutdown() are cut at their awaits.  The semaphore of eager starts is   *)
(* cut where its try and its close() can cross (PermitDealer has all their *)
(* steps); the heartbeat manager behaves as HeartbeatManager promises:     *)
(* evict() returns while its loop runs.  Time is left out: a timeout or    *)
(* the grace period may end at any moment.                                 *)
(***************************************************************************)
EXTENDS Naturals, Sequences, FiniteSets

CONSTANTS
  Activities,     \* activities the server may hand out, named by task token
  Eager,          \* those that come with a workflow task completion, not by a poll
  Timed,          \* those with a heartbeat or start-to-close timeout
  MaxConcurrent,  \* slots of the permit dealer
  GracePeriod,    \* whether graceful_shutdown is configured
  MayPreempt,     \* whether others may run while the stream begins to wait
  MaxAnswers      \* bound on the heartbeat answers per activity that cancel it

ASSUME ActivityAssumption ==
  /\ Eager \subseteq Activities
  /\ Timed \subseteq Activities
  /\ IsFiniteSet(Activities)
  /\ MaxConcurrent \in Nat
  /\ GracePeriod \in BOOLEAN
  /\ MayPreempt \in BOOLEAN
  /\ MaxAnswers \in Nat

VARIABLES
  act,           \* where each activity is, see Stages
  issued,        \* issued_cancel_to_lang, "none" before
  told,          \* per activity: cancel tasks handed to the language side
  answers,       \* per activity: heartbeat answers that cancelled it
  cancels,       \* the cancels channel
  timers,        \* activities whose local timeout task runs
  reported,      \* what complete() told the server
  free,          \* free slots
  polling,       \* polls in flight, each with a slot
  poller,        \* the long-poll buffer: "running" or "ended"
  immediate,     \* should_issue_immediate_cancel
  waiter,        \* the arm of take_until that waits for the end, see Waiters
  poll_shutdown, \* poll_returned_shutdown_token: poll() returned ShutDown
  initiated,     \* shutdown_initiated_token
  closer,        \* close() of the eager semaphore: "open", "load", "done"
  closed,        \* its flag: "no", "stored" but seen by nobody yet, "seen"
  close_complete,\* its token
  missed,        \* history: its last count went and nobody looked
  eager,         \* the channel of eager starts: "open" or "closed"
  shutdown,      \* the call of shutdown(): "none", "closing", "locking", ...
  heartbeats     \* the heartbeat manager: "running" or "stopped"

actVars == <<act, issued, told, reported>>
startVars == <<free, polling, poller>>
semVars == <<closer, closed, close_complete, missed>>
endVars == <<waiter, poll_shutdown, initiated, semVars, eager, shutdown, heartbeats>>
vars == <<actVars, answers, cancels, timers, startVars, immediate, endVars>>

\* server: not handed out; checked, counted, failing: inside the try for an eager
\* start; reserved: it got a slot, response awaited; lost: the response came when
\* nobody takes it any more; buffered: received; outstanding: in the map; the
\* rest are the awaits of complete(): the eviction, the lock, the RPC.
Stages == {"server", "checked", "counted", "failing", "reserved", "lost", "buffered",
           "outstanding", "evicting", "locking", "reporting", "done"}
Slotless == {"server", "checked", "counted", "failing", "lost", "done"}
Completing == {"evicting", "locking", "reporting"}

\* Cancelled stands for Reset and Paused too, which are handled alike.
ServerReasons == {"Cancelled", "NotFound"}
Reasons == ServerReasons \cup {"TimedOut", "WorkerShutdown"}
IsNotFound(reason) == reason \in {"NotFound", "TimedOut"}

\* starts: start_tasks_stream_complete is awaited; check: about to look at the
\* map; unregistered: the map was not empty, notified() not called yet.
Waiters == {"starts", "check", "unregistered", "waiting", "ended"}

Outstanding == {a \in Activities : act[a] = "outstanding"}
Move(a, stage) == act' = [act EXCEPT ![a] = stage]
Cancel(a, why) == [tt |-> a, reason |-> why]

\* Whom outstanding_permits of the eager semaphore counts.
Counted ==
  {a \in Eager : act[a] \in {"counted", "failing", "reserved", "buffered"}}

Init ==
  /\ act = [a \in Activities |-> "server"]
  /\ issued = [a \in Activities |-> "none"]
  /\ told = [a \in Activities |-> 0]
  /\ answers = [a \in Activities |-> 0]
  /\ cancels = <<>>
  /\ timers = {}
  /\ reported = [a \in Activities |-> "nothing"]
  /\ free = MaxConcurrent
  /\ polling = 0
  /\ poller = "running"
  /\ immediate = FALSE
  /\ waiter = "starts"
  /\ poll_shutdown = FALSE
  /\ initiated = FALSE
  /\ closer = "open"
  /\ closed = "no"
  /\ close_complete = FALSE
  /\ missed = FALSE
  /\ eager = "open"
  /\ shutdown = "none"
  /\ heartbeats = "running"

----------------------------------------------------------------------------
(* Where starts come from.                                                 *)

\* The long-poll buffer takes a slot and polls.
PollBegins ==
  /\ poller = "running" /\ ~initiated
  /\ free > 0
  /\ free' = free - 1
  /\ polling' = polling + 1
  /\ UNCHANGED <<answers, actVars, cancels, timers, poller, immediate, endVars>>

\* The poll brings an activity, also when shutdown has begun meanwhile.
PollGets(a) ==
  /\ polling > 0
  /\ a \notin Eager /\ act[a] = "server"
  /\ polling' = polling - 1
  /\ Move(a, "buffered")
  /\ UNCHANGED <<answers, issued, told, reported, cancels, timers, free, poller, immediate, endVars>>

\* It ends without one: empty, failed, or cancelled by the shutdown.
PollGetsNothing ==
  /\ polling > 0
  /\ polling' = polling - 1
  /\ free' = free + 1
  /\ UNCHANGED <<answers, actVars, cancels, timers, poller, immediate, endVars>>

\* The polling task ends and with it the poller's channel.
PollerEnds ==
  /\ poller = "running"
  /\ initiated /\ polling = 0
  /\ poller' = "ended"
  /\ UNCHANGED <<answers, actVars, cancels, timers, free, polling, immediate, endVars>>

\* A tracked permit is dropped or turned into a plain one: on_drop uncounts it
\* and looks whether it was the last one of a closed semaphore.
DropTracked(a) ==
  /\ close_complete' = (close_complete \/ (closed = "seen" /\ Counted = {a}))
  /\ missed' = (missed \/ (closer = "done" /\ closed = "stored" /\ Counted = {a}))
  /\ UNCHANGED <<closer, closed>>

\* reserve_slot: the workflow side asks the server to start an activity eagerly,
\* if the semaphore is not closed and has a slot: the check of the flag, ...
ReserveSlot(a) ==
  /\ a \in Eager /\ act[a] = "server"
  /\ closed # "seen"
  /\ Move(a, "checked")
  /\ UNCHANGED <<answers, issued, told, reported, cancels, timers, startVars, immediate, endVars>>

\* ... the count, ...
CountReservation(a) ==
  /\ act[a] = "checked"
  /\ Move(a, "counted")
  /\ UNCHANGED <<answers, issued, told, reported, cancels, timers, startVars, immediate, endVars>>

\* ... and the slot.
TakeSlot(a) ==
  /\ act[a] = "counted"
  /\ \/ free > 0 /\ free' = free - 1 /\ Move(a, "reserved")
     \/ free = 0 /\ Move(a, "failing") /\ UNCHANGED free
  /\ UNCHANGED <<answers, issued, told, reported, cancels, timers, polling, poller, immediate, endVars>>

\* A failed try is uncounted and looks no further.
ReserveFails(a) ==
  /\ act[a] = "failing"
  /\ Move(a, "server")
  /\ missed' = (missed \/ (closer = "done" /\ Counted = {a}))
  /\ UNCHANGED <<answers, issued, told, reported, cancels, timers, startVars, immediate, waiter,
                 poll_shutdown, initiated, closer, closed, close_complete, eager, shutdown, heartbeats>>

\* add_tasks: the server did start it.  With the channel closed the send fails
\* and so does the expect on it: the activity is lost, its permit dropped.
AddTask(a) ==
  /\ act[a] = "reserved"
  /\ \/ /\ eager = "open"
        /\ Move(a, "buffered")
        /\ UNCHANGED <<free, semVars>>
     \/ /\ eager = "closed"
        /\ Move(a, "lost")
        /\ free' = free + 1
        /\ DropTracked(a)
  /\ UNCHANGED <<answers, issued, told, reported, cancels, timers, polling, poller, immediate, waiter,
                 poll_shutdown, initiated, eager, shutdown, heartbeats>>

\* The server did not; the permit is dropped.
ReservationUnused(a) ==
  /\ act[a] = "reserved"
  /\ Move(a, "server")
  /\ free' = free + 1
  /\ DropTracked(a)
  /\ UNCHANGED <<answers, issued, told, reported, cancels, timers, polling, poller, immediate, waiter,
                 poll_shutdown, initiated, eager, shutdown, heartbeats>>

----------------------------------------------------------------------------
(* The stream behind poll().  Cancels come before starts, eager starts     *)
(* before polled ones.                                                     *)

\* A pending cancel: told once, and only while the activity is outstanding.
HandleCancel ==
  LET c == Head(cancels)
      first == act[c.tt] = "outstanding" /\ issued[c.tt] = "none" IN
  /\ ~poll_shutdown
  /\ cancels # <<>>
  /\ cancels' = Tail(cancels)
  /\ \/ /\ first
        /\ issued' = [issued EXCEPT ![c.tt] = c.reason]
        /\ told' = [told EXCEPT ![c.tt] = @ + 1]
     \/ ~first /\ UNCHANGED <<issued, told>>
  /\ UNCHANGED <<answers, act, reported, timers, startVars, immediate, endVars>>

\* Mutant: a start does not look whether the grace period is over.
Mut_StartUncancelled(a) ==
  /\ ~poll_shutdown
  /\ cancels = <<>>
  /\ act[a] = "buffered"
  /\ Move(a, "outstanding")
  /\ timers' = timers \cup ({a} \cap Timed)
  /\ IF a \in Eager THEN DropTracked(a) ELSE UNCHANGED semVars
  /\ UNCHANGED <<answers, issued, told, reported, cancels, startVars, immediate, waiter,
                 poll_shutdown, initiated, eager, shutdown, heartbeats>>

\* A start: the activity becomes outstanding, and its tracked permit, if it came
\* eagerly, a plain one.  After the grace period it is cancelled at once; before,
\* a local timeout is started if it has one.
HandleStart(a) ==
  /\ ~poll_shutdown
  /\ cancels = <<>>
  /\ act[a] = "buffered"
  /\ a \in Eager \/ \A b \in Eager : act[b] # "buffered"
  /\ Move(a, "outstanding")
  /\ \/ /\ immediate
        /\ cancels' = <<Cancel(a, "WorkerShutdown")>>
        /\ UNCHANGED timers
     \/ /\ ~immediate
        /\ timers' = timers \cup ({a} \cap Timed)
        /\ UNCHANGED cancels
  /\ IF a \in Eager THEN DropTracked(a) ELSE UNCHANGED semVars
  /\ UNCHANGED <<answers, issued, told, reported, startVars, immediate, waiter,
                 poll_shutdown, initiated, eager, shutdown, heartbeats>>

\* Mutant: the end of the poller is taken for the end of all starts.
Mut_StartsEndEarly ==
  /\ waiter = "starts"
  /\ cancels = <<>>
  /\ poller = "ended"
  /\ waiter' = "check"
  /\ UNCHANGED <<answers, actVars, cancels, timers, startVars, immediate,
                 poll_shutdown, initiated, semVars, eager, shutdown, heartbeats>>

\* The stream of eager starts sees that the close of the semaphore is complete,
\* closes its channel and, with nothing in it, ends.
EagerCloses ==
  /\ eager = "open"
  /\ cancels = <<>>
  /\ close_complete
  /\ \A a \in Eager : act[a] # "buffered"
  /\ eager' = "closed"
  /\ UNCHANGED <<answers, actVars, cancels, timers, startVars, immediate,
                 waiter, poll_shutdown, initiated, semVars, shutdown, heartbeats>>

\* Both sources of starts are at their end, the poller's channel and the eager one.
StartsEnd ==
  /\ waiter = "starts"
  /\ cancels = <<>>
  /\ poller = "ended" /\ eager = "closed"
  /\ \A a \in Activities : act[a] # "buffered"
  /\ waiter' = "check"
  /\ UNCHANGED <<answers, actVars, cancels, timers, startVars, immediate,
                 poll_shutdown, initiated, semVars, eager, shutdown, heartbeats>>

\* Is the map empty?  Then the stream ends, and poll() returns ShutDown.
WaiterLooks ==
  /\ waiter = "check"
  /\ \/ Outstanding = {} /\ waiter' = "ended" /\ poll_shutdown' = TRUE
     \/ /\ Outstanding # {}
        /\ waiter' = IF MayPreempt THEN "unregistered" ELSE "waiting"
        /\ UNCHANGED poll_shutdown
  /\ UNCHANGED <<answers, actVars, cancels, timers, startVars, immediate,
                 initiated, semVars, eager, shutdown, heartbeats>>

WaiterRegisters ==
  /\ waiter = "unregistered"
  /\ waiter' = "waiting"
  /\ UNCHANGED <<answers, actVars, cancels, timers, startVars, immediate,
                 poll_shutdown, initiated, semVars, eager, shutdown, heartbeats>>

\* The grace period is over: everything outstanding is cancelled (the map is
\* walked in some order), and what will still start, by HandleStart.
GraceEnds ==
  /\ GracePeriod /\ initiated /\ ~immediate
  /\ waiter # "ended"
  /\ immediate' = TRUE
  /\ \E walk \in [1..Cardinality(Outstanding) -> Outstanding] :
       /\ \A a \in Outstanding : \E i \in DOMAIN walk : walk[i] = a
       /\ cancels' = cancels \o [i \in DOMAIN walk |-> Cancel(walk[i], "WorkerShutdown")]
  /\ UNCHANGED <<answers, actVars, timers, startVars, endVars>>

----------------------------------------------------------------------------
(* Other sources of cancels.                                               *)

\* The answer to a heartbeat; one may still be under way after the eviction.
HeartbeatAnswer(a, why) ==
  /\ heartbeats = "running"
  /\ act[a] \in {"outstanding"} \cup Completing
  /\ answers[a] < MaxAnswers
  /\ answers' = [answers EXCEPT ![a] = @ + 1]
  /\ cancels' = Append(cancels, Cancel(a, why))
  /\ UNCHANGED <<actVars, timers, startVars, immediate, endVars>>

LocalTimeout(a) ==
  /\ a \in timers
  /\ timers' = timers \ {a}
  /\ cancels' = Append(cancels, Cancel(a, "TimedOut"))
  /\ UNCHANGED <<answers, actVars, startVars, immediate, endVars>>

----------------------------------------------------------------------------
(* complete().                                                             *)

\* The entry is removed, its timer aborted, and the eviction awaited.
Complete(a) ==
  /\ act[a] = "outstanding"
  /\ Move(a, "evicting")
  /\ timers' = timers \ {a}
  /\ UNCHANGED <<answers, issued, told, reported, cancels, startVars, immediate, endVars>>

\* The end of complete() drops the entry and with it the slot.
Finish(a) ==
  /\ Move(a, "done")
  /\ free' = free + 1

\* Mutant: the slot is not given back when there is nothing to report.
Mut_NotFoundLeaksSlot(a) ==
  /\ act[a] = "evicting"
  /\ heartbeats = "running"
  /\ Move(a, IF IsNotFound(issued[a]) THEN "done" ELSE "locking")
  /\ UNCHANGED <<answers, issued, told, reported, cancels, timers, startVars, immediate, endVars>>

\* Mutant: the result is dropped whenever a cancel was issued.
Mut_DropCancelled(a) ==
  /\ act[a] = "evicting"
  /\ heartbeats = "running"
  /\ IF issued[a] # "none" THEN Finish(a) ELSE Move(a, "locking") /\ UNCHANGED free
  /\ UNCHANGED <<answers, issued, told, reported, cancels, timers, polling, poller, immediate, endVars>>

\* evict() has returned.  What the server does not know is not reported, and
\* nobody is notified.
Evicted(a) ==
  /\ act[a] = "evicting"
  /\ heartbeats = "running"
  /\ \/ IsNotFound(issued[a]) /\ Finish(a)
     \/ ~IsNotFound(issued[a]) /\ Move(a, "locking") /\ UNCHANGED free
  /\ UNCHANGED <<answers, issued, told, reported, cancels, timers, polling, poller, immediate, endVars>>

\* Mutant: the guard of shutdown() is kept until it has returned.
Mut_GuardKept(a) ==
  /\ act[a] = "locking"
  /\ shutdown \notin {"locking", "awaitPoll"}
  /\ Move(a, "reporting")
  /\ UNCHANGED <<answers, issued, told, reported, cancels, timers, startVars, immediate, endVars>>

\* completers_lock.read(): waits behind a queued writer.
Lock(a) ==
  /\ act[a] = "locking"
  /\ shutdown # "locking"
  /\ Move(a, "reporting")
  /\ UNCHANGED <<answers, issued, told, reported, cancels, timers, startVars, immediate, endVars>>

\* What each status of the language side is told to the server as: a result (or
\* failure), nothing yet, or a cancellation; one for WorkerShutdown is a failure.
Outcomes(a) ==
  {"result", "async"}
    \cup {IF issued[a] = "WorkerShutdown" THEN "result" ELSE "cancelled"}

\* notify_waiters: wakes who is registered, and is lost otherwise.
NotifyWaiters == waiter' = IF waiter = "waiting" THEN "check" ELSE waiter

\* The RPC has ended, well or not: notify, and end.
Report(a) ==
  /\ act[a] = "reporting"
  /\ reported' \in {[reported EXCEPT ![a] = o] : o \in Outcomes(a)}
  /\ NotifyWaiters
  /\ Finish(a)
  /\ UNCHANGED <<answers, issued, told, cancels, timers, polling, poller, immediate,
                 poll_shutdown, initiated, semVars, eager, shutdown, heartbeats>>

----------------------------------------------------------------------------
(* Shutdown.                                                               *)

\* initiate_shutdown, which shutdown() calls too: the token, and close() of the
\* semaphore, whose store others may see late, ...
InitiateShutdown ==
  /\ shutdown = "none" /\ closer # "load"
  /\ initiated' = TRUE
  /\ shutdown' \in {"none", "closing"}
  /\ closer' = "load"
  /\ closed' = IF closed = "no" THEN "stored" ELSE closed
  /\ missed' = FALSE
  /\ UNCHANGED <<answers, actVars, cancels, timers, startVars, immediate,
                 waiter, poll_shutdown, close_complete, eager, heartbeats>>

CloseVisible ==
  /\ closed = "stored"
  /\ closed' = "seen"
  /\ UNCHANGED <<answers, actVars, cancels, timers, startVars, immediate, waiter, poll_shutdown,
                 initiated, closer, close_complete, missed, eager, shutdown, heartbeats>>

\* ... and the look at the counter.  shutdown() goes on to queue for the lock.
CloseLoads ==
  /\ closer = "load"
  /\ closer' = "done"
  /\ close_complete' = (close_complete \/ Counted = {})
  /\ closed' = IF Counted = {} THEN "seen" ELSE closed
  /\ shutdown' = IF shutdown = "closing" THEN "locking" ELSE shutdown
  /\ UNCHANGED <<answers, actVars, cancels, timers, startVars, immediate,
                 waiter, poll_shutdown, initiated, missed, eager, heartbeats>>

\* The guard of write() is dropped where it is made.
ShutdownLocks ==
  /\ shutdown = "locking"
  /\ \A a \in Activities : act[a] # "reporting"
  /\ shutdown' = "awaitPoll"
  /\ UNCHANGED <<answers, actVars, cancels, timers, startVars, immediate,
                 waiter, poll_shutdown, initiated, semVars, eager, heartbeats>>

\* poll() has returned ShutDown: stop the heartbeat manager.
ShutdownEnds ==
  /\ shutdown = "awaitPoll"
  /\ poll_shutdown
  /\ shutdown' = "done"
  /\ heartbeats' = "stopped"
  /\ UNCHANGED <<answers, actVars, cancels, timers, startVars, immediate,
                 waiter, poll_shutdown, initiated, semVars, eager>>

----------------------------------------------------------------------------
StreamStep ==
  \/ HandleCancel \/ EagerCloses \/ StartsEnd \/ WaiterLooks \/ WaiterRegisters \/ GraceEnds
  \/ \E a \in Activities : HandleStart(a)

ReserveStep(a) == CountReservation(a) \/ TakeSlot(a) \/ ReserveFails(a)

EagerAnswer(a) == AddTask(a) \/ ReservationUnused(a)

CompleteStep(a) == Evicted(a) \/ Lock(a) \/ Report(a)

ShutdownStep == ShutdownLocks \/ ShutdownEnds

Next ==
  \/ PollBegins \/ PollGetsNothing \/ PollerEnds
  \/ \E a \in Activities :
       \/ PollGets(a) \/ ReserveSlot(a) \/ ReserveStep(a) \/ EagerAnswer(a)
       \/ LocalTimeout(a) \/ Complete(a) \/ CompleteStep(a)
       \/ \E why \in ServerReasons : HeartbeatAnswer(a, why)
  \/ StreamStep
  \/ InitiateShutdown \/ CloseLoads \/ CloseVisible \/ ShutdownStep

Spec == Init /\ [][Next]_vars

(***************************************************************************)
(* Fairness: poll() is called again and again until it returns ShutDown,   *)
(* as the contract of the API asks, so the stream's steps are taken; polls *)
(* and RPCs end; runtime tasks run.  Nothing makes a start win against     *)
(* another start, and nothing makes the language side complete an          *)
(* activity, a timeout fire or a heartbeat be answered.                    *)
(***************************************************************************)
Fairness ==
  /\ WF_vars(HandleCancel) /\ WF_vars(EagerCloses) /\ WF_vars(StartsEnd)
  /\ WF_vars(WaiterLooks) /\ WF_vars(WaiterRegisters) /\ WF_vars(GraceEnds)
  /\ WF_vars(\E a \in Activities : HandleStart(a))
  /\ WF_vars(initiated /\ PollGetsNothing) /\ WF_vars(PollerEnds)
  /\ \A a \in Activities :
       WF_vars(ReserveStep(a)) /\ WF_vars(EagerAnswer(a)) /\ WF_vars(CompleteStep(a))
  /\ WF_vars(CloseLoads) /\ WF_vars(CloseVisible) /\ WF_vars(ShutdownStep)

FairSpec == Spec /\ Fairness

----------------------------------------------------------------------------
(* Properties.                                                             *)

TypeOK ==
  /\ act \in [Activities -> Stages]
  /\ issued \in [Activities -> Reasons \cup {"none"}]
  /\ told \in [Activities -> Nat]
  /\ answers \in [Activities -> 0..MaxAnswers]
  /\ cancels \in Seq([tt : Activities, reason : Reasons])
  /\ timers \subseteq Activities
  /\ reported \in [Activities -> {"nothing", "result", "cancelled", "async"}]
  /\ free \in 0..MaxConcurrent
  /\ polling \in 0..MaxConcurrent
  /\ poller \in {"running", "ended"}
  /\ immediate \in BOOLEAN
  /\ waiter \in Waiters
  /\ poll_shutdown \in BOOLEAN
  /\ initiated \in BOOLEAN
  /\ closer \in {"open", "load", "done"}
  /\ closed \in {"no", "stored", "seen"}
  /\ close_complete \in BOOLEAN
  /\ missed \in BOOLEAN
  /\ eager \in {"open", "closed"}
  /\ shutdown \in {"none", "closing", "locking", "awaitPoll", "done"}
  /\ heartbeats \in {"running", "stopped"}

\* Every slot is free, with a poll, or with one activity that is not done: an
\* activity keeps its slot until complete() has ended, whichever way it ends.
Held == {a \in Activities : act[a] \notin Slotless}
SlotsAccountedFor == free + polling + Cardinality(Held) = MaxConcurrent

\* The language side is told at most once to cancel an activity, although the
\* server, the local timeout and the shutdown may each ask for it.
CancelledOnce == \A a \in Activities : told[a] <= 1

\* A result is kept from the server only if the activity was found to be unknown
\* or timed out, whatever other cancels were queued.
NoResultDropped ==
  \A a \in Activities : act[a] = "done" =>
    (reported[a] = "nothing" <=> IsNotFound(issued[a]))

\* poll(): "Returns ShutDown after shutdown is completed and all tasks sources are
\* depleted" (activities.rs:306).  From then on nothing is polled for, queued or
\* running, except completions under way.  A reservation that passed the check of
\* the flag before the close may still be out, in any stage: nothing it brings
\* reaches the queue or the language side any more.
DepletedWhenPollShutDown ==
  poll_shutdown =>
    /\ polling = 0
    /\ \A a \in Activities :
         \/ act[a] \in {"server", "done"} \cup Completing
         \/ a \in Eager /\ act[a] \in {"checked", "counted", "failing", "reserved", "lost"}

\* add_tasks: "Receive half cannot be dropped" (activities.rs:700).  An eager
\* activity whose reservation crossed the close finds the channel closed.
ReceiveHalfNotDropped == \A a \in Activities : act[a] # "lost"

\* record_heartbeat finds an entry only while the heartbeat manager runs: the
\* expect on its channel cannot fail.
HeartbeatsOutliveActivities == heartbeats = "stopped" => Outstanding = {}

\* The bookkeeping of the manager: slots, cancels and the order of the shutdown.
TasksSafe == TypeOK /\ SlotsAccountedFor /\ CancelledOnce /\ HeartbeatsOutliveActivities

\* The last four and what makes them inductive.
CancelInv ==
  \A a \in Activities : told[a] = (IF issued[a] = "none" THEN 0 ELSE 1)

ResultInv ==
  \A a \in Activities :
    /\ act[a] # "done" => reported[a] = "nothing"
    /\ act[a] \in {"locking", "reporting"} => ~IsNotFound(issued[a])
    /\ act[a] = "done" => (reported[a] = "nothing" <=> IsNotFound(issued[a]))

EndInv ==
  /\ poller = "ended" => initiated /\ polling = 0
  /\ eager = "closed" => \A a \in Eager : act[a] # "buffered"
  /\ waiter # "starts" => /\ poller = "ended" /\ eager = "closed"
                         /\ \A a \in Activities : act[a] # "buffered"
  /\ poll_shutdown <=> waiter = "ended"
  /\ poll_shutdown => Outstanding = {}
  /\ heartbeats = "stopped" => poll_shutdown
  /\ \A a \in Activities \ Eager :
       act[a] \notin {"checked", "counted", "failing", "reserved", "lost"}

\* The inductive invariant.
Inv == TypeOK /\ SlotsAccountedFor /\ CancelInv /\ ResultInv /\ EndInv

\* After the grace period every activity the language side runs is told to
\* cancel, those too that start later, unless it completes by itself.
CancelledAfterGrace ==
  \A a \in Activities :
    (immediate /\ act[a] = "outstanding") ~> (issued[a] # "none" \/ act[a] # "outstanding")

\* The language side completes every activity it is given.
EveryActivityCompletes ==
  \A a \in Activities : act[a] = "outstanding" ~> act[a] # "outstanding"

\* If every activity is completed, shutdown() returns: poll(), complete() and
\* shutdown() do not wait for each other in a circle.  Three exceptions remain: a
\* close of the eager semaphore that nobody completes (a failed try or a drop
\* that read the flag too early took the last count away, see PermitDealer), an
\* activity that was not found, whose completion wakes nobody, and, with
\* MayPreempt, a wake-up that comes before the stream is registered for it.
ShutdownReturnsUnlessMissed ==
  EveryActivityCompletes => (shutdown = "awaitPoll") ~>
    \/ shutdown = "done"
    \/ missed /\ ~close_complete
    \/ /\ waiter = "waiting"
       /\ \A a \in Activities : act[a] \in Slotless
       /\ \E a \in Activities : IsNotFound(issued[a])
=============================================================================
