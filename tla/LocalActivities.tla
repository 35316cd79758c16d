-------------------------- MODULE LocalActivities --------------------------
(***************************************************************************)
(* worker/activities/local_activities.rs: the manager of local activities, *)
(* with the poll that serves it (activity_poll of worker/mod.rs), the      *)
(* completions of lang, and its part in the shutdown of the worker.        *)
(*                                                                         *)
(* The workflow's side is external: a run requests local activities,       *)
(* cancels them, may be evicted and replayed, and then requests the same   *)
(* ones again.  A resolution reaches it at once.  Backoffs and timeouts    *)
(* elapse at any moment after they were armed.                             *)
(***************************************************************************)
EXTENDS Integers, Sequences, FiniteSets, SequencesExt

CONSTANTS LAs,          \* local activities
          Workloads,    \* bound: the sets of them a worker is asked for
          MaxAttempts,  \* maximum_attempts of each one's retry policy
          Permits,      \* slots for local activities
          WaitsForCancel, \* LAs cancelled with WaitCancellationCompleted; the others TryCancel
          SchedToClose, SchedToStart, StartToClose, \* LAs with these timeouts
          Evictable,    \* LAs of one run that may be evicted; the others are of other runs
          MaxEvictions, \* bound: evictions of that run
          MaxBacklog    \* bound: what may sit in cancels_req when a timer fires

ASSUME LocalActivitiesAssumption ==
    /\ IsFiniteSet(LAs) /\ Workloads \subseteq SUBSET LAs
    /\ MaxAttempts \in [LAs -> Nat \ {0}] /\ Permits \in Nat \ {0} /\ MaxEvictions \in Nat
    /\ WaitsForCancel \subseteq LAs /\ SchedToClose \subseteq LAs
    /\ SchedToStart \subseteq LAs /\ StartToClose \subseteq LAs /\ Evictable \subseteq LAs
    /\ MaxBacklog \in Nat

VARIABLES
    wf,          \* the workflow's view of each activity
    info,        \* la_info
    gen,         \* task tokens made for each activity: a token is <<la, n>>
    outstanding, \* outstanding_activity_tasks: token and attempt
    queue,       \* act_req channel: activity and attempt
    backoffs,    \* sleeping backoff tasks: activity and attempt
    stale,       \* start-to-close timers nobody owns any more, per activity
    cancels,     \* cancels_req channel: cancels by token, timeouts by activity
    poll,        \* where activity_poll stands in next_pending
    free,        \* free permits
    held,        \* permits waiting inside the stream: 0 or 1
    flags,       \* what has been signalled of the shutdown
    waiter,      \* wait_all_outstanding_tasks_finished
    notified,    \* complete_notify holds a permit
    past         \* history: what the properties need to know

vars == <<wf, info, gen, outstanding, queue, backoffs, stale, cancels, poll, free, held,
          flags, waiter, notified, past>>

manager == <<info, gen, outstanding, queue, backoffs, cancels>>
-----------------------------------------------------------------------------
NoInfo == [on |-> FALSE, tt |-> 0, back |-> FALSE, s2c |-> FALSE, stc |-> FALSE]
Idle == <<"out">>

Init ==
    /\ \E work \in Workloads : wf = [la \in LAs |-> IF la \in work THEN "idle" ELSE "never"]
    /\ info = [la \in LAs |-> NoInfo] /\ gen = [la \in LAs |-> 0]
    /\ outstanding = {} /\ queue = <<>> /\ backoffs = {}
    /\ stale = [la \in LAs |-> 0] /\ cancels = <<>>
    /\ poll = Idle /\ free = Permits /\ held = 0
    /\ flags = {} /\ waiter = "none" /\ notified = FALSE
    /\ past = [reported |-> {}, ignored |-> {}, quiet |-> FALSE, panics |-> {}, evictions |-> 0]

Waiting(la) == wf[la] \in {"waiting", "cancelling"}

(* A resolution reaches the run; only one that waits takes notice. *)
Resolve(S) == [la \in LAs |-> IF la \in S /\ Waiting(la) THEN "done" ELSE wf[la]]

Panic(b, what) == IF b THEN {what} ELSE {}

(* set_shutdown_complete_if_ready *)
CompleteIfReady(fl, out) == fl \cup (IF out = {} /\ "workflows" \in fl THEN {"complete"} ELSE {})
-----------------------------------------------------------------------------
(* enqueue *)
Sent(chan, s) == IF waiter = "finished" THEN chan ELSE chan \o s  \* else `expect` panics in the sender

\* Mutant: an activity that is already known is queued again.
Mut_Request(la) ==
    /\ wf[la] = "idle" /\ "workflows" \notin flags
    /\ gen' = [gen EXCEPT ![la] = @ + 1]
    /\ info' = [info EXCEPT ![la] = [on |-> TRUE, tt |-> gen[la] + 1, back |-> FALSE,
                                     s2c |-> la \in SchedToClose, stc |-> FALSE]]
    /\ queue' = Sent(queue, <<<<la, 1>>>>)
    /\ wf' = [wf EXCEPT ![la] = "waiting"]
    /\ past' = [past EXCEPT !.reported = @ \ {la}]
    /\ UNCHANGED <<outstanding, backoffs, stale, cancels, poll, free, held, flags,
                   waiter, notified>>

(* LocalActRequest::New, with TimeoutBag::new: what is already tracked is   *)
(* not queued, what is already too late is resolved at once.                *)
Request(la) ==
    /\ wf[la] = "idle" /\ "workflows" \notin flags
    /\ gen' = IF info[la].on THEN gen ELSE [gen EXCEPT ![la] = @ + 1]
    /\ \E late \in BOOLEAN :
          /\ late => la \in SchedToClose /\ ~info[la].on
          /\ info' = IF info[la].on THEN info
                     ELSE [info EXCEPT ![la] = [on |-> TRUE, tt |-> gen[la] + 1, back |-> FALSE,
                                                s2c |-> la \in SchedToClose /\ ~late, stc |-> FALSE]]
          /\ queue' = IF info[la].on \/ late THEN queue ELSE Sent(queue, <<<<la, 1>>>>)
          /\ wf' = [wf EXCEPT ![la] = IF late THEN "done" ELSE "waiting"]
          /\ past' = [past EXCEPT !.reported = IF late THEN @ \cup {la} ELSE @ \ {la},
                                  !.ignored = IF info[la].on THEN @ \cup {la} ELSE @ \ {la}]
    /\ UNCHANGED <<outstanding, backoffs, stale, cancels, poll, free, held, flags,
                   waiter, notified>>

(* cancel_one_la: one that backs off is resolved at once, for any other a   *)
(* cancel is queued.                                                        *)
BackingOff(S) == {la \in S : info[la].on /\ info[la].back}
CancelLAs(S) ==
    LET queued == {la \in S : info[la].on} \ BackingOff(S)
    IN  /\ info' = [la \in LAs |-> IF la \in BackingOff(S) THEN [info[la] EXCEPT !.back = FALSE]
                                   ELSE info[la]]
        /\ backoffs' = {b \in backoffs : b[1] \notin BackingOff(S)}
        /\ cancels' = Sent(cancels, SetToSeq({<<"cancel", <<la, info[la].tt>>>> : la \in queued}))
        /\ UNCHANGED <<gen, outstanding, queue, stale, poll, free, held, flags, waiter, notified>>

(* LocalActRequest::Cancel, as the local activity machine asks for it. *)
Cancel(la) ==
    /\ wf[la] = "waiting" /\ "workflows" \notin flags
    /\ CancelLAs({la})
    /\ wf' = [wf EXCEPT ![la] = IF la \in BackingOff({la}) \/ la \notin WaitsForCancel
                                THEN "done" ELSE "cancelling"]
    /\ UNCHANGED past

(* LocalActRequest::CancelAllInRun when the run is evicted. *)
Evict ==
    /\ past.evictions < MaxEvictions /\ "workflows" \notin flags
    /\ \E la \in Evictable : wf[la] \notin {"idle", "never"}
    /\ CancelLAs(Evictable)
    /\ wf' = [la \in LAs |-> IF la \in Evictable /\ wf[la] # "never" THEN "idle" ELSE wf[la]]
    /\ past' = [past EXCEPT !.evictions = @ + 1]
-----------------------------------------------------------------------------
(* Tasks that sleep. *)
BackoffElapses(b) ==
    /\ b \in backoffs
    /\ backoffs' = backoffs \ {b}
    /\ queue' = Sent(queue, <<b>>)
    /\ UNCHANGED <<wf, info, gen, outstanding, stale, cancels, poll, free, held, flags,
                   waiter, notified, past>>

TimerFires(la, type) ==
    /\ Len(cancels) < MaxBacklog
    /\ cancels' = Sent(cancels, <<<<"timeout", la, type>>>>)
    /\ UNCHANGED <<wf, gen, outstanding, queue, backoffs, poll, free, held, flags,
                   waiter, notified, past>>

SchedToCloseFires(la) ==
    /\ info[la].s2c
    /\ info' = [info EXCEPT ![la].s2c = FALSE]
    /\ TimerFires(la, "ScheduleToClose")
    /\ UNCHANGED stale

StartToCloseFires(la) ==
    /\ info[la].stc
    /\ info' = [info EXCEPT ![la].stc = FALSE]
    /\ TimerFires(la, "StartToClose")
    /\ UNCHANGED stale

StaleStartToCloseFires(la) ==
    /\ stale[la] > 0
    /\ stale' = [stale EXCEPT ![la] = @ - 1]
    /\ TimerFires(la, "StartToClose")
    /\ UNCHANGED info
-----------------------------------------------------------------------------
(* should_retry, as far as it decides whether: the interval is any. *)
ShouldRetry(la, attempt) == attempt < MaxAttempts[la]

(* complete: of what is outstanding.  The permit is dropped with it.  The   *)
(* outcome is JustReport or FailurePath.                                    *)
JustReport(result) == result \in {"Completed", "Cancelled", "ScheduleToClose"}

\* Mutant: only an activity that is not retried gives its slot back.
Mut_Freed(retry) == IF retry THEN 0 ELSE 1

Freed(retry) == 1

\* Mutant: a completion wakes nobody.
Mut_Wakes(result) == FALSE

(* complete_notify.notify_one *)
Wakes(result) == JustReport(result)

Reports(retry) == ~retry

Removed(t, result, retry) ==
    LET la == t[1][1]
        out == outstanding \ {t}
    IN  /\ outstanding' = out
        /\ free' = free + Freed(retry)
        /\ flags' = IF "workflows" \in flags THEN CompleteIfReady(flags, out) ELSE flags
        /\ notified' = (notified \/ Wakes(result))
        /\ gen' = IF retry THEN [gen EXCEPT ![la] = @ + 1] ELSE gen
        /\ info' = [info EXCEPT ![la] = IF retry THEN [@ EXCEPT !.on = TRUE, !.tt = gen[la] + 1, !.back = TRUE]
                                        ELSE NoInfo]
        /\ backoffs' = IF retry THEN backoffs \cup {<<la, t[2] + 1>>} ELSE backoffs
        /\ wf' = IF Reports(retry) THEN Resolve({la}) ELSE wf
        /\ past' = [past EXCEPT !.reported = IF Reports(retry) THEN @ \cup {la} ELSE @,
                                !.quiet = ~JustReport(result),
                                !.panics = @ \cup Panic(info[la].back, "should not have backoff task")]

(* A failure is retried by a backoff task, or, if the backoff is long, by   *)
(* lang, to whom it is reported.                                            *)
CompleteOutstanding(t, result) ==
    LET may == result \in {"Failed", "StartToClose"} /\ ShouldRetry(t[1][1], t[2])
    IN  \E retry \in {FALSE} \cup {may} : Removed(t, result, retry)

Complete(tt, result) ==
    \/ \E t \in outstanding : t[1] = tt /\ CompleteOutstanding(t, result)
    \/ /\ \A t \in outstanding : t[1] # tt
       /\ UNCHANGED <<outstanding, free, flags, notified, gen, info, backoffs, wf, past>>

(* complete_local_act: lang completes a task it was given.  A completion    *)
(* that comes late, for a token no longer outstanding, changes nothing.     *)
LangCompletes(t) ==
    /\ t \in outstanding
    /\ \E result \in {"Completed", "Cancelled", "Failed", "NonRetryable"} :
          CompleteOutstanding(t, result)
    /\ UNCHANGED <<queue, stale, cancels, poll, held, waiter>>
-----------------------------------------------------------------------------
(* activity_poll and next_pending.  The poll holds the lock of the stream   *)
(* until it has an activity in hand or is through with a cancel or timeout; *)
(* what it takes from the stream it handles before anybody else can tell,   *)
(* but for a timeout, which reads la_info and completes in two steps.       *)
PollUnchanged == UNCHANGED <<gen, backoffs, waiter, notified>>
StreamEnded == "complete" \in flags \/ waiter = "finished"
HoldsLock == poll # Idle

PollBegins ==
    /\ poll = Idle /\ "polled out" \notin flags
    /\ poll' = <<"in">>
    /\ UNCHANGED <<wf, info, outstanding, queue, stale, cancels, free, held, flags, past>>
    /\ PollUnchanged

(* The other half of the select answers first. *)
PollDropped ==
    /\ poll = <<"in">>
    /\ poll' = Idle
    /\ UNCHANGED <<wf, info, outstanding, queue, stale, cancels, free, held, flags, past>>
    /\ PollUnchanged

(* None from next_pending ends the polling once shutdown has begun. *)
AfterNone == IF "initiated" \in flags THEN flags \cup {"polled out"} ELSE flags

PollEnds ==
    /\ poll = <<"in">> /\ StreamEnded
    /\ poll' = Idle
    /\ flags' = AfterNone
    /\ UNCHANGED <<wf, info, outstanding, queue, stale, cancels, free, held, past>>
    /\ PollUnchanged

\* Mutant: one slot is never given out.
Mut_AcquirePermit ==
    /\ poll = <<"in">> /\ ~StreamEnded
    /\ held = 0 /\ free > 1
    /\ held' = 1 /\ free' = free - 1
    /\ UNCHANGED <<wf, info, outstanding, queue, stale, cancels, poll, flags, past>>
    /\ PollUnchanged

(* The zip of requests and permits takes a permit ahead of a request. *)
AcquirePermit ==
    /\ poll = <<"in">> /\ ~StreamEnded
    /\ held = 0 /\ free > 0
    /\ held' = 1 /\ free' = free - 1
    /\ UNCHANGED <<wf, info, outstanding, queue, stale, cancels, poll, flags, past>>
    /\ PollUnchanged

(* A cancel goes to lang, unless its task is not outstanding. *)
TakeCancel ==
    /\ poll = <<"in">> /\ ~StreamEnded
    /\ cancels # <<>> /\ Head(cancels)[1] = "cancel"
    /\ cancels' = Tail(cancels)
    /\ poll' = Idle
    /\ flags' = IF \E t \in outstanding : t[1] = Head(cancels)[2] THEN flags ELSE AfterNone
    /\ UNCHANGED <<wf, info, outstanding, queue, stale, free, held, past>>
    /\ PollUnchanged

(* A timeout looks for the token of its activity, *)
TakeTimeout ==
    /\ poll = <<"in">> /\ ~StreamEnded
    /\ cancels # <<>> /\ Head(cancels)[1] = "timeout"
    /\ cancels' = Tail(cancels)
    /\ LET la == Head(cancels)[2]
       IN  IF info[la].on
           THEN poll' = <<"timedout", <<la, info[la].tt>>, Head(cancels)[3]>> /\ UNCHANGED flags
           ELSE poll' = Idle /\ flags' = AfterNone
    /\ UNCHANGED <<wf, info, outstanding, queue, stale, free, held, past>>
    /\ PollUnchanged

(* and completes it. *)
HandleTimeout ==
    /\ poll[1] = "timedout"
    /\ poll' = Idle
    /\ Complete(poll[2], poll[3])
    /\ UNCHANGED <<queue, stale, cancels, held, waiter>>

(* An activity that sat in the queue for too long is timed out, any other   *)
(* goes to lang with the permit.                                            *)
SatTooLong(la) ==
    /\ info' = [info EXCEPT ![la].back = FALSE]
    /\ wf' = Resolve({la})
    /\ past' = [past EXCEPT !.reported = @ \cup {la}]
    /\ free' = free + 1
    /\ UNCHANGED <<outstanding, stale>>

Dispatch(la, attempt) ==
    /\ info' = [info EXCEPT ![la].back = FALSE, ![la].stc = la \in StartToClose]
    /\ stale' = [stale EXCEPT ![la] = IF info[la].stc THEN @ + 1 ELSE @]
    /\ outstanding' = outstanding \cup {<<<<la, info[la].tt>>, attempt>>}
    /\ past' = [past EXCEPT !.panics = @ \cup Panic(~info[la].on, "Activity must exist")]
    /\ UNCHANGED <<wf, free>>

TakeNew ==
    /\ poll = <<"in">> /\ ~StreamEnded
    /\ queue # <<>> /\ held = 1
    /\ poll' = Idle
    /\ queue' = Tail(queue)
    /\ held' = 0
    /\ LET la == Head(queue)[1]
       IN  \/ la \in SchedToStart /\ SatTooLong(la)
           \/ Dispatch(la, Head(queue)[2])
    /\ UNCHANGED <<gen, backoffs, cancels, flags, waiter, notified>>
-----------------------------------------------------------------------------
(* Shutdown. *)
InitiateShutdown ==
    /\ "initiated" \notin flags
    /\ flags' = CompleteIfReady(flags \cup {"initiated"}, outstanding)
    /\ UNCHANGED <<wf, manager, stale, poll, free, held, waiter, notified, past>>

(* workflows_have_shutdown: the stream of workflow inputs has ended.  Runs  *)
(* may still wait for activities: one between two heartbeating tasks has no *)
(* task, and one that only waits for its eviction does not hold it up.      *)
WorkflowsHaveShutdown ==
    /\ "initiated" \in flags /\ "workflows" \notin flags
    /\ flags' = CompleteIfReady(flags \cup {"workflows"}, outstanding)
    /\ UNCHANGED <<wf, manager, stale, poll, free, held, waiter, notified, past>>

(* wait_all_outstanding_tasks_finished: look, *)
WaitAll ==
    /\ \/ waiter = "none" /\ "initiated" \in flags
       \/ waiter = "look"
    /\ flags' = CompleteIfReady(flags, outstanding)
    /\ waiter' = IF outstanding = {} THEN "lock" ELSE "asleep"
    /\ UNCHANGED <<wf, manager, stale, poll, free, held, notified, past>>

(* sleep until a completion, *)
WaiterWakes ==
    /\ waiter = "asleep" /\ notified
    /\ notified' = FALSE
    /\ waiter' = "look"
    /\ UNCHANGED <<wf, manager, stale, poll, free, held, flags, past>>

(* and drop the stream with what is in it. *)
DropStream ==
    /\ waiter = "lock" /\ ~HoldsLock
    /\ waiter' = "finished"
    /\ queue' = <<>> /\ cancels' = <<>>
    /\ held' = 0 /\ free' = free + held
    /\ UNCHANGED <<wf, info, gen, outstanding, backoffs, stale, poll, flags, notified, past>>

PollNext ==
    \/ PollBegins \/ PollDropped \/ PollEnds \/ AcquirePermit
    \/ TakeCancel \/ TakeTimeout \/ HandleTimeout \/ TakeNew

Next ==
    \/ \E la \in LAs : Request(la) \/ Cancel(la) \/ SchedToCloseFires(la)
                       \/ StartToCloseFires(la) \/ StaleStartToCloseFires(la)
    \/ Evict
    \/ \E b \in backoffs : BackoffElapses(b)
    \/ \E t \in outstanding : LangCompletes(t)
    \/ PollNext
    \/ InitiateShutdown \/ WorkflowsHaveShutdown \/ WaitAll \/ WaiterWakes \/ DropStream

Spec == Init /\ [][Next]_vars

(***************************************************************************)
(* Fairness: lang completes what it was given and goes on polling, backoffs *)
(* elapse, tasks of the runtime run.  A poll that is dropped leaves what    *)
(* the stream has ready for the next one, and the select is biased: it      *)
(* takes local work, or the end of it, first, hence SF of taking it.        *)
(* Timers need not fire.                                                    *)
(***************************************************************************)
Fairness ==
    /\ \A la \in LAs : /\ WF_vars(\E t \in outstanding : t[1][1] = la /\ LangCompletes(t))
                       /\ WF_vars(\E b \in backoffs : b[1] = la /\ BackoffElapses(b))
    /\ WF_vars(PollBegins) /\ WF_vars(HandleTimeout)
    /\ SF_vars(AcquirePermit) /\ SF_vars(TakeNew) /\ SF_vars(PollEnds)
    /\ WF_vars(WaitAll) /\ WF_vars(WaiterWakes)

FairSpec == Spec /\ Fairness
-----------------------------------------------------------------------------
(* The type of the state. *)
TypeOK ==
    /\ wf \in [LAs -> {"never", "idle", "waiting", "cancelling", "done"}]
    /\ info \in [LAs -> [on : BOOLEAN, tt : Nat, back : BOOLEAN, s2c : BOOLEAN, stc : BOOLEAN]]
    /\ gen \in [LAs -> Nat] /\ stale \in [LAs -> Nat]
    /\ \A t \in outstanding : t[1][1] \in LAs /\ t[2] \in 1 .. MaxAttempts[t[1][1]]
    /\ \A b \in backoffs \cup Range(queue) : b[1] \in LAs /\ b[2] \in 1 .. MaxAttempts[b[1]]
    /\ poll[1] \in {"out", "in", "timedout"}
    /\ free \in 0 .. Permits /\ held \in 0 .. 1
    /\ flags \subseteq {"initiated", "workflows", "complete", "polled out"}
    /\ waiter \in {"none", "look", "asleep", "lock", "finished"}
    /\ notified \in BOOLEAN

(* No path through the stream, the completions, the timeouts and the        *)
(* shutdown loses a slot or gives one back twice: every slot is free, waits *)
(* in the stream or is with one activity that is outstanding.               *)
PermitsConserved ==
    /\ TypeOK
    /\ free + held + Cardinality(outstanding) = Permits

(* The copies of an activity: queued, backing off or outstanding. *)
Copies(la) ==
    Cardinality({i \in DOMAIN queue : queue[i][1] = la})
    + Cardinality({b \in backoffs : b[1] = la})
    + Cardinality({t \in outstanding : t[1][1] = la})

(* "Prevents two identical LAs ending up in the queue at once", also when   *)
(* the run is evicted, replayed and requests them again, or cancels one     *)
(* whose backoff has just elapsed.                                          *)
OneCopy == \A la \in LAs : Copies(la) <= 1

(* An activity the run waits for is somewhere in the manager, unless the    *)
(* request was taken for one of an activity still executing and ignored, as *)
(* happens after an eviction (such a request may find nothing but an entry  *)
(* left behind, and is then lost: past.ignored says so, and nothing is      *)
(* claimed of it).  A failed try, a timeout of an earlier try, or a cancel, *)
(* never makes one vanish.                                                  *)
NoneLost ==
    \A la \in LAs : Waiting(la) /\ waiter # "finished" => Copies(la) = 1 \/ la \in past.ignored

(* What lang runs is what la_info says: a completion under the token of an  *)
(* outstanding task finds its entry, with no backoff on the way, and what   *)
(* is taken from the queue is known (the assertions of complete and         *)
(* next_pending).                                                           *)
EntryAgrees ==
    /\ \A t \in outstanding : info[t[1][1]].on /\ info[t[1][1]].tt = t[1][2]
    /\ past.panics = {}

(* An activity is executed or reported, not both: once its result went to   *)
(* the run nothing of it is left to dispatch or at lang, unless it was      *)
(* cancelled while it backed off.                                           *)
NothingAfterReport == \A la \in past.reported : Copies(la) = 0

(* Through retries, backoffs, timeouts, cancels, evictions and shutdown an  *)
(* activity exists once while it is wanted and not at all once reported.    *)
ExecutedOnce == OneCopy /\ NoneLost /\ EntryAgrees /\ NothingAfterReport

(* An activity a run waits for is resolved, however often it fails, times   *)
(* out or the poll is dropped -- but for the ways the code has to lose      *)
(* sight of it: the request is ignored because an entry was left behind by  *)
(* an earlier one; local polling is over, because the stream of workflow    *)
(* inputs ended while nothing was outstanding, or because the poll took a   *)
(* None for a stale cancel or timeout during shutdown to be the end; or     *)
(* shutdown() drops the stream.                                             *)
EveryRequestResolved ==
    \A la \in LAs :
        Waiting(la) ~> \/ ~Waiting(la) \/ la \in past.ignored
                       \/ "polled out" \in flags \/ waiter = "finished"

(* The shutdown that waits for what is outstanding is woken when the last   *)
(* of it ends, unless that one failed or is retried (only JustReport        *)
(* notifies).                                                               *)
WaitEnds ==
    waiter = "asleep" ~> waiter # "asleep" \/ (outstanding = {} /\ past.quiet /\ ~notified)
=============================================================================
