-------------------------- MODULE HeartbeatManager --------------------------
(***************************************************************************)
(* ActivityHeartbeatManager (activity_heartbeat_manager.rs): it throttles  *)
(* the heartbeats of activities, reports the latest details to the server  *)
(* and, when an activity is done, flushes what is left (evict).            *)
(*                                                                         *)
(* One loop takes messages from a channel and changes the state; what it   *)
(* returns runs concurrently: reports to the server and throttle sleeps,   *)
(* which send a message back when they end.  Callers record heartbeats     *)
(* while their activity is outstanding and evict it once.  The n-th        *)
(* heartbeat of an activity carries the details n.  Time is left out: a    *)
(* sleep may end at any moment.                                            *)
(***************************************************************************)
EXTENDS Naturals, Sequences, FiniteSets

CONSTANTS
  Tokens,     \* task tokens of the activities
  MaxBeats    \* bound on the heartbeats of one activity

ASSUME HeartbeatAssumption == MaxBeats \in Nat

VARIABLES
  activity,        \* per token: "running", "evicting" (awaits evict) or "evicted"
  beats,           \* per token: heartbeats recorded so far
  incoming_hbs,    \* the channel
  tt_to_state,     \* the tracked tokens, see States
  tt_needs_flush,  \* tokens whose evict waits for a report to end
  reports,         \* reports to the server in flight
  sleeps,          \* throttle sleeps that are running
  loop,            \* "running", "stopped" (shutdown_token) or "joined"
  answered,        \* per token: the details whose report has ended
  cancels          \* tokens for which the server's answer asks to cancel

vars == <<activity, beats, incoming_hbs, tt_to_state, tt_needs_flush, reports, sleeps,
          loop, answered, cancels>>

\* ActivityHeartbeatState: last_recorded_details (0: none), is_record_in_flight.
States == [tracked : BOOLEAN, last : 0..MaxBeats, in_flight : BOOLEAN]
Untracked == [tracked |-> FALSE, last |-> 0, in_flight |-> FALSE]
Reporting == [tracked |-> TRUE, last |-> 0, in_flight |-> TRUE]

Reports == [tt : Tokens, details : 1..MaxBeats]
Messages == [type : {"SendHeartbeat"}, tt : Tokens, details : 1..MaxBeats]
            \cup [type : {"Evict", "CompleteReport", "CompleteThrottle"}, tt : Tokens]

IsTracked(tt) == tt_to_state[tt].tracked

Init ==
  /\ activity = [tt \in Tokens |-> "running"]
  /\ beats = [tt \in Tokens |-> 0]
  /\ incoming_hbs = <<>>
  /\ tt_to_state = [tt \in Tokens |-> Untracked]
  /\ tt_needs_flush = {}
  /\ reports = {}
  /\ sleeps = {}
  /\ loop = "running"
  /\ answered = [tt \in Tokens |-> {}]
  /\ cancels = {}

----------------------------------------------------------------------------
(* Callers.                                                                *)

Send(msg) == incoming_hbs' = IF loop = "running" THEN Append(incoming_hbs, msg) ELSE incoming_hbs

\* record: the caller holds the activity's entry, so it is still outstanding.
RecordHeartbeat(tt) ==
  /\ activity[tt] = "running"
  /\ beats[tt] < MaxBeats
  /\ beats' = [beats EXCEPT ![tt] = @ + 1]
  /\ Send([type |-> "SendHeartbeat", tt |-> tt, details |-> beats[tt] + 1])
  /\ UNCHANGED <<activity, tt_to_state, tt_needs_flush, reports, sleeps, loop, answered, cancels>>

\* evict: sends its message and awaits the notification.
EvictCall(tt) ==
  /\ activity[tt] = "running"
  /\ activity' = [activity EXCEPT ![tt] = "evicting"]
  /\ Send([type |-> "Evict", tt |-> tt])
  /\ UNCHANGED <<beats, tt_to_state, tt_needs_flush, reports, sleeps, loop, answered, cancels>>

----------------------------------------------------------------------------
(* The loop: one message at a time.                                        *)

Take(type) ==
  /\ loop = "running"
  /\ incoming_hbs # <<>>
  /\ Head(incoming_hbs).type = type
  /\ incoming_hbs' = Tail(incoming_hbs)

Notified(tt) == activity' = [activity EXCEPT ![tt] = "evicted"]

\* Mutant: every heartbeat is reported at once.
Mut_NoThrottle ==
  LET m == Head(incoming_hbs) IN
  /\ Take("SendHeartbeat")
  /\ tt_to_state' = [tt_to_state EXCEPT ![m.tt] = Reporting]
  /\ reports' = reports \cup {[tt |-> m.tt, details |-> m.details]}
  /\ UNCHANGED <<activity, beats, tt_needs_flush, sleeps, loop, answered, cancels>>

\* A first heartbeat is reported at once, a later one is kept.
Record ==
  LET m == Head(incoming_hbs) IN
  /\ Take("SendHeartbeat")
  /\ \/ /\ ~IsTracked(m.tt)
        /\ tt_to_state' = [tt_to_state EXCEPT ![m.tt] = Reporting]
        /\ reports' = reports \cup {[tt |-> m.tt, details |-> m.details]}
     \/ /\ IsTracked(m.tt)
        /\ tt_to_state' = [tt_to_state EXCEPT ![m.tt].last = m.details]
        /\ UNCHANGED reports
  /\ UNCHANGED <<activity, beats, tt_needs_flush, sleeps, loop, answered, cancels>>

\* Mutant: no throttle sleep follows a report.
Mut_NoThrottleSleep ==
  LET tt == Head(incoming_hbs).tt IN
  /\ Take("CompleteReport")
  /\ IF tt \in tt_needs_flush THEN Notified(tt) ELSE UNCHANGED activity
  /\ tt_needs_flush' = tt_needs_flush \ {tt}
  /\ tt_to_state' = IF IsTracked(tt) THEN [tt_to_state EXCEPT ![tt].in_flight = FALSE] ELSE tt_to_state
  /\ UNCHANGED <<sleeps, beats, reports, loop, answered, cancels>>

HandleReportCompleted ==
  LET tt == Head(incoming_hbs).tt IN
  /\ Take("CompleteReport")
  /\ IF tt \in tt_needs_flush THEN Notified(tt) ELSE UNCHANGED activity
  /\ tt_needs_flush' = tt_needs_flush \ {tt}
  /\ \/ /\ IsTracked(tt)
        /\ tt_to_state' = [tt_to_state EXCEPT ![tt].in_flight = FALSE]
        /\ sleeps' = sleeps \cup {tt}
     \/ ~IsTracked(tt) /\ UNCHANGED <<tt_to_state, sleeps>>
  /\ UNCHANGED <<beats, reports, loop, answered, cancels>>

\* Mutant: the token is forgotten although details are waiting.
Mut_ForgetAfterThrottle ==
  LET tt == Head(incoming_hbs).tt IN
  /\ Take("CompleteThrottle")
  /\ tt_to_state' = [tt_to_state EXCEPT ![tt] = Untracked]
  /\ UNCHANGED <<activity, beats, tt_needs_flush, reports, sleeps, loop, answered, cancels>>

\* The throttle interval is over: report what was kept, or forget the token.
HandleThrottleCompleted ==
  LET tt == Head(incoming_hbs).tt
      last == tt_to_state[tt].last IN
  /\ Take("CompleteThrottle")
  /\ \/ /\ IsTracked(tt) /\ last # 0
        /\ tt_to_state' = [tt_to_state EXCEPT ![tt] = Reporting]
        /\ reports' = reports \cup {[tt |-> tt, details |-> last]}
     \/ /\ ~(IsTracked(tt) /\ last # 0)
        /\ tt_to_state' = [tt_to_state EXCEPT ![tt] = Untracked]
        /\ UNCHANGED reports
  /\ UNCHANGED <<activity, beats, tt_needs_flush, sleeps, loop, answered, cancels>>

\* Mutant: an evict that finds a report in flight is not remembered.
Mut_EvictForgetsFlush ==
  LET tt == Head(incoming_hbs).tt
      last == tt_to_state[tt].last IN
  /\ Take("Evict")
  /\ tt_to_state' = [tt_to_state EXCEPT ![tt] = Untracked]
  /\ sleeps' = sleeps \ {tt}
  /\ \/ /\ IsTracked(tt) /\ last # 0
        /\ reports' = reports \cup {[tt |-> tt, details |-> last]}
        /\ UNCHANGED activity
     \/ /\ ~(IsTracked(tt) /\ last # 0)
        /\ Notified(tt)
        /\ UNCHANGED reports
  /\ UNCHANGED <<beats, tt_needs_flush, loop, answered, cancels>>

\* Evict: stop the sleep, flush what was kept, or wait for the report in
\* flight, or be done at once.
Evict ==
  LET tt == Head(incoming_hbs).tt
      st == tt_to_state[tt] IN
  /\ Take("Evict")
  /\ tt_to_state' = [tt_to_state EXCEPT ![tt] = Untracked]
  /\ sleeps' = sleeps \ {tt}
  /\ \/ /\ IsTracked(tt) /\ st.last # 0
        /\ reports' = reports \cup {[tt |-> tt, details |-> st.last]}
        /\ tt_needs_flush' = tt_needs_flush \cup {tt}
        /\ UNCHANGED activity
     \/ /\ IsTracked(tt) /\ st.last = 0 /\ st.in_flight
        /\ tt_needs_flush' = tt_needs_flush \cup {tt}
        /\ UNCHANGED <<activity, reports>>
     \/ /\ ~IsTracked(tt) \/ (st.last = 0 /\ ~st.in_flight)
        /\ Notified(tt)
        /\ UNCHANGED <<tt_needs_flush, reports>>
  /\ UNCHANGED <<beats, loop, answered, cancels>>

----------------------------------------------------------------------------
(* What the loop has started.                                              *)

\* A report ends.  The answer may ask to cancel, pause or reset the activity or
\* say that it is not found: each sends a cancel.  Another error sends none.
ReportEnds(r) ==
  /\ reports' = reports \ {r}
  /\ Send([type |-> "CompleteReport", tt |-> r.tt])
  /\ answered' = [answered EXCEPT ![r.tt] = @ \cup {r.details}]
  /\ cancels' \in {cancels, cancels \cup {r.tt}}
  /\ UNCHANGED <<activity, beats, tt_to_state, tt_needs_flush, sleeps, loop>>

SleepEnds(tt) ==
  /\ tt \in sleeps
  /\ sleeps' = sleeps \ {tt}
  /\ Send([type |-> "CompleteThrottle", tt |-> tt])
  /\ UNCHANGED <<activity, beats, tt_to_state, tt_needs_flush, reports, loop, answered, cancels>>

\* shutdown: the loop ends at its next turn, whatever is in the channel; the
\* sleeps hold child tokens; reports go on and are awaited.
ShutDown ==
  /\ loop = "running"
  /\ loop' = "stopped"
  /\ sleeps' = {}
  /\ incoming_hbs' = <<>>
  /\ UNCHANGED <<activity, beats, tt_to_state, tt_needs_flush, reports, answered, cancels>>

Joined ==
  /\ loop = "stopped"
  /\ reports = {}
  /\ loop' = "joined"
  /\ UNCHANGED <<activity, beats, incoming_hbs, tt_to_state, tt_needs_flush, reports, sleeps,
                 answered, cancels>>

----------------------------------------------------------------------------
LoopStep == Record \/ HandleReportCompleted \/ HandleThrottleCompleted \/ Evict

Next ==
  \/ \E tt \in Tokens : RecordHeartbeat(tt) \/ EvictCall(tt) \/ SleepEnds(tt)
  \/ LoopStep
  \/ \E r \in reports : ReportEnds(r)
  \/ ShutDown \/ Joined

Spec == Init /\ [][Next]_vars

(***************************************************************************)
(* Fairness: the loop task runs, an RPC ends (it has a deadline), a sleep  *)
(* ends.                                                                   *)
(***************************************************************************)
Fairness ==
  /\ WF_vars(LoopStep)
  /\ WF_vars(\E r \in reports : ReportEnds(r))
  /\ \A tt \in Tokens : WF_vars(SleepEnds(tt))

FairSpec == Spec /\ Fairness

----------------------------------------------------------------------------
(* Properties.                                                             *)

TypeOK ==
  /\ activity \in [Tokens -> {"running", "evicting", "evicted"}]
  /\ beats \in [Tokens -> 0..MaxBeats]
  /\ incoming_hbs \in Seq(Messages)
  /\ tt_to_state \in [Tokens -> States]
  /\ tt_needs_flush \subseteq Tokens
  /\ reports \subseteq Reports
  /\ sleeps \subseteq Tokens
  /\ loop \in {"running", "stopped", "joined"}
  /\ answered \in [Tokens -> SUBSET (1..MaxBeats)]
  /\ cancels \subseteq Tokens

InFlight(tt) == {r \in reports : r.tt = tt}
Queued(type, tt) == {i \in DOMAIN incoming_hbs : incoming_hbs[i].type = type /\ incoming_hbs[i].tt = tt}

\* The manager throttles: while its activity runs a token has at most one report
\* in flight, and the flush of an evict adds at most one more.
OneReportAtATime ==
  \A tt \in Tokens :
    Cardinality(InFlight(tt)) <= (IF activity[tt] = "running" THEN 1 ELSE 2)

\* A tracked token always has exactly one thing that will wake the loop for it: a
\* report or its completion, a sleep or its completion.  With none the details
\* kept for it would never be sent; with two it would be reported too often.
TrackedHasOneWaker ==
  loop = "running" =>
    \A tt \in Tokens : IsTracked(tt) =>
      Cardinality(InFlight(tt)) + Cardinality(Queued("CompleteReport", tt))
        + Cardinality(sleeps \cap {tt}) + Cardinality(Queued("CompleteThrottle", tt)) = 1

\* While the activity runs, the server is never told of older details than it
\* already answered: throttled details replace each other in order.  Nothing is
\* said of the end: evict() sends what is kept beside a report in flight, and
\* the server may answer the two in either order.
InOrderWhileRunning ==
  [][\A tt \in Tokens : activity[tt] = "running" =>
       \A old \in answered[tt], new \in answered'[tt] \ answered[tt] : old < new]_vars

\* After evict has returned nothing is kept for the token, the leak that the
\* comment of record() warns of.
EvictedIsForgotten ==
  \A tt \in Tokens : activity[tt] = "evicted" =>
    ~IsTracked(tt) /\ tt \notin tt_needs_flush /\ tt \notin sleeps

\* What the manager keeps for a token and what is under way for it agree.
TokensConsistent == TypeOK /\ OneReportAtATime /\ TrackedHasOneWaker /\ EvictedIsForgotten

\* As long as the manager is not shut down, evict() returns: complete() of every
\* activity awaits it before it reports the result.
EvictReturns ==
  \A tt \in Tokens :
    activity[tt] = "evicting" ~> (activity[tt] = "evicted" \/ loop # "running")

\* As long as the manager is not shut down, the details of a heartbeat are
\* reported unless a later heartbeat replaces them; also when the activity ends.
LatestIsReported ==
  \A tt \in Tokens : \A n \in 1..MaxBeats :
    (beats[tt] = n) ~> (n \in answered[tt] \/ beats[tt] > n \/ loop # "running")
=============================================================================
