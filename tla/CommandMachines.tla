-------------------------- MODULE CommandMachines --------------------------
(***************************************************************************)
(* The machines of MachineTables, driven as workflow_machines.rs does it:  *)
(* lang's commands create and cancel machines, prepared commands are sent  *)
(* with the workflow task and matched, in order, with the command events   *)
(* that come back, other events find their machine by its first event, and *)
(* the machines' responses become jobs for lang and new commands.          *)
(*                                                                         *)
(* The worker may lose the run at any moment and replay its history.  Lang *)
(* is deterministic: on replay it repeats what the script says it did.     *)
(* The server is external: it turns commands into events, lets operations  *)
(* proceed, and keeps back what happens while a workflow task is open      *)
(* until that task is completed.                                           *)
(*                                                                         *)
(* Payloads, names and event ids are left out: they take part only in      *)
(* checks that a deterministic workflow passes.                            *)
(***************************************************************************)
EXTENDS Integers, FiniteSets, SequencesExt, MachineTables

CONSTANTS Ops,        \* operations the workflow may start
          Casts,      \* what some of them are: <<kind, cancellation type, cancels at most>>
          MaxDoes,    \* bound: commands of lang in one activation
          MaxCancels, \* bound: cancels of one operation
          MaxWfts,    \* bound: workflow tasks the server starts
          MaxSignals, \* bound: signals sent to the workflow
          MaxEvictions

ASSUME CommandMachinesAssumption ==
    /\ IsFiniteSet(Ops)
    /\ \A c \in Casts : /\ DOMAIN c \subseteq Ops
                        /\ \A op \in DOMAIN c : c[op] \in Kinds \X CancelTypes \X (0 .. MaxCancels)
    /\ MaxDoes \in Nat /\ MaxCancels \in Nat /\ MaxWfts \in Nat /\ MaxSignals \in Nat /\ MaxEvictions \in Nat

VARIABLES
    cast,     \* what the operations are
    w,        \* the machines, their commands and the jobs for lang
    act,      \* the activation lang has: a set of at most one sequence of jobs
    pos,      \* last_processed_event: how much of the history has been applied
    n,        \* activations lang has completed since the run was created
    script,   \* every activation lang saw and what it did then
    kept,     \* how many of them belong to completed workflow tasks
    hist,     \* the history
    buf,      \* server: events kept back while a workflow task is open
    evictions

vars == <<cast, w, act, pos, n, script, kept, hist, buf, evictions>>
-----------------------------------------------------------------------------
(* Machine keys: 0 is the operation's main machine, the others are those    *)
(* the core creates to cancel a child, one for each cancel.  WF is the      *)
(* workflow itself.                                                         *)
Main(op) == <<op, 0>>
Exts(op) == {<<op, i>> : i \in 1 .. MaxCancels}
WF == <<"-", 0>>
Keys == (DOMAIN cast) \X (0 .. MaxCancels)

Kind(k) == IF k[2] > 0 THEN "cancelext" ELSE cast[k[1]][1]
Type(k) == cast[k[1]][2]

(* Cancelling what has started leads to one of two states. *)
Taken(k, mach, row) ==
    mach.st = "Started" /\ row[2] = "Cancel" /\ Kind(k) \in {"child", "nexus"}
        => row[3] = (IF ResolvesNow(Type(k)) /\ ~mach.sent THEN "Cancelled" ELSE "Started")

Created == {"StartCommandCreated", "ScheduleCommandCreated", "SignalExternalCommandCreated"}

After(k, mach, row) ==
    [st |-> row[3],
     pre |-> mach.pre \/ (row[2] \in {"Cancel", "Abandon"} /\ mach.st \in Created),
     seen |-> mach.seen \/ (Kind(k) = "child" /\ row[2] = "Canceled"),
     sent |-> mach.sent \/ (Kind(k) = "nexus" /\ row[2] = "Cancel" /\ mach.st \notin Created)]

NoMachine == [st |-> "none", pre |-> FALSE, seen |-> FALSE, sent |-> FALSE]

NewMachine(k) == [NoMachine EXCEPT !.st = FirstState[Kind(k)]]
-----------------------------------------------------------------------------
(* add_cmd_to_wf_task *)
AddCmd(x, k) == [x EXCEPT !.m[k] = NewMachine(k), !.cur = Append(@, <<k, "CommandStart">>)]

(* process_machine_responses, one response: jobs of core-created machines   *)
(* stay inside.                                                             *)
ProcessResponse(x, k, r) ==
    CASE r[1] = "job" -> IF k[2] > 0 THEN x
                         ELSE [x EXCEPT !.jobs = Append(@, <<k[1], r[2]>>)]
      [] r[1] = "command" -> [x EXCEPT !.cur = Append(@, <<k, "CommandCancel">>)]
      [] r[1] = "external" ->
            LET free == {e \in Exts(k[1]) : x.m[e].st = "none"}
            IN  AddCmd(x, CHOOSE e \in free : \A f \in free : e[2] <= f[2])

(* An error of a machine: what it was, and the state and event it came from *)
Fine == <<>>
Breaks(x, k, e) ==
    [x EXCEPT !.broken = <<Kind(k), Type(k), x.m[k].st, e>>]

(* A machine handles an event, a command or a cancel. *)
Handle(x, k, e) ==
    LET mach == x.m[k]
        rows == {t \in Fsm[Kind(k)] : t[1] = mach.st /\ t[2] = e /\ Taken(k, mach, t)}
    IN  IF rows = {} \/ Refuses(Kind(k), mach, Type(k), e) THEN Breaks(x, k, e)
        ELSE LET row == CHOOSE t \in rows : TRUE
                 outs == Output(Kind(k), mach, Type(k), e)
                 responses == FlattenSeq([i \in DOMAIN outs |->
                                              AdaptResponse(Kind(k), Type(k), outs[i])])
             IN  FoldLeft(LAMBDA y, r : ProcessResponse(y, k, r),
                          [x EXCEPT !.m[k] = After(k, mach, row)], responses)

(* handle_event of a machine: it must know the event. *)
MachineEvent(x, k, e) ==
    IF e \in HistoryEvents(Kind(k)) THEN Handle(x, k, e)
    ELSE Breaks(x, k, e)

(* cancel_machine! *)
Cancel(x, op) ==
    LET k == Main(op)
        events == IF Kind(k) = "activity" THEN ActivityCancel(x.m[k].st, Type(k)) ELSE {"Cancel"}
    IN  IF events = {} THEN x ELSE Handle(x, k, CHOOSE e \in events : TRUE)

Unless(x, y) == IF x.broken # Fine THEN x ELSE y

(* handle_driven_results *)
HandleDrivenResults(x, does) ==
    FoldLeft(LAMBDA y, d : Unless(y, IF d[1] = "start" THEN AddCmd(y, Main(d[2])) ELSE Cancel(y, d[2])),
             x, does)

\* Mutant: commands cancelled after they were prepared stay in the list.
Mut_PrepareCommands(x) ==
    LET Sent(y, c) == ~y.m[c[1]].pre
        Prepare(y, c) == Unless(y, IF ~Sent(y, c) THEN y
                                   ELSE LET z == Handle(y, c[1], c[2])
                                        IN  [z EXCEPT !.cmds = Append(@, c)])
    IN  FoldLeft(Prepare, [x EXCEPT !.cur = <<>>], x.cur)

(* prepare_commands: commands cancelled since they were prepared go out of  *)
(* the list, the others are handed to their machines and join it.           *)
PrepareCommands(x) ==
    LET Sent(y, c) == ~y.m[c[1]].pre
        before == SelectSeq(x.cmds, LAMBDA c : Sent(x, c))
        Prepare(y, c) == Unless(y, IF ~Sent(y, c) THEN y
                                   ELSE LET z == Handle(y, c[1], c[2])
                                        IN  [z EXCEPT !.cmds = Append(@, c)])
    IN  FoldLeft(Prepare, [x EXCEPT !.cmds = before, !.cur = <<>>], x.cur)

(* handle_command_event: the event belongs to the first command that was    *)
(* not cancelled before it was sent.                                        *)
HandleCommandEvent(x, k, e) ==
    LET live == {i \in DOMAIN x.cmds : ~x.m[x.cmds[i][1]].pre}
        Mismatch(y) == [y EXCEPT !.broken = <<"mismatch", Kind(k), e>>]
    IN  IF live = {} THEN Mismatch([x EXCEPT !.cmds = <<>>])
        ELSE LET i == CHOOSE i \in live : \A j \in live : i <= j
                 y == [x EXCEPT !.cmds = SubSeq(@, i + 1, Len(@))]
                 head == x.cmds[i][1]
             IN  IF Kind(head) # Kind(k) THEN Mismatch(y)
                 ELSE MachineEvent(y, head, e)

CommandEvents == {"Recorded", "CancelRecorded"}

(* handle_non_stateful_event: events of the workflow become jobs, except    *)
(* those of workflow tasks.                                                 *)
WorkflowJob(x, e) ==
    IF e \in {"TaskStarted", "TaskCompleted"} THEN x
    ELSE [x EXCEPT !.jobs = Append(@, <<"-", e>>)]

HandleEvent(x, ev) ==
    LET k == ev[1]
        e == ev[2]
    IN  CASE k = WF -> WorkflowJob(x, e)
          [] k # WF /\ e \in CommandEvents -> HandleCommandEvent(x, k, e)
          [] k # WF /\ e \notin CommandEvents -> MachineEvent(x, k, e)

ApplyEvents(x, events) == FoldLeft(LAMBDA y, ev : Unless(y, HandleEvent(y, ev)), x, events)
-----------------------------------------------------------------------------
NewRun == [m |-> [k \in Keys |-> NoMachine], cmds |-> <<>>, cur |-> <<>>, jobs |-> <<>>,
           broken |-> Fine]

TaskStarted == <<WF, "TaskStarted">>
TaskCompleted == <<WF, "TaskCompleted">>

Init ==
    /\ cast \in Casts
    /\ w = NewRun /\ act = {} /\ pos = 0 /\ n = 0
    /\ script = <<>> /\ kept = 0
    /\ hist = <<<<WF, "Start">>, TaskStarted>> /\ buf = <<>>
    /\ evictions = 0

TaskOpen == Last(hist) = TaskStarted
Closed == \E op \in DOMAIN cast : Kind(Main(op)) \in Ending /\ Contains(hist, <<Main(op), "Recorded">>)

(* get_wf_activation: what there is to tell goes to lang. *)
Activate(x) ==
    /\ w' = [x EXCEPT !.jobs = <<>>]
    /\ act' = IF x.broken = Fine /\ x.jobs # <<>> THEN {x.jobs} ELSE {}

\* Mutant: replay applies everything up to the last started workflow task.
Mut_NextSequenceEnds ==
    LET started == {i \in DOMAIN hist : i > pos /\ hist[i] = TaskStarted}
    IN  IF started # {} THEN {CHOOSE i \in started : \A j \in started : i >= j}
        ELSE {i \in {Len(hist)} : Closed /\ i > pos}

(* take_next_wft_sequence: up to the next started workflow task, or to the  *)
(* end of a closed workflow.                                                *)
NextSequenceEnds ==
    LET started == {i \in DOMAIN hist : i > pos /\ hist[i] = TaskStarted}
    IN  IF started # {} THEN {CHOOSE i \in started : \A j \in started : i <= j}
        ELSE {i \in {Len(hist)} : Closed /\ i > pos}

ApplyNextWft ==
    /\ w.broken = Fine /\ act = {}
    /\ \E i \in NextSequenceEnds :
          /\ Activate(ApplyEvents(w, SubSeq(hist, pos + 1, i)))
          /\ pos' = i
    /\ UNCHANGED <<cast, n, script, kept, hist, buf, evictions>>
-----------------------------------------------------------------------------
(* Lang: what it has been told and what it has done so far. *)
Acts == IF n = Len(script) /\ act # {}
        THEN Append(script, [jobs |-> CHOOSE a \in act : TRUE, does |-> <<>>]) ELSE script
Told(op) == UNION {{<<i, j, Acts[i].jobs[j][2]>> :
                       j \in {j \in DOMAIN Acts[i].jobs : Acts[i].jobs[j][1] = op}} :
                   i \in DOMAIN Acts}
Did(d, op) == \E i \in DOMAIN script : Contains(script[i].does, <<d, op>>)

Outcomes == {"Completed", "Failed", "Cancelled", "TimedOut", "StartFailed", "StartCancelled"}
Resolved(op) == \E t \in Told(op) : t[3] \in Outcomes

CancelsIn(does, op) == Len(SelectSeq(does, LAMBDA d : d = <<"cancel", op>>))
Cancels(op) == FoldLeft(LAMBDA c, a : c + CancelsIn(a.does, op), 0, script)

Cancellable == {"timer", "activity", "child", "signal", "nexus"}

(* Lang starts an operation once.  It may cancel it at any time from then   *)
(* on, more than once and after it was resolved too: nothing in the core    *)
(* asks it not to.                                                          *)
Sensible(does) ==
    /\ does # <<>> => \A op \in DOMAIN cast : Kind(Main(op)) \in Ending => ~Did("start", op)
    /\ \A op \in DOMAIN cast : Cancels(op) + CancelsIn(does, op) <= cast[op][3]
    /\ \A i \in DOMAIN does :
          LET op == does[i][2]
              startedHere == \E j \in 1 .. i - 1 : does[j] = <<"start", op>>
          IN  IF does[i][1] = "start"
              THEN /\ ~Did("start", op) /\ ~startedHere
                   /\ Kind(Main(op)) \in Ending => i = Len(does)
              ELSE /\ Did("start", op) \/ startedHere
                   /\ Kind(Main(op)) \in Cancellable

Scripts == UNION {[1 .. i -> {"start", "cancel"} \X (DOMAIN cast)] : i \in 0 .. MaxDoes}

(* iterate_machines with what lang answers: new, or what it did before. *)
LangCompletes ==
    /\ act # {}
    /\ \E does \in IF n < Len(script) THEN {script[n + 1].does} ELSE {d \in Scripts : Sensible(d)} :
          LET x == HandleDrivenResults(w, does)
              y == IF x.broken = Fine THEN PrepareCommands(x) ELSE x
          IN  /\ Activate(y)
              /\ script' = IF n < Len(script) THEN script
                           ELSE Append(script, [jobs |-> CHOOSE a \in act : TRUE, does |-> does])
    /\ n' = n + 1
    /\ UNCHANGED <<cast, pos, kept, hist, buf, evictions>>
-----------------------------------------------------------------------------
(* get_commands *)
GetCommands == SelectSeq(w.cmds, LAMBDA c : ~IsFinalState(Kind(c[1]), w.m[c[1]].st))

EventOf(c) == <<c[1], IF c[2] = "CommandStart" THEN "Recorded" ELSE "CancelRecorded">>

(* The server forgets a fired timer it has not reported when the timer is   *)
(* cancelled.                                                               *)
Flushed(events) ==
    SelectSeq(buf, LAMBDA b : b[2] # "Fired" \/ ~Contains(events, <<b[1], "CancelRecorded">>))

Ends(events) == \E i \in DOMAIN events : Kind(events[i][1]) \in Ending

Caught == w.broken = Fine /\ act = {} /\ TaskOpen /\ pos = Len(hist)

CompleteWft ==
    LET events == [i \in DOMAIN GetCommands |-> EventOf(GetCommands[i])]
    IN  /\ Caught
        /\ Ends(events) => buf = <<>>
        /\ hist' = hist \o <<TaskCompleted>> \o events \o Flushed(events)
        /\ buf' = <<>>
        /\ kept' = Len(script)
        /\ UNCHANGED <<cast, w, act, pos, n, script, evictions>>

(* The run is removed from the cache.  An open workflow task is lost with   *)
(* it: history passes over it, and the next task brings what was kept back. *)
Forget ==
    /\ w' = NewRun /\ act' = {} /\ pos' = 0 /\ n' = 0
    /\ script' = SubSeq(script, 1, kept)
    /\ hist' = (IF TaskOpen THEN Front(hist) ELSE hist) \o buf
    /\ buf' = <<>>
    /\ UNCHANGED <<cast, kept>>

(* A workflow may not end while there are events it has not seen. *)
CompletionRejected ==
    /\ Caught /\ buf # <<>>
    /\ \E i \in DOMAIN GetCommands : Kind(GetCommands[i][1]) \in Ending
    /\ Forget
    /\ UNCHANGED evictions

Evict ==
    /\ evictions < MaxEvictions
    /\ pos > 0 /\ w.broken = Fine
    /\ Forget
    /\ evictions' = evictions + 1
-----------------------------------------------------------------------------
(* The server. *)
Happened(k) == {ev[2] : ev \in {ev \in ToSet(hist) \cup ToSet(buf) : ev[1] = k}}

Results ==
    [timer |-> {"Fired", "CancelRecorded"},
     activity |-> {"Completed", "Failed", "TimedOut", "Canceled"},
     child |-> {"StartFailed", "Completed", "Failed", "TimedOut", "Canceled", "Terminated"},
     signal |-> {"Signaled", "Failed"},
     cancelext |-> {"CancelRequested", "Failed"},
     nexus |-> {"Completed", "Failed", "TimedOut", "Canceled"}]

(* How the handler of a Nexus operation answers a cancel request. *)
CancelRequestAnswers == {"CancelRequestCompleted", "CancelRequestFailed"}

(* What may happen next to an operation to which H has happened. *)
MayHappen(kind, H) ==
    IF "Recorded" \notin H \/ H \cap Results[kind] # {} THEN {}
    ELSE CASE kind = "activity" ->
                 {"TimedOut"} \cup (IF "Started" \in H THEN {"Completed", "Failed"} ELSE {"Started"})
                 \cup (IF "CancelRecorded" \in H THEN {"Canceled"} ELSE {})
           [] kind = "child" ->
                 IF "Started" \in H THEN Results[kind] \ {"StartFailed"} ELSE {"Started", "StartFailed"}
           [] kind = "nexus" ->
                 Results[kind] \cup ({"Started"} \ H)
                 \cup (IF "CancelRecorded" \in H /\ H \cap CancelRequestAnswers = {}
                       THEN CancelRequestAnswers ELSE {})
           [] OTHER -> Results[kind] \ CommandEvents

Report(ev) ==
    /\ ~Closed /\ w.broken = Fine
    /\ IF TaskOpen THEN buf' = Append(buf, ev) /\ UNCHANGED hist
       ELSE hist' = Append(hist, ev) /\ UNCHANGED buf
    /\ UNCHANGED <<cast, w, act, pos, n, script, kept, evictions>>

ServerEvent(k) ==
    /\ Kind(k) \in Resolving
    /\ \E e \in MayHappen(Kind(k), Happened(k)) : Report(<<k, e>>)

Signal ==
    /\ Len(SelectSeq(hist \o buf, LAMBDA ev : ev = <<WF, "Signal">>)) < MaxSignals
    /\ Report(<<WF, "Signal">>)

ServerWft ==
    /\ ~TaskOpen /\ ~Closed /\ w.broken = Fine
    /\ Last(hist) # TaskCompleted /\ Last(hist)[2] \notin CommandEvents
    /\ Len(SelectSeq(hist, LAMBDA ev : ev = TaskStarted)) < MaxWfts
    /\ hist' = Append(hist, TaskStarted)
    /\ UNCHANGED <<cast, w, act, pos, n, script, kept, buf, evictions>>

Next ==
    \/ ApplyNextWft \/ LangCompletes \/ CompleteWft \/ CompletionRejected \/ Evict
    \/ \E k \in Keys : ServerEvent(k)
    \/ Signal \/ ServerWft

Spec == Init /\ [][Next]_vars
-----------------------------------------------------------------------------
(* The values of the variables: every machine is in a state of its table,   *)
(* no command is left between the lists, and script and history are at      *)
(* least as long as what has been played of them.                           *)
TypeOK ==
    /\ cast \in Casts
    /\ \A k \in Keys : w.m[k].st \in States(Kind(k)) \cup {"none"}
    /\ w.broken = Fine => w.cur = <<>>
    /\ \A i \in DOMAIN w.cmds : w.cmds[i] \in Keys \X {"CommandStart", "CommandCancel"}
    /\ Cardinality(act) <= 1
    /\ pos \in 0 .. Len(hist) /\ kept \in 0 .. Len(script) /\ n \in 0 .. Len(script)
    /\ evictions \in 0 .. MaxEvictions

(* The orders for which the machines have no transition or return an error, *)
(* each <<kind, cancellation type, state, event>>:                          *)
(*   - an abandoned activity fails or times out;                            *)
(*   - an activity whose cancel is under way is cancelled again, or a timer *)
(*     whose cancel has been sent;                                          *)
(*   - a child is cancelled between its initiation and its start;           *)
(*   - a TryCancel child, told cancelled at once, ends in another way;      *)
(*   - a terminated child, or a signal that failed, is cancelled;           *)
(*   - an abandoned Nexus operation finishes;                               *)
(*   - the handler of a Nexus operation answers a cancel request.           *)
Gaps ==
    {"activity"} \X {"Abandon"} \X {"Canceled"} \X {"Failed", "TimedOut"}
    \cup {"activity"} \X (CancelTypes \ {"Abandon"}) \X (CancelCommandCreated \cup CancelEventRecorded) \X {"Cancel"}
    \cup {"timer"} \X CancelTypes \X {"CancelTimerCommandSent"} \X {"Cancel"}
    \cup {"child"} \X CancelTypes \X {"StartEventRecorded", "Terminated"} \X {"Cancel"}
    \cup {"child"} \X {"TryCancel"} \X {"Cancelled"} \X {"Completed", "Failed", "TimedOut", "Terminated"}
    \cup {"signal"} \X CancelTypes \X {"Failed"} \X {"Cancel"}
    \cup {"nexus"} \X {"Abandon"} \X {"Cancelled"} \X {"Completed", "Failed", "TimedOut"}
    \cup {"nexus"} \X CancelTypes \X {"ScheduledEventRecorded", "Started", "Cancelled"} \X CancelRequestAnswers

(* Of all orders of events, cancels and replays that a deterministic        *)
(* workflow and the server can produce, the machines fail in those of Gaps  *)
(* and in no other: no other event or cancel meets a state without a        *)
(* transition for it, and no command event finds the wrong command          *)
(* (handle_event, handle_command_event, cancel_machine!).                   *)
NothingElseBreaks == TypeOK /\ w.broken \in Gaps \cup {Fine}

(* Cancelling what lang was told has ended is ignored, as the comments      *)
(* above the tables' Cancel rows have it ("Ignore any spurious              *)
(* cancellations after resolution").                                        *)
LateCancelsIgnored ==
    w.broken # Fine /\ Last(w.broken) = "Cancel"
        => \A op \in DOMAIN cast : Kind(Main(op)) = w.broken[1] => ~Resolved(op)

(* An abandoned Nexus operation may finish after lang has cancelled it: the *)
(* error the machine returns is for those that are not abandoned            *)
(* (completion_of_not_abandoned_err).                                       *)
AbandonedMayFinish ==
    w.broken = Fine \/ SubSeq(w.broken, 1, 3) # <<"nexus", "Abandon", "Cancelled">>

(* Replay activates lang with the same jobs, in the same order and the same *)
(* grouping, as the first execution did (apply_next_wft_from_history).      *)
ReplayAgrees == n < Len(script) => act \subseteq {script[n + 1].jobs}

Before(t, u) == t[1] < u[1] \/ (t[1] = u[1] /\ t[2] < u[2])

(* A Nexus operation that resolves at once, cancelled after its command was *)
(* recorded and before it has started, keeps its state: lang is told that   *)
(* it is cancelled, and afterwards what becomes of it all the same          *)
(* (ScheduledEventRecorded::on_issue_cancel).                               *)
EarlyNotices(op) ==
    {t \in Told(op) : /\ Kind(Main(op)) = "nexus" /\ ResolvesNow(Type(Main(op)))
                      /\ t[3] = "Cancelled"
                      /\ ~\E u \in Told(op) : Before(u, t) /\ u[3] = "Started"}

(* Lang hears of an operation at most that it started and then one outcome, *)
(* wherever cancels, results and their events cross; the one exception is a *)
(* single early notice of a Nexus operation.                                *)
ResolvedOnce ==
    \A op \in DOMAIN cast :
        /\ Cardinality(EarlyNotices(op)) <= 1
        /\ \A t, u \in Told(op) \ EarlyNotices(op) :
              Before(t, u) => t[3] = "Started" /\ u[3] \in Outcomes

Truths ==
    [Started |-> {"Started", "Completed"},
     Completed |-> {"Fired", "Completed", "Signaled", "CancelRequested"},
     Failed |-> {"Failed", "TimedOut", "Terminated"},
     TimedOut |-> {"TimedOut"},
     StartFailed |-> {"StartFailed", "Failed", "TimedOut", "Canceled"},
     Cancelled |-> {"Canceled"},
     StartCancelled |-> {}]

(* What lang hears of an operation happened to that operation, unless lang  *)
(* cancelled it and hears just that (the adapt_response functions).         *)
ToldTheTruth ==
    \A op \in DOMAIN cast : \A t \in Told(op) :
        \/ Truths[t[3]] \cap Happened(Main(op)) # {}
        \/ t[3] \in {"Cancelled", "StartFailed", "StartCancelled"} /\ Did("cancel", op)

(* When the event that ends an operation has been applied, lang has been    *)
(* told of an outcome, an early notice not counted: no result is swallowed  *)
(* by a cancel in progress.                                                 *)
NothingForgotten ==
    \A i \in 1 .. pos :
        LET ev == hist[i]
        IN  ev[1] \in Keys /\ ev[1][2] = 0 /\ Kind(ev[1]) \in Resolving
                /\ ev[2] \in Results[Kind(ev[1])] \ CommandEvents /\ w.broken = Fine
            => \E t \in Told(ev[1][1]) \ EarlyNotices(ev[1][1]) : t[3] \in Outcomes

(* Lang is told once, truly and in time how each operation ended.           *)
ToldRight == ResolvedOnce /\ ToldTheTruth /\ NothingForgotten

(* What lang cancelled before its command was sent never reaches the        *)
(* server, also when the command had already been prepared in an earlier    *)
(* activation of the same workflow task (prepare_commands).                 *)
NeverSent == \A k \in Keys : w.m[k].pre => <<k, "Recorded">> \notin ToSet(hist)

(* A cancel of something the server knows, and of which lang had not heard  *)
(* the end, reaches the server with the workflow task in which lang asked   *)
(* for it.  Excepted are what is abandoned and a signal, whose cancel is    *)
(* ignored once it is recorded.                                             *)
CancelReachesServer ==
    \A i \in 1 .. kept : \A op \in DOMAIN cast :
        LET k == Main(op)
        IN  /\ Contains(script[i].does, <<"cancel", op>>)
            /\ <<k, "Recorded">> \in ToSet(hist)
            /\ ~\E t \in Told(op) : t[3] \in Outcomes /\ t[1] <= i
            /\ Kind(k) # "signal" /\ Type(k) # "Abandon"
            => ({<<k, "CancelRecorded">>} \cup {<<e, "Recorded">> : e \in Exts(op)}) \cap ToSet(hist) # {}

(* A cancel takes effect, whenever in the operation's life lang asks for    *)
(* it: before the command is sent nothing is, afterwards the server learns  *)
(* of it.                                                                   *)
CancelsTakeEffect == NeverSent /\ CancelReachesServer

=============================================================================
