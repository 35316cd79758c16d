--------------------------- MODULE MachineTables ---------------------------
(***************************************************************************)
(* The state machines behind a workflow's commands, one section for each   *)
(* file of worker/workflow/machines: the fsm! table (state, event, next    *)
(* state), the machine commands its handlers return, what adapt_response   *)
(* makes of those, and the history events the machine knows.               *)
(*                                                                         *)
(* The initial --Schedule--> step is part of a machine's creation.         *)
(* CommandStart and CommandCancel stand for a machine's first and second   *)
(* command, Recorded and CancelRecorded for their events, Cancel for       *)
(* lang's cancel.  t is the cancellation type.                             *)
(***************************************************************************)
EXTENDS Sequences

CancelTypes == {"TryCancel", "WaitCompleted", "WaitRequested", "Abandon"}

(* Cancelling an operation that has started resolves it at once. *)
ResolvesNow(t) == t \in {"Abandon", "TryCancel"}

(* What a machine's commands become: jobs, a further command of its own, or *)
(* a core-created machine that cancels the child.                           *)
Job(x) == <<<<"job", x>>>>
NewCommand == <<<<"command", "">>>>
NewExternalCancel == <<<<"external", "">>>>
-----------------------------------------------------------------------------
(* timer_state_machine.rs *)
TimerFsm ==
    {<<"StartCommandCreated", "CommandStart", "StartCommandCreated">>,
     <<"StartCommandCreated", "Recorded", "StartCommandRecorded">>,
     <<"StartCommandCreated", "Cancel", "Canceled">>,
     <<"StartCommandRecorded", "Fired", "Fired">>,
     <<"StartCommandRecorded", "Cancel", "CancelTimerCommandCreated">>,
     <<"CancelTimerCommandCreated", "Cancel", "CancelTimerCommandCreated">>,
     <<"CancelTimerCommandCreated", "CommandCancel", "CancelTimerCommandSent">>,
     <<"CancelTimerCommandSent", "CancelRecorded", "Canceled">>,
     <<"Canceled", "Cancel", "Canceled">>,
     <<"Fired", "Cancel", "Fired">>}

TimerOutput(st, e) ==
    CASE e = "Fired" -> <<"Complete">>
      [] e = "Cancel" /\ st = "StartCommandRecorded" -> <<"IssueCancelCmd">>
      [] OTHER -> <<>>

TimerResponses(c) == IF c = "Complete" THEN Job("Completed") ELSE NewCommand

TimerEvents == {"Recorded", "CancelRecorded", "Fired"}
-----------------------------------------------------------------------------
(* activity_state_machine.rs *)
CancelCommandCreated ==
    {"ScheduledActivityCancelCommandCreated", "StartedActivityCancelCommandCreated"}
CancelEventRecorded ==
    {"ScheduledActivityCancelEventRecorded", "StartedActivityCancelEventRecorded"}

ActivityFsm ==
    {<<"ScheduleCommandCreated", "CommandStart", "ScheduleCommandCreated">>,
     <<"ScheduleCommandCreated", "Recorded", "ScheduledEventRecorded">>,
     <<"ScheduleCommandCreated", "Cancel", "Canceled">>,
     <<"ScheduledEventRecorded", "Started", "Started">>,
     <<"ScheduledEventRecorded", "TimedOut", "TimedOut">>,
     <<"ScheduledEventRecorded", "Cancel", "ScheduledActivityCancelCommandCreated">>,
     <<"Started", "Completed", "Completed">>,
     <<"Started", "Failed", "Failed">>,
     <<"Started", "TimedOut", "TimedOut">>,
     <<"Started", "Cancel", "StartedActivityCancelCommandCreated">>,
     <<"ScheduledActivityCancelCommandCreated", "CancelRecorded",
       "ScheduledActivityCancelEventRecorded">>,
     <<"StartedActivityCancelCommandCreated", "CancelRecorded",
       "StartedActivityCancelEventRecorded">>,
     <<"ScheduledActivityCancelEventRecorded", "Started", "StartedActivityCancelEventRecorded">>,
     <<"StartedActivityCancelEventRecorded", "Completed", "Completed">>,
     <<"StartedActivityCancelEventRecorded", "Failed", "Failed">>,
     <<"Canceled", "Started", "Canceled">>,
     <<"Canceled", "Completed", "Canceled">>}
    \cup {<<s, "Abandon", "Canceled">> :
            s \in {"ScheduleCommandCreated", "ScheduledEventRecorded", "Started"}}
    \cup {<<s, "CommandCancel", s>> : s \in CancelCommandCreated}
    \cup {<<s, "Canceled", "Canceled">> : s \in CancelEventRecorded}
    \cup {<<s, "TimedOut", "TimedOut">> : s \in CancelEventRecorded}

\* Mutant: a cancelled activity is resolved again by its event.
Mut_AlreadyNotified_Never(st, t) == FALSE

(* TryCancel has already told lang that the activity is cancelled. *)
AlreadyNotified(st, t) == st \in CancelEventRecorded /\ t = "TryCancel"

ActivityOutput(st, t, e) ==
    CASE st = "Canceled" \/ AlreadyNotified(st, t) -> <<>>
      [] e = "Completed" -> <<"Complete">>
      [] e \in {"Failed", "TimedOut"} -> <<"Fail">>
      [] e = "Canceled" \/ e = "Abandon" -> <<"Cancel">>
      [] e = "Cancel" -> IF st = "ScheduleCommandCreated" THEN <<"Cancel">>
                         ELSE <<"RequestCancellation">>
      [] OTHER -> <<>>

(* Only an abandoned activity may go on after its cancellation. *)
ActivityRefuses(st, t, e) == st = "Canceled" /\ e \in {"Started", "Completed"} /\ t # "Abandon"

RequestCancellation(t) == NewCommand \o (IF t = "WaitCompleted" THEN <<>> ELSE Job("Cancelled"))

ActivityResponses(t, c) ==
    CASE c = "Complete" -> Job("Completed")
      [] c = "Fail" -> Job("Failed")
      [] c = "Cancel" -> Job("Cancelled")
      [] c = "RequestCancellation" -> RequestCancellation(t)

(* cancel: a resolved activity ignores it, an abandoned one is let go. *)
ActivityCancel(st, t) ==
    IF st \in {"Completed", "Canceled", "Failed", "TimedOut"} THEN {}
    ELSE {IF t = "Abandon" THEN "Abandon" ELSE "Cancel"}

ActivityEvents ==
    {"Recorded", "Started", "Completed", "Failed", "TimedOut", "CancelRecorded", "Canceled"}
-----------------------------------------------------------------------------
(* child_workflow_state_machine.rs *)
ChildWorkflowFsm ==
    {<<"StartCommandCreated", "CommandStart", "StartCommandCreated">>,
     <<"StartCommandCreated", "Recorded", "StartEventRecorded">>,
     <<"StartCommandCreated", "Cancel", "Cancelled">>,
     <<"StartEventRecorded", "Started", "Started">>,
     <<"StartEventRecorded", "StartFailed", "StartFailed">>,
     <<"Started", "Completed", "Completed">>,
     <<"Started", "Failed", "Failed">>,
     <<"Started", "TimedOut", "TimedOut">>,
     <<"Started", "Canceled", "Cancelled">>,
     <<"Started", "Terminated", "Terminated">>,
     <<"Started", "Cancel", "Started">>,
     <<"Started", "Cancel", "Cancelled">>,
     <<"Started", "CommandCancel", "Started">>}
    \cup {<<"Cancelled", e, "Cancelled">> :
            e \in {"Cancel", "Canceled", "Completed", "Failed", "TimedOut", "Terminated"}}
    \cup {<<s, "Cancel", s>> : s \in {"Failed", "StartFailed", "TimedOut", "Completed"}}

ChildWorkflowOutput(st, e) ==
    CASE e = "Cancel" /\ st = "StartCommandCreated" -> <<"StartCancel">>
      [] e = "Started" -> <<"Start">>
      [] e = "StartFailed" -> <<"StartFail">>
      [] st # "Started" -> <<>>
      [] e = "Completed" -> <<"Complete">>
      [] e \in {"Failed", "TimedOut", "Terminated"} -> <<"Fail">>
      [] e = "Canceled" -> <<"Cancel">>
      [] e = "Cancel" -> <<"IssueCancelAfterStarted">>
      [] OTHER -> <<>>

(* Only an abandoned child may go on after its cancellation. *)
ChildWorkflowRefuses(mach, t, e) ==
    /\ mach.st = "Cancelled"
    /\ \/ e = "Canceled" /\ mach.seen
       \/ e \in {"Completed", "Failed", "TimedOut", "Terminated"} /\ t # "Abandon"

ChildWorkflowResponses(t, c) ==
    CASE c = "Start" -> Job("Started")
      [] c = "StartFail" -> Job("StartFailed")
      [] c = "StartCancel" -> Job("StartCancelled")
      [] c = "Complete" -> Job("Completed")
      [] c = "Fail" -> Job("Failed")
      [] c = "Cancel" -> Job("Cancelled")
      [] c = "IssueCancelAfterStarted" ->
            (IF t = "Abandon" THEN <<>> ELSE NewExternalCancel)
            \o (IF ResolvesNow(t) THEN Job("Cancelled") ELSE <<>>)

ChildWorkflowEvents ==
    {"Recorded", "StartFailed", "Started", "Completed", "Failed", "TimedOut", "Terminated",
     "Canceled"}
-----------------------------------------------------------------------------
(* signal_external_state_machine.rs *)
SignalExternalFsm ==
    {<<"SignalExternalCommandCreated", "CommandStart", "SignalExternalCommandCreated">>,
     <<"SignalExternalCommandCreated", "Cancel", "Cancelled">>,
     <<"SignalExternalCommandCreated", "Recorded", "SignalExternalCommandRecorded">>,
     <<"SignalExternalCommandRecorded", "Cancel", "SignalExternalCommandRecorded">>,
     <<"SignalExternalCommandRecorded", "Signaled", "Signaled">>,
     <<"SignalExternalCommandRecorded", "Failed", "Failed">>,
     <<"Cancelled", "Cancel", "Cancelled">>,
     <<"Signaled", "Cancel", "Signaled">>}

SignalExternalOutput(st, e) ==
    CASE e = "Cancel" /\ st = "SignalExternalCommandCreated" -> <<"Cancelled">>
      [] e \in {"Signaled", "Failed"} -> <<e>>
      [] OTHER -> <<>>

SignalExternalResponses(c) == Job(IF c = "Signaled" THEN "Completed" ELSE c)

SignalExternalEvents == {"Recorded", "Signaled", "Failed"}
-----------------------------------------------------------------------------
(* cancel_external_state_machine.rs *)
CancelExternalFsm ==
    {<<"RequestCancelExternalCommandCreated", "CommandStart", "RequestCancelExternalCommandCreated">>,
     <<"RequestCancelExternalCommandCreated", "Recorded", "RequestCancelExternalCommandRecorded">>,
     <<"RequestCancelExternalCommandRecorded", "CancelRequested", "CancelRequested">>,
     <<"RequestCancelExternalCommandRecorded", "Failed", "RequestCancelFailed">>}

CancelExternalOutput(e) ==
    CASE e = "CancelRequested" -> <<"Requested">>
      [] e = "Failed" -> <<"Failed">>
      [] OTHER -> <<>>

CancelExternalResponses(c) == Job(IF c = "Requested" THEN "Completed" ELSE c)

CancelExternalEvents == {"Recorded", "CancelRequested", "Failed"}
-----------------------------------------------------------------------------
(* nexus_operation_state_machine.rs *)
NexusOperationFsm ==
    {<<"ScheduleCommandCreated", "CommandStart", "ScheduleCommandCreated">>,
     <<"ScheduleCommandCreated", "Recorded", "ScheduledEventRecorded">>,
     <<"ScheduleCommandCreated", "Cancel", "Cancelled">>,
     <<"ScheduledEventRecorded", "Cancel", "ScheduledEventRecorded">>,
     <<"ScheduledEventRecorded", "Completed", "Completed">>,
     <<"ScheduledEventRecorded", "Failed", "Failed">>,
     <<"ScheduledEventRecorded", "Canceled", "Cancelled">>,
     <<"ScheduledEventRecorded", "TimedOut", "TimedOut">>,
     <<"ScheduledEventRecorded", "Started", "Started">>,
     <<"Started", "Cancel", "Started">>,
     <<"Started", "Cancel", "Cancelled">>,
     <<"Started", "Completed", "Completed">>,
     <<"Started", "Failed", "Failed">>,
     <<"Started", "Canceled", "Cancelled">>,
     <<"Started", "TimedOut", "TimedOut">>}
    \cup {<<s, e, s>> : s \in {"ScheduledEventRecorded", "Started", "Cancelled"},
                        e \in {"CommandCancel", "CancelRecorded"}}
    \cup {<<"Cancelled", e, "Cancelled">> :
            e \in {"Cancel", "Completed", "Failed", "TimedOut", "Canceled"}}
    \cup {<<s, "Cancel", s>> : s \in {"Completed", "Failed", "TimedOut"}}

(* A second cancel of a Nexus operation does nothing. *)
NexusOperationOutput(mach, e) ==
    CASE e = "Cancel" /\ mach.st = "ScheduleCommandCreated" -> <<"FailBeforeStart">>
      [] mach.st \notin {"ScheduledEventRecorded", "Started"} -> <<>>
      [] e = "Cancel" -> IF mach.sent THEN <<>> ELSE <<"IssueCancel">>
      [] e = "Started" -> <<"Start">>
      [] mach.st = "ScheduledEventRecorded" /\ e = "Completed" -> <<"StartSync", "Complete">>
      [] mach.st = "ScheduledEventRecorded" /\ e \in {"Failed", "Canceled", "TimedOut"} ->
            <<"FailBeforeStart">>
      [] e = "Completed" -> <<"Complete">>
      [] e = "Failed" -> <<"Fail">>
      [] e = "Canceled" -> <<"Cancel">>
      [] e = "TimedOut" -> <<"TimedOut">>
      [] OTHER -> <<>>

NexusOperationRefuses(st, t, e) ==
    st = "Cancelled" /\ e \in {"Completed", "Failed", "TimedOut"} /\ t = "Abandon"

\* Mutant: an operation that resolves at once is not cancelled on the server.
Mut_IssueCancel(t) == IF ResolvesNow(t) THEN Job("Cancelled") ELSE NewCommand

IssueCancel(t) == (IF t = "Abandon" THEN <<>> ELSE NewCommand)
                  \o (IF ResolvesNow(t) THEN Job("Cancelled") ELSE <<>>)

NexusOperationResponses(t, c) ==
    CASE c \in {"Start", "StartSync"} -> Job("Started")
      [] c = "FailBeforeStart" -> Job("StartFailed")
      [] c = "Complete" -> Job("Completed")
      [] c = "Fail" -> Job("Failed")
      [] c = "Cancel" -> Job("Cancelled")
      [] c = "TimedOut" -> Job("TimedOut")
      [] c = "IssueCancel" -> IssueCancel(t)

NexusOperationEvents ==
    {"Recorded", "Started", "Completed", "Failed", "Canceled", "TimedOut", "CancelRecorded"}
-----------------------------------------------------------------------------
(* The machines without an answer: their command is sent and recorded. *)
UpsertSearchAttributesFsm ==
    {<<"Created", "CommandStart", "CommandIssued">>, <<"CommandIssued", "Recorded", "Done">>}

ModifyWorkflowPropertiesFsm ==
    {<<"Created", "CommandStart", "CommandIssued">>, <<"CommandIssued", "Recorded", "Done">>}

CompleteWorkflowFsm ==
    {<<"CompleteWorkflowCommandCreated", "CommandStart", "CompleteWorkflowCommandCreated">>,
     <<"CompleteWorkflowCommandCreated", "Recorded", "CompleteWorkflowCommandRecorded">>}

FailWorkflowFsm ==
    {<<"FailWorkflowCommandCreated", "CommandStart", "FailWorkflowCommandCreated">>,
     <<"FailWorkflowCommandCreated", "Recorded", "FailWorkflowCommandRecorded">>}

CancelWorkflowFsm ==
    {<<"CancelWorkflowCommandCreated", "CommandStart", "CancelWorkflowCommandCreated">>,
     <<"CancelWorkflowCommandCreated", "Recorded", "CancelWorkflowCommandRecorded">>}

ContinueAsNewWorkflowFsm ==
    {<<"ContinueAsNewWorkflowCommandCreated", "CommandStart", "ContinueAsNewWorkflowCommandCreated">>,
     <<"ContinueAsNewWorkflowCommandCreated", "Recorded", "ContinueAsNewWorkflowCommandRecorded">>}
-----------------------------------------------------------------------------
Resolving == {"timer", "activity", "child", "signal", "cancelext", "nexus"}
Ending == {"complete", "fail", "cancel", "continue"}
Kinds == Resolving \cup Ending \cup {"upsert", "modify"}

Fsm == [timer |-> TimerFsm, activity |-> ActivityFsm, child |-> ChildWorkflowFsm,
        signal |-> SignalExternalFsm, cancelext |-> CancelExternalFsm,
        nexus |-> NexusOperationFsm, upsert |-> UpsertSearchAttributesFsm,
        modify |-> ModifyWorkflowPropertiesFsm, complete |-> CompleteWorkflowFsm,
        fail |-> FailWorkflowFsm, cancel |-> CancelWorkflowFsm,
        continue |-> ContinueAsNewWorkflowFsm]

FirstState ==
    [timer |-> "StartCommandCreated", activity |-> "ScheduleCommandCreated",
     child |-> "StartCommandCreated", signal |-> "SignalExternalCommandCreated",
     cancelext |-> "RequestCancelExternalCommandCreated", nexus |-> "ScheduleCommandCreated",
     upsert |-> "Created", modify |-> "Created", complete |-> "CompleteWorkflowCommandCreated",
     fail |-> "FailWorkflowCommandCreated", cancel |-> "CancelWorkflowCommandCreated",
     continue |-> "ContinueAsNewWorkflowCommandCreated"]

HistoryEvents(kind) ==
    CASE kind = "timer" -> TimerEvents
      [] kind = "activity" -> ActivityEvents
      [] kind = "child" -> ChildWorkflowEvents
      [] kind = "signal" -> SignalExternalEvents
      [] kind = "cancelext" -> CancelExternalEvents
      [] kind = "nexus" -> NexusOperationEvents
      [] OTHER -> {"Recorded"}

Output(kind, mach, t, e) ==
    CASE kind = "timer" -> TimerOutput(mach.st, e)
      [] kind = "activity" -> ActivityOutput(mach.st, t, e)
      [] kind = "child" -> ChildWorkflowOutput(mach.st, e)
      [] kind = "signal" -> SignalExternalOutput(mach.st, e)
      [] kind = "cancelext" -> CancelExternalOutput(e)
      [] kind = "nexus" -> NexusOperationOutput(mach, e)
      [] OTHER -> <<>>

AdaptResponse(kind, t, c) ==
    CASE kind = "timer" -> TimerResponses(c)
      [] kind = "activity" -> ActivityResponses(t, c)
      [] kind = "child" -> ChildWorkflowResponses(t, c)
      [] kind = "signal" -> SignalExternalResponses(c)
      [] kind = "cancelext" -> CancelExternalResponses(c)
      [] kind = "nexus" -> NexusOperationResponses(t, c)

Refuses(kind, mach, t, e) ==
    \/ kind = "activity" /\ ActivityRefuses(mach.st, t, e)
    \/ kind = "child" /\ ChildWorkflowRefuses(mach, t, e)
    \/ kind = "nexus" /\ NexusOperationRefuses(mach.st, t, e)

(* has_reached_final_state: no transition leaves the state. *)
IsFinalState(kind, st) == \A row \in Fsm[kind] : row[1] # st

States(kind) == {row[1] : row \in Fsm[kind]} \cup {row[3] : row \in Fsm[kind]}
=============================================================================
