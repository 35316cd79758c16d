-------------------------- MODULE MCHistoryPaging --------------------------
(* HistoryPaging for TLC.                                                  *)
EXTENDS HistoryPaging, TLC

CONSTANTS MaxTasks, MaxCuts, Blocks

Fail == <<"TaskFailed", "TaskScheduled", "TaskStarted">>
Beat == <<"TaskCompleted", "TaskScheduled", "TaskStarted">>
Work == <<"TaskCompleted", "Command", "External", "TaskScheduled", "TaskStarted">>
Signal == <<"TaskCompleted", "External", "TaskScheduled", "TaskStarted">>
Update == <<"TaskCompleted", "UpdateAccepted", "TaskScheduled", "TaskStarted">>
End == <<"TaskCompleted", "WorkflowCompleted">>
Terminate == <<"WorkflowTerminated">>

MCBlocks == {Fail, Beat, Work, Signal, Update}

Open == <<"WorkflowStarted", "TaskScheduled", "TaskStarted">>
Histories ==
    {Open \o FlattenSeq(bs) \o e : bs \in UNION {[1 .. k -> Blocks] : k \in 0 .. MaxTasks},
                                   e \in {<<>>, End, Terminate}}

StartedIds(h) == {i \in DOMAIN h : h[i] = "TaskStarted"}
(* previous_started_event_id: the last started task that was completed before the last one. *)
PrevStarted(h) == Max({0} \cup {i \in StartedIds(h) : i < Max(StartedIds(h)) /\ h[i + 1] = "TaskCompleted"})

(* Pages of n events: cut in at most MaxCuts places, with an empty page after  *)
(* the first, at the end, or nowhere; or cut after every event or two.         *)
Every(n, k) == [i \in 1 .. (n \div k) |-> k] \o IF n % k = 0 THEN <<>> ELSE <<n % k>>
Cut(n, cuts) ==
    LET c == SetToSortSeq(cuts \cup {n}, <)
    IN  [i \in DOMAIN c |-> IF i = 1 THEN c[1] ELSE c[i] - c[i - 1]]
PagesOf(n) ==
    {Every(n, 1), Every(n, 2)} \cup
    UNION {LET ps == Cut(n, cuts) IN {ps} \cup {InsertAt(ps, i, 0) : i \in 2 .. (Len(ps) + 1)} :
             cuts \in UNION {kSubset(k, 1 .. (n - 1)) : k \in 0 .. MaxCuts}}

Sequencing(h) == [i \in DOMAIN h |-> IF h[i] = "UpdateAccepted" THEN Max({j \in StartedIds(h) : j < i}) - 1 ELSE 0]

Scenario(h, hows, pages, incs) ==
    [hist : {h}, pages : pages, inc : incs, prev : {PrevStarted(h)}, started : {Max(StartedIds(h))},
     sequencing : {Sequencing(h)}, how : hows]
(* A listing from the start may even begin with an empty page. *)
Listings(h) == PagesOf(Len(h)) \cup {<<0, Len(h)>>, <<0>> \o Every(Len(h), 2)}
(* Events since the last task that was completed, and what may be given of them. *)
Since(h) == Len(h) - PrevStarted(h)
Resumable == {h \in Histories : PrevStarted(h) > 0}
Waiting == {h \in Resumable : Last(h) = "TaskStarted"}

MCScenarios ==
    UNION {Scenario(h, {"first"}, PagesOf(Len(h)), {<<>>}) : h \in Histories}
      \cup UNION {Scenario(h, {"query"}, Listings(h), {<<>>}) : h \in Resumable}
      \cup UNION {Scenario(h, {"cached"}, {<<>>}, PagesOf(Since(h))) : h \in Waiting}
      \cup UNION {Scenario(h, {"missed"}, Listings(h), {<<Since(h)>>}) : h \in Waiting}
      \cup UNION {Scenario(h, {"missed"}, {<<Len(h)>>, Every(Len(h), 2)}, PagesOf(Since(h))) : h \in Waiting}
=============================================================================
