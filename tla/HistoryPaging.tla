---------------------------- MODULE HistoryPaging ----------------------------
(***************************************************************************)
(* worker/workflow/history_update.rs: how the history of a run, which the  *)
(* server gives page by page, is cut into the sequences of events that one *)
(* workflow task each applies, with the loop of workflow_machines.rs and   *)
(* managed_run.rs that takes them and fetches more.                        *)
(*                                                                         *)
(* The server is external: it has a history, which does not grow while its *)
(* last workflow task is out, and gives it in pages of any length.  An     *)
(* event is its id, its kind is in the history.                            *)
(***************************************************************************)
EXTENDS Integers, Sequences, FiniteSets, FiniteSetsExt, SequencesExt

CONSTANTS Scenarios,   \* histories, their pages, those of the events since the last task, and how the task comes
          MaxFailures  \* bound: fetches that fail

ASSUME HistoryPagingAssumption == MaxFailures \in Nat

VARIABLES
    sc,      \* the scenario
    pg,      \* HistoryPaginator
    up,      \* HistoryUpdate: last_history_from_server
    mach,    \* WorkflowMachines, as far as it keeps track of history
    phase,   \* what the run is about to do
    log      \* history: the sequences applied, what was peeked after each, the turns of both loops

vars == <<sc, pg, up, mach, phase, log>>
-----------------------------------------------------------------------------
Kind(id) == sc.hist[id]
N == Len(sc.hist)

(* HistoryEvent::is_command_event, is_final_wf_execution_event *)
Commands == {"Command", "UpdateAccepted", "WorkflowCompleted"}
IsCommand(id) == Kind(id) \in Commands
IsFinal(id) == Kind(id) \in {"WorkflowCompleted", "WorkflowTerminated"}

(***************************************************************************)
(* find_end_index_of_next_wft_seq: indices count from 0, as in the source. *)
(* has_last_wft, which the source tests on the way, makes no difference.   *)
(***************************************************************************)
At(evs, ix) == IF ix < Len(evs) THEN Kind(evs[ix + 1]) ELSE "none"

Seen(evs, from, ix, kinds) == \E j \in 0 .. ix : evs[j + 1] > from /\ At(evs, j) \in kinds

(* What follows a started workflow task that does not conclude a sequence. *)
Abrupt == {"TaskFailed", "WorkflowTerminated"}

(* Started workflow tasks up to ix that were not skipped. *)
Unskipped(evs, from, ix) ==
    {j \in 0 .. ix : evs[j + 1] > from /\ At(evs, j) = "TaskStarted" /\ At(evs, j + 1) \notin Abrupt}

(* An update is processed in the task before the one it was sequenced in. *)
BeforeUpdate(evs, from, ix) ==
    LET earlier == {j \in Unskipped(evs, from, ix) : evs[j + 1] < sc.sequencing[evs[ix + 3]]}
    IN  IF At(evs, ix + 2) = "UpdateAccepted" /\ earlier # {} THEN Max(earlier) ELSE ix

(* Whether the event at ix ends the search, and with which index. *)
ConcludesAt(evs, from, ix) ==
    LET command == Seen(evs, from, ix, Commands)
        busy == command \/ Seen(evs, from, ix, {"WorkflowStarted"})
    IN  CASE IsFinal(evs[ix + 1]) -> {ix}
          [] At(evs, ix + 1) \in Abrupt -> {}
          [] At(evs, ix + 1) = "TaskCompleted" /\ At(evs, ix + 2) # "none" ->
                IF ~command /\ At(evs, ix + 2) = "TaskScheduled" THEN {}
                ELSE {BeforeUpdate(evs, from, ix)}
          [] OTHER -> IF busy THEN {ix} ELSE {}

Incomplete(ix) == [complete |-> FALSE, ix |-> ix]
Complete(ix) == [complete |-> TRUE, ix |-> ix]

FindEnd(evs, from) ==
    LET ends == {ix \in 0 .. (Len(evs) - 1) : evs[ix + 1] > from
                                              /\ (IsFinal(evs[ix + 1]) \/ At(evs, ix) = "TaskStarted")}
        stops == {ix \in ends : ConcludesAt(evs, from, ix) # {}}
    IN  CASE evs = <<>> -> Incomplete(0)
          [] stops = {} -> Incomplete(Len(evs) - 1)
          [] OTHER -> Complete(CHOOSE e \in ConcludesAt(evs, from, Min(stops)) : TRUE)

(* HistoryUpdate::from_events: as many complete sequences as there are. *)
FromEvents(evs, prev, started, last) ==
    LET first == FindEnd(evs, prev)
        More[e \in Nat] == \* the sequences from the one that ends at index e on
            LET n == FindEnd(SubSeq(evs, e + 1, Len(evs)), evs[e + 1])
            IN  IF n.complete THEN [More[e + n.ix] EXCEPT !.count = @ + 1]
                ELSE [count |-> 1, end |-> e]
        all == IF first.complete THEN More[first.ix]
               ELSE [count |-> IF last THEN 1 ELSE 0, end |-> -1]
        cut == IF last THEN Len(evs) ELSE all.end + 1
    IN  [update |-> [evs |-> SubSeq(evs, 1, cut), prev |-> prev, started |-> started,
                     last |-> last, count |-> all.count],
         extra |-> SubSeq(evs, cut + 1, Len(evs))]
-----------------------------------------------------------------------------
(***************************************************************************)
(* The server: token k stands for page k, 0 for none.  It lists the whole  *)
(* history, or what came after an event, in pages of its own.              *)
(***************************************************************************)
Pages(s, from) == IF from = 0 THEN s.pages ELSE s.inc
PageStart(ps, k) == 1 + FoldSeq(+, 0, SubSeq(ps, 1, k - 1))
PageEvents(s, from, k) ==
    LET ps == Pages(s, from)
    IN  [i \in 1 .. ps[k] |-> from + PageStart(ps, k) + i - 1]
TokenAfter(s, from, k) == IF k < Len(Pages(s, from)) THEN k + 1 ELSE 0

After(evs, id) == SelectSeq(evs, LAMBDA e : e > id)
LastId(evs) == IF evs = <<>> THEN 0 ELSE Last(evs)
Upto(a, b) == [i \in 1 .. (b - a + 1) |-> a + i - 1]

NoUpdate == [evs |-> <<>>, prev |-> -1, started |-> -1, last |-> FALSE, count |-> 0]
Fresh == [current |-> 0, processed |-> 0, replaying |-> FALSE, terminal |-> FALSE]

Started == IF sc.how = "query" THEN 0 ELSE sc.started

Init ==
    /\ sc = [how |-> "none"]
    /\ pg = [queue |-> <<>>, from |-> 0, token |-> 0, final |-> <<>>, extracted |-> 0]
    /\ up = NoUpdate /\ mach = Fresh /\ phase = "poll"
    /\ log = [ends |-> <<>>, peeks |-> <<>>, failures |-> 0, wrong |-> {}, fetches |-> 0, applies |-> 0]

(***************************************************************************)
(* from_poll: a task comes with the first page of the history, or, for a   *)
(* run that should be cached, with the first page of the events since its  *)
(* last task, and with a token for the rest.  A query of a run that is not *)
(* cached has no events of its own, only an update that is over.           *)
(***************************************************************************)
FromPoll ==
    /\ phase = "poll"
    /\ \E s \in Scenarios :
          LET from == IF s.how \in {"cached", "missed"} THEN s.prev ELSE 0
          IN  /\ sc' = s
              /\ pg' = IF s.how = "query" THEN pg
                       ELSE [pg EXCEPT !.queue = PageEvents(s, from, 1), !.from = from,
                                       !.token = TokenAfter(s, from, 1)]
              /\ mach' = IF s.how = "cached"
                         THEN [Fresh EXCEPT !.current = s.prev, !.processed = s.prev] ELSE Fresh
              /\ phase' = IF s.how = "query" THEN "fetchreq" ELSE "extract"
    /\ UNCHANGED <<up, log>>

(* from_fetchreq: the run is not cached after all.  Its history is listed   *)
(* from the start, and the events that came with the task are kept for the  *)
(* end.                                                                     *)
FromFetchReq ==
    /\ phase = "fetchreq"
    /\ pg' = [queue |-> <<>>, from |-> 0, token |-> 1, final |-> up.evs, extracted |-> pg.extracted]
    /\ up' = NoUpdate
    /\ phase' = "extract"
    /\ UNCHANGED <<sc, mach, log>>

(* What is done with an update that was extracted. *)
Uses == IF sc.how = "missed" /\ pg.from # 0 THEN "fetchreq" ELSE "feed"
-----------------------------------------------------------------------------
(* What is not yet at the end of the queue is added to it. *)
\* Mutant: a page is added without a look at what is there already.
Mut_Extended(q, evs) == q \o evs

Extended(q, evs) == q \o After(evs, LastId(q))

(* Two sequences are wanted while there may be more, so that one can be peeked at. *)
\* Mutant: one sequence is enough.
Mut_NotOne(more, count) == more /\ count < 1

TooFew(more, count) == more /\ count < 2

(* extract_next_update, after get_next_page has put together the queue. *)
Retry(q, token, final) ==
    /\ pg' = [pg EXCEPT !.queue = q, !.token = token, !.final = final]
    /\ log' = [log EXCEPT !.fetches = @ + 1]
    /\ UNCHANGED <<up, phase>>

Return(u, extra, token, final) ==
    /\ pg' = [queue |-> extra, from |-> pg.from, token |-> token, final |-> final,
              extracted |-> IF u.evs = <<>> THEN 0 ELSE Last(u.evs)]
    /\ up' = u
    /\ phase' = Uses
    /\ log' = [log EXCEPT !.wrong = @ \cup IF \E i \in 1 .. (Len(u.evs) - 1) : u.evs[i + 1] # u.evs[i] + 1
                                         THEN {"not contiguous"} ELSE {}]

Give(what) ==
    /\ phase' = what
    /\ log' = [log EXCEPT !.wrong = @ \cup IF what = "evicted" THEN {"no more events"} ELSE {}]

Extract(q, token, final) ==
    LET enough == LastId(q) >= Started
        more == token # 0
        noMore == ~more /\ enough
        f == FromEvents(q, sc.prev, Started, noMore)
    IN  CASE q = <<>> /\ ~more /\ pg.extracted >= Started ->
               /\ up' = FromEvents(<<>>, sc.prev, Started, TRUE).update
               /\ pg' = [pg EXCEPT !.queue = <<>>, !.token = token, !.final = final]
               /\ phase' = Uses /\ UNCHANGED log
          [] q = <<>> \/ (~more /\ ~enough) -> Give("evicted") /\ UNCHANGED <<pg, up>>
          [] TooFew(more, f.update.count) -> Retry(f.update.evs \o f.extra, token, final)
          [] ~noMore /\ f.extra # <<>> /\ f.extra[1] = q[1] -> Retry(f.extra, token, final)
          [] OTHER -> Return(f.update, f.extra, token, final)

(* get_next_page: a page that overlaps the queue; an empty one, which is    *)
(* skipped when it has a token; the last one.                               *)
GetNextPage ==
    /\ phase = "extract"
    /\ LET page == IF pg.token = 0 THEN <<>> ELSE PageEvents(sc, pg.from, pg.token)
           token == IF pg.token = 0 THEN 0 ELSE TokenAfter(sc, pg.from, pg.token)
           q == Extended(pg.queue, page)
           done == token = 0 /\ q # <<>>
       IN  IF pg.token # 0 /\ page = <<>> /\ token # 0
           THEN Retry(pg.queue, token, pg.final)
           ELSE Extract(IF done THEN Extended(q, pg.final) ELSE q, token,
                        IF done THEN <<>> ELSE pg.final)
    /\ UNCHANGED <<sc, mach>>

(* The fetch fails, and the run is evicted. *)
FetchFails ==
    /\ phase = "extract" /\ pg.token # 0 /\ log.failures < MaxFailures
    /\ phase' = "failed"
    /\ log' = [log EXCEPT !.failures = @ + 1]
    /\ UNCHANGED <<sc, pg, up, mach>>
-----------------------------------------------------------------------------
(* take_next_wft_sequence and peek_next_wft_sequence *)
CanTake(u, from) == FindEnd(u.evs, from).complete \/ u.last

Taken(u, from) ==
    LET evs == IF \E i \in DOMAIN u.evs : u.evs[i] > from THEN After(u.evs, from) ELSE u.evs
        e == FindEnd(evs, from)
        rest == SubSeq(evs, e.ix + 2, Len(evs))
    IN  IF e.complete \/ (u.last /\ e.ix # 0)
        THEN [what |-> "wft", evs |-> SubSeq(evs, 1, e.ix + 1), rest |-> rest,
              final |-> rest = <<>> /\ u.last]
        ELSE [what |-> IF u.last THEN "over" ELSE IF e.ix # 0 THEN "incomplete" ELSE "need fetch",
              evs |-> <<>>, rest |-> evs, final |-> u.last]

Peek(u, from) ==
    LET evs == IF \E i \in DOMAIN u.evs : u.evs[i] > from THEN After(u.evs, from) ELSE u.evs
    IN  IF evs = <<>> THEN <<>> ELSE SubSeq(evs, 1, FindEnd(evs, from).ix + 1)

(***************************************************************************)
(* apply_next_wft_from_history.  Replay is over with the first event that  *)
(* the SDK has not produced, in the last task.                             *)
(***************************************************************************)
EndsReplay(u, t, evs) ==
    \/ evs = <<>>
    \/ t.final /\ \E i \in DOMAIN evs : /\ evs[i] > u.prev /\ ~IsCommand(evs[i])
                                        /\ Kind(evs[i]) # "TaskCompleted"

Wrong(t, evs) ==
    (IF \E i \in DOMAIN evs : evs[i] # mach.processed + i THEN {"out of order"} ELSE {})
      \cup ({t.what} \cap {"incomplete", "need fetch"})

Terminal(evs) == mach.terminal \/ \E i \in DOMAIN evs : IsFinal(evs[i])

(* Whether the task has given lang something to do. *)
Jobs(evs) == IF \E i \in DOMAIN evs : Kind(evs[i]) \in {"WorkflowStarted", "External"} THEN {TRUE}
             ELSE IF evs = <<>> THEN {FALSE} ELSE BOOLEAN

(* A new task is followed by an activation or an automatic completion, a    *)
(* fetch by the loop of apply_next_task_if_ready, which goes on while it    *)
(* replays and has nothing for lang.                                        *)
AfterApply(jobs, evs, replaying) ==
    CASE jobs \/ (phase = "feed" /\ log.ends = <<>>) -> "lang"
      [] phase = "feed" -> "apply"
      [] evs = <<>> \/ ~replaying -> "reported"
      [] OTHER -> "apply"

Processed(t, evs, rest, replaying) ==
    /\ up' = rest
    /\ mach' = [current |-> IF evs # <<>> /\ Kind(Last(evs)) = "TaskStarted" THEN Last(evs)
                            ELSE mach.current,
                processed |-> IF evs = <<>> THEN mach.processed ELSE Last(evs),
                replaying |-> replaying /\ ~EndsReplay(up, t, evs), terminal |-> Terminal(evs)]
    /\ log' = [log EXCEPT
                  !.ends = IF evs = <<>> THEN @ ELSE Append(@, Last(evs)),
                  !.applies = @ + 1,
                  !.peeks = IF evs = <<>> THEN @ ELSE Append(@, LastId(Peek(rest, mach.current))),
                  !.wrong = @ \cup Wrong(t, evs)]
    /\ \E jobs \in Jobs(evs) :
          phase' = IF Wrong(t, evs) # {} THEN "failed" ELSE AfterApply(jobs, evs, mach'.replaying)

(* new, new_history_from_server: an update is fed and applied;              *)
(* apply_next_task_if_ready: the next sequence of the same update.          *)
Apply ==
    /\ phase \in {"feed", "apply"} /\ ~mach.terminal
    /\ LET t == Taken(up, mach.current)
       IN  Processed(t, After(t.evs, mach.processed), [up EXCEPT !.evs = t.rest],
                     IF phase = "feed" THEN up.prev > 0 ELSE mach.replaying)
    /\ UNCHANGED <<sc, pg>>

ApplyNothing ==
    /\ phase \in {"feed", "apply"} /\ mach.terminal
    /\ mach' = [mach EXCEPT !.replaying = FALSE]
    /\ phase' = "reported"
    /\ UNCHANGED <<sc, pg, up, log>>

(* successful_completion: lang has completed the activation; without a      *)
(* complete sequence left in the update more is fetched first.              *)
LangCompletes ==
    /\ phase = "lang"
    /\ phase' = IF CanTake(up, mach.current) THEN "apply" ELSE "extract"
    /\ UNCHANGED <<sc, pg, up, mach, log>>

Ended == phase \in {"reported", "failed"} /\ UNCHANGED vars

Next ==
    \/ FromPoll \/ FromFetchReq \/ GetNextPage \/ FetchFails \/ Apply \/ ApplyNothing \/ LangCompletes \/ Ended

Spec == Init /\ [][Next]_vars
-----------------------------------------------------------------------------
(* Where the sequences of the history end when it is all there. *)
Reference[from \in Nat] ==
    LET e == FindEnd(Upto(from + 1, N), from)
    IN  IF from = N THEN {} ELSE {from + e.ix + 1} \cup Reference[from + e.ix + 1]

(* Neither loop spins, the one that fetches pages and the one that applies  *)
(* sequences: no page is fetched twice, and at most once is a turn taken    *)
(* for nothing at the end of each.  As no other state is a last one, every  *)
(* task that was polled is reported, or its run evicted for a failed fetch. *)
LoopsEnd ==
    phase # "poll" => /\ log.fetches <= Len(sc.pages) + Len(sc.inc)
                      /\ log.applies <= Len(log.ends) + 1

(* What the assertions and errors of the source guard against never         *)
(* happens while the server is truthful -- events with a gap, a page too    *)
(* few, a sequence that is not complete, a fetch that should have been made *)
(* -- no loop spins, and when the task is reported every event has been     *)
(* applied and the replay is over.                                          *)
NothingBreaks ==
    /\ log.wrong = {} /\ LoopsEnd
    /\ phase = "reported" => mach.processed = N /\ ~mach.replaying

(* How the history is cut into pages does not show: every sequence lang is  *)
(* activated with is one of the whole history's, and right after it is      *)
(* applied the next one is there to be searched for markers.                *)
PagingInvisible ==
    /\ \A i \in DOMAIN log.ends : log.ends[i] \in Reference[IF sc.how = "cached" THEN sc.prev ELSE 0]
    /\ \A i \in 1 .. (Len(log.ends) - 1) : log.peeks[i] = log.ends[i + 1]
=============================================================================
