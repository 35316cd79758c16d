---------------------------- MODULE WorkflowRuns ----------------------------
(***************************************************************************)
(* The workflow half of a core worker: the single-threaded stream that     *)
(* owns the run cache and turns workflow tasks, completions and local      *)
(* activity news into activations (workflow_stream.rs, run_cache.rs,       *)
(* managed_run.rs), together with its surroundings: the poll loop that     *)
(* hands activations to lang or completes them by itself, the completion   *)
(* calls that report to the server (mod.rs), and the history fetches       *)
(* (wft_extraction.rs).                                                    *)
(*                                                                         *)
(* One input of the stream is one step, as in the code, where "nothing     *)
(* async happens while actually mutating state".  The handlers are         *)
(* operators on a record s of the stream's state; what they send (s.out,   *)
(* s.rep) is put into the channels by the action that calls them.          *)
(*                                                                         *)
(* The state machines of a run (workflow_machines.rs) are seen only by     *)
(* what the stream asks of them: whether jobs are pending, how many local  *)
(* activities are outstanding, whether the workflow has finished.  What    *)
(* they answer is chosen by the oracle o of a step.                        *)
(***************************************************************************)
EXTENDS Integers, Sequences, FiniteSets, SequencesExt

CONSTANTS Runs,        \* run ids
          Capacities,  \* values of max_cached_workflows to start with
          MaxTasks,    \* bound: workflow tasks the server sends
          MaxLAs,      \* bound: local activities outstanding in one run
          MaxFaults,   \* bound: machine errors, failed completions, fetches and reports
          MaxBeats,    \* bound: heartbeat timeouts of workflow tasks
          Kinds,       \* kinds of workflow tasks the server sends
          Lateness,    \* values of late to start with
          PollTimeouts,\* TRUE: the caller of the poll gives up while it auto-completes
          FailOnND     \* TRUE: workflows are failed on nondeterminism errors

ASSUME WorkflowRunsAssumption ==
    /\ Runs # {} /\ IsFiniteSet(Runs)
    /\ Capacities \subseteq Nat /\ Capacities # {}
    /\ MaxTasks \in Nat /\ MaxLAs \in Nat /\ MaxFaults \in Nat /\ MaxBeats \in Nat
    /\ Kinds \subseteq {"task", "taskq", "query"}
    /\ Lateness \subseteq BOOLEAN /\ Lateness # {}
    /\ PollTimeouts \in BOOLEAN /\ FailOnND \in BOOLEAN

VARIABLES
    cap,      \* max_cached_workflows of this worker
    ignore,   \* ignore_evicts_on_shutdown of this worker
    cache,    \* run id -> ManagedRun, NoRun when it is not cached
    lru,      \* cached runs, the least recently used first
    full,     \* buffered_polls_need_cache_slot: sequences of tasks of one run
    fetch,    \* history fetches under way
    timer,    \* run id -> its heartbeat timeout is ticking
    local,    \* local inputs of the stream, first in first out
    acts,     \* activations the stream has sent to the poll loop
    lang,     \* run id -> activation lang is working on, "none"
    call,     \* caller, run id -> where its activation_completed call stands
    nextId,   \* the next workflow task
    sticky,   \* server: runs whose next task may come with partial history
    open,     \* server: run id -> its open workflow task, 0, Scheduled or Closed
    retry,    \* server: runs whose last task failed or timed out
    late,     \* whether tasks may time out while the worker works on them
    faults, beats,
    shutdown, \* the shutdown token
    done,     \* the stream has ended
    asserts,  \* assertions of the code that failed
    dropped   \* runs whose automatic completion the poll's caller dropped

vars == <<cap, ignore, cache, lru, full, fetch, timer, local, acts, lang, call, nextId,
          sticky, open, retry, late, faults, beats, shutdown, done, asserts, dropped>>

stream == <<cache, lru, full, fetch, timer, asserts, dropped>>
server == <<nextId, sticky, open, retry, late>>
outside == <<server, faults, beats, shutdown, cap, ignore>>
-----------------------------------------------------------------------------
Callers == {"lang", "auto"}

Scheduled == -1  \* the server has a task of the run but nobody polled it yet
Closed == -2     \* the workflow has ended

Automatic == {"autocomplete", "autofail", "autofail_nd"}

(* A workflow task: "query" carries only a legacy query, "taskq" also queries. *)
Tasks == [id : 1 .. MaxTasks, run : Runs, kind : {"task", "taskq", "query"},
          full : BOOLEAN, att : 1 .. 2]
NoTask == [id |-> 0]

NoWft == [id |-> 0, att |-> 1, q |-> "none"]
Wft(w) == [id |-> w.id, att |-> w.att,
           q |-> CASE w.kind = "task" -> "none" [] w.kind = "taskq" -> "queries"
                   [] OTHER -> "legacy"]

NoBuffer == [wft |-> NoTask, q |-> <<>>, qb |-> <<>>]
NoEvict == [why |-> "none", tt |-> 0]

(* ManagedRun: page and laChan are the reply channels of a completion that *)
(* waits for a history page or for local activities.                       *)
NoRun == [run |-> "none"]
NewRun == [run |-> "cached", wft |-> NoWft, act |-> "none", buf |-> NoBuffer,
           evict |-> NoEvict, broken |-> FALSE, jobs |-> FALSE, las |-> 0,
           fin |-> FALSE, term |-> FALSE, la |-> "none", laDat |-> <<>>,
           page |-> <<>>]

Cached(s, r) == s.cache[r].run = "cached"
CachedRuns(s) == {r \in Runs : Cached(s, r)}
LruSize == IF cap > 0 THEN cap ELSE 1
Set(s, r, h) == [s EXCEPT !.cache[r] = h]
Without(seq, x) == RemoveAt(seq, CHOOSE i \in DOMAIN seq : seq[i] = x)
Touch(s, r) ==
    IF r \in Range(s.lru) THEN [s EXCEPT !.lru = Append(Without(@, r), r)] ELSE s
Note(s, a) == [s EXCEPT !.asserts = @ \cup {a}]
-----------------------------------------------------------------------------
(* BufferedTasks. *)
Buffer(b, w) ==
    IF w.kind = "query"
    THEN IF b.wft = NoTask THEN [b EXCEPT !.q = Append(@, w)]
         ELSE [b EXCEPT !.qb = Append(@, w)]
    ELSE [b EXCEPT !.wft = w, !.qb = IF b.wft = NoTask THEN @ ELSE <<>>]

HasTasks(b) == b.wft # NoTask \/ b.q # <<>>

NextWft(b) ==
    IF b.q # <<>> THEN Head(b.q)
    ELSE IF b.wft # NoTask /\ b.qb # <<>> THEN Head(b.qb) ELSE b.wft

DropNextWft(b) ==
    IF b.q # <<>> THEN [b EXCEPT !.q = Tail(@)]
    ELSE IF b.wft # NoTask /\ b.qb # <<>> THEN [b EXCEPT !.qb = Tail(@)]
    ELSE [b EXCEPT !.wft = NoTask]
-----------------------------------------------------------------------------
MorePendingWork(h) == h.wft.id # 0 /\ h.jobs

HasAnyPendingWork(h, ignoreEvicts, ignoreBuffered) ==
    \/ h.wft.id # 0
    \/ ~ignoreBuffered /\ HasTasks(h.buf)
    \/ MorePendingWork(h)
    \/ h.act # "none" /\ ~(ignoreEvicts /\ h.act = "Eviction")
    \/ ~ignoreEvicts /\ h.evict.why # "none"

PendingWorkIsLegacyQuery(h) == h.act = "LegacyQuery" \/ h.wft.q = "legacy"

OutstandingKind(a) ==
    CASE a = "evict" -> "Eviction"
      [] a = "legacy" -> "LegacyQuery"
      [] a \in Automatic -> "Autocomplete"
      [] OTHER -> "Normal"

(* insert_outstanding_activation, which panics if there already is one. *)
Insert(s, r, a) ==
    LET h == s.cache[r]
        t == [Set(s, r, [h EXCEPT !.act = OutstandingKind(a)])
                 EXCEPT !.out = Append(@, [run |-> r, kind |-> a])]
    IN  IF h.act # "none" THEN Note(t, "two_activations") ELSE t

(* Answer the caller that waits for the outcome of a completion. *)
Fulfill(s, r, dat, outcome) ==
    IF dat = <<>> THEN s
    ELSE [s EXCEPT !.rep = @ \cup {[chan |-> dat[1].chan, run |-> r, outcome |-> outcome]}]

(* _check_more_activations: the activation to send, and the run after it.  *)
(* When the run is to be evicted its local activities are cancelled; those *)
(* that back off resolve at once (o.cancelled), which the machines may     *)
(* refuse (o.refused): the run is broken.                                  *)
Refuses(h, o) == h.evict.why # "none" /\ h.las > 0 /\ o.refused

CancelLAs(h, o) ==
    IF h.evict.why # "none" /\ h.las > 0 /\ o.cancelled
    THEN [h EXCEPT !.las = @ - 1, !.jobs = TRUE] ELSE h

CheckMore(h, o) ==
    IF h.act # "none" THEN "none"
    ELSE IF Refuses(h, o) THEN "broken"
    ELSE LET g == CancelLAs(h, o) IN
         IF g.wft.id = 0 THEN "none"
         ELSE IF g.jobs /\ ~g.broken THEN "jobs"
         ELSE IF g.wft.q # "none" /\ ~g.broken THEN "readyq"
         ELSE IF g.evict.why # "none" THEN "evict" ELSE "none"

AfterCheckMore(h, o) ==
    IF h.act # "none" THEN h
    ELSE IF Refuses(h, o) THEN [h EXCEPT !.broken = TRUE]
    ELSE LET g == CancelLAs(h, o) IN
         IF CheckMore(h, o) = "jobs" THEN [g EXCEPT !.jobs = FALSE] ELSE g

(* The first part of update_to_acts: which activation goes out.  Queries   *)
(* leave the task when they are put in the activation.                     *)
Chosen(h, a) ==
    IF a = "readyq" THEN h.wft.q
    ELSE IF a # "none" THEN a
    ELSE IF h.evict.why # "none" /\ h.act = "none" /\ ~MorePendingWork(h)
    THEN "evict" ELSE "none"

Settle(s, r, a, o) ==
    LET h == s.cache[r]
        check == a = "none" /\ MorePendingWork(h)
        g == IF check THEN AfterCheckMore(h, o) ELSE h
        b == Chosen(g, IF check THEN CheckMore(h, o) ELSE a)
    IN  [act |-> b,
         s |-> Set(s, r, IF b \in {"queries", "legacy"} THEN [g EXCEPT !.wft.q = "none"] ELSE g)]

(* An AutoFail that is not recorded as an outstanding activation. *)
AutoFail(s, r, nd) ==
    [Note(s, "unrecorded_autofail") EXCEPT
        !.out = Append(@, [run |-> r, kind |-> IF nd THEN "autofail_nd" ELSE "autofail"])]

(* The rest of it, without the task buffer. *)
Emit(t, r) ==
    IF t.act = "broken" THEN AutoFail(t.s, r, FALSE)
    ELSE IF \/ t.act = "none"
            \/ t.act = "autocomplete" /\ ~HasAnyPendingWork(t.s.cache[r], FALSE, TRUE)
    THEN t.s ELSE Insert(t.s, r, t.act)
-----------------------------------------------------------------------------
(* Evictions and failed completions. *)
Evicting(s, r, e, o) ==
    Emit(Settle(Set(s, r, AfterCheckMore(e, o)), r, CheckMore(e, o), o), r)

EvictBasic(s, r, why, tt, o) ==
    LET h == s.cache[r]
        g == IF why # "soft" /\ ~PendingWorkIsLegacyQuery(h)
             THEN [h EXCEPT !.wft.q = "none"] ELSE h
    IN  IF h.act # "Eviction" /\ h.evict.why = "none"
        THEN Evicting(s, r, [g EXCEPT !.evict = [why |-> why, tt |-> tt]], o)
        ELSE Set(s, r, [h EXCEPT !.evict = [why |-> why, tt |-> tt]])

(* reply_to_complete: a caller that went away gets its run evicted, and    *)
(* the activation that may come of it is not sent.                         *)
Reply(s, r, chan, outcome, o) ==
    IF chan = "gone"
    THEN [EvictBasic(s, r, "hard", 0, o) EXCEPT !.out = s.out]
    ELSE [s EXCEPT !.rep = @ \cup {[chan |-> chan, run |-> r, outcome |-> outcome]}]

(* With a policy to fail workflows on nondeterminism, the completion goes  *)
(* on as a success whose command fails the workflow, and what the eviction *)
(* request returned is dropped.  It is a completion of the activation that *)
(* is out, so nothing more is sent; like any other it is not reported with *)
(* jobs pending or while a query is played back.                           *)
ForcedOutcome(h) ==
    IF h.jobs \/ h.wft.q # "none" \/ h.act = "Eviction" \/ h.term THEN "Nothing" ELSE "Success"

(* e is the state after the eviction was requested, h the run before. *)
FailedOutcome(e, r, h, quiet) ==
    IF PendingWorkIsLegacyQuery(e.cache[r]) THEN IF quiet THEN "Drop" ELSE "Query"
    ELSE IF h.wft.att <= 1 THEN "Fail" ELSE "Drop"

FailTask(e, out, r, h, quiet, nd, chan, o) ==
    LET forced == FailOnND /\ nd /\ h.wft.att <= 1 /\ ~PendingWorkIsLegacyQuery(e.cache[r])
    IN  Reply(IF forced
              THEN [e EXCEPT !.out = out, !.cache[r].fin = TRUE,
                             !.asserts = @ \cup (IF e.cache[r].act = "Eviction"
                                                 THEN {"commands_on_eviction"} ELSE {})]
              ELSE e,
              r, chan,
              IF forced THEN ForcedOutcome(e.cache[r]) ELSE FailedOutcome(e, r, h, quiet), o)

FailedCompletion(s, r, why, auto, nd, chan, o) ==
    LET h == s.cache[r]
        quiet == PendingWorkIsLegacyQuery(h) /\ auto /\ why \in {"unspec", "page"}
    IN  IF h.wft.id = 0 THEN Reply(Note(s, "fail_without_wft"), r, chan, "Nothing", o)
        ELSE FailTask(IF quiet THEN s ELSE EvictBasic(s, r, why, 0, o), s.out, r, h, quiet, nd,
                      chan, o)

(* The error branch of update_to_acts: the task is failed through the      *)
(* caller that waits, or else by an AutoFail.                              *)
UpdateErr(s, r, dat, o) ==
    LET b == [s EXCEPT !.cache[r].broken = TRUE] IN
    IF dat # <<>> THEN FailedCompletion(b, r, "hard", TRUE, o.nd, dat[1].chan, o)
    ELSE AutoFail(b, r, o.nd)
-----------------------------------------------------------------------------
(* incoming_wft: apply a task to its run. *)
IncomingWft(s, r, w, created, o) ==
    LET h == s.cache[r]
        t == [s EXCEPT !.cache[r].wft = Wft(w),
                       !.asserts = @ \cup (IF h.wft.id # 0 THEN {"wft_overwritten"} ELSE {})]
        jobs == h.jobs \/ created \/ (w.kind # "query" /\ o.jobs)
        j == [t EXCEPT !.cache[r].jobs = FALSE,
                       !.cache[r].term = @ \/ (created /\ w.kind = "query" /\ o.term)]
        expired == w.kind = "query" /\ ~created /\ o.expired
        waits == ~expired /\ ~jobs /\ h.las > 0
        act == IF expired THEN "autofail" ELSE IF jobs THEN "jobs"
               ELSE IF waits THEN "none" ELSE "autocomplete"
    IN  IF ~expired /\ o.err THEN UpdateErr(t, r, <<>>, o)
        ELSE IF waits /\ h.la # "hb" THEN Note(t, "task_while_waiting_on_las")
        ELSE Emit(Settle(IF act = "jobs" THEN j
                         ELSE IF waits THEN [t EXCEPT !.timer[r] = TRUE] ELSE t, r, act, o), r)

(* update_to_acts: with nothing left to do the run takes a buffered task.  *)
TakeBuffered(t, r, o) ==
    LET h == t.s.cache[r]
    IN  IF /\ t.act \in {"none", "autocomplete"}
           /\ ~HasAnyPendingWork(h, FALSE, TRUE)
           /\ HasTasks(h.buf)
        THEN IncomingWft(Set(t.s, r, [h EXCEPT !.buf = DropNextWft(@)]), r, NextWft(h.buf),
                         FALSE, o)
        ELSE Emit(t, r)

UpdateToActs(s, r, a, o) == TakeBuffered(Settle(s, r, a, o), r, o)

CheckMoreActivations(s, r, o) ==
    UpdateToActs(Set(s, r, AfterCheckMore(s.cache[r], o)), r, CheckMore(s.cache[r], o), o)

\* Mutant: a failed fetch drops the completion that waits for its page.
Mut_EvictionDropsCompletion(s, r, why, tt, o) ==
    LET t == Touch([s EXCEPT !.cache[r].page = <<>>], r) IN
    IF Cached(s, r) THEN EvictBasic(t, r, why, tt, o) ELSE s

RequestEviction(s, r, why, tt, o) ==
    LET h == s.cache[r]
        own == ~\E f \in s.fetch : f.what = "page" /\ f.run = r
        t == Touch(Set(s, r, [h EXCEPT !.page = <<>>]), r)
    IN
    IF ~Cached(s, r) THEN s
    ELSE IF h.page # <<>> /\ why = "page"
    THEN FailedCompletion(IF own THEN t ELSE Note(t, "foreign_fetch_failure"), r, "page", TRUE,
                          FALSE, h.page[1].chan, o)
    ELSE EvictBasic(Touch(s, r), r, why, tt, o)
-----------------------------------------------------------------------------
(* Completions.  dat is the completion: its caller, whether the activation *)
(* was an eviction, whether queries were pending, the responses it has.    *)
PrepareCompleteResp(h, d, beat) ==
    IF \/ d.resp = "queries"
       \/ ~(h.jobs \/ d.hadQuery \/ d.wasEvict \/ h.term)
    THEN IF beat THEN "Beat" ELSE "Success" ELSE "Nothing"

ProcessCompletion(s, r, d, o) ==
    LET h == s.cache[r]
        fin == h.fin \/ o.fin
        new == IF h.wft.q = "legacy" THEN 0 ELSE o.las
        las == IF fin THEN 0 ELSE IF new > h.las THEN new ELSE h.las
        g == [h EXCEPT !.jobs = @ \/ o.jobs, !.fin = fin, !.las = las]
        w == [Set(s, r, [g EXCEPT !.la = "wait", !.laDat = <<d>>]) EXCEPT !.timer[r] = TRUE]
        now == IF d.wasEvict THEN h ELSE g
    IN  IF ~d.wasEvict /\ o.err THEN UpdateErr(s, r, <<d>>, o)
        ELSE UpdateToActs(IF d.wasEvict \/ las = 0
                          THEN Fulfill(Set(s, r, now), r, <<d>>, PrepareCompleteResp(now, d, FALSE))
                          ELSE w, r, "none", o)

SuccessfulCompletion(s, r, chan, resp, o) ==
    LET h == s.cache[r]
        wasEvict == h.act = "Eviction"
        d == [chan |-> chan, wasEvict |-> wasEvict, resp |-> resp,
              hadQuery |-> h.wft.q # "none"]
        u == IF wasEvict THEN s ELSE Note(s, "complete_without_wft")
    IN  IF h.wft.id = 0 \/ resp = "legacy"
        THEN Reply(IF h.wft.id = 0 THEN [u EXCEPT !.cache[r].evict.tt = 0] ELSE s, r, chan,
                   IF h.wft.id # 0 THEN "Query"
                   ELSE IF h.evict.tt # 0 THEN "Fail" ELSE "Nothing", o)
        ELSE IF o.page
        THEN [s EXCEPT !.cache[r].page = <<d>>,
                       !.fetch = @ \cup {[what |-> "page", run |-> r, wft |-> NoTask]}]
        ELSE ProcessCompletion(s, r, d, o)

FetchedPageCompletion(s, r, o) ==
    LET h == s.cache[r] IN
    IF h.page # <<>>
    THEN ProcessCompletion(Set(s, r, [h EXCEPT !.page = <<>>]), r, h.page[1], o)
    ELSE UpdateErr(Note(s, "page_for_nobody"), r, <<>>, o)

EvictLru(s, o) ==
    IF cap = 0 /\ s.lru # <<>> THEN RequestEviction(s, Head(s.lru), "soft", 0, o) ELSE s

(* WFStream::process_completion. *)
CompletionInput(s, m, o) ==
    LET t == Touch(s, m.run)
        why == IF m.chan # "lang" THEN "unspec" ELSE "hard"
    IN  IF ~Cached(s, m.run)
        THEN [Note(s, "run_missing") EXCEPT !.rep = @ \cup {[chan |-> m.chan, run |-> m.run,
                                                              outcome |-> "Lost"]}]
        ELSE EvictLru(IF m.ok THEN SuccessfulCompletion(t, m.run, m.chan, m.resp, o)
                      ELSE FailedCompletion(t, m.run, why, m.chan # "lang", m.nd, m.chan, o), o)
-----------------------------------------------------------------------------
(* Local activities and the heartbeat of a task that waits for them. *)
LocalResolution(s, r, o) ==
    LET h == s.cache[r]
        g == [h EXCEPT !.las = IF @ > 0 THEN @ - 1 ELSE 0, !.jobs = TRUE]
        over == g.las = 0 /\ h.la # "none"
        e == [Set(s, r, [g EXCEPT !.la = "none", !.laDat = <<>>]) EXCEPT !.timer[r] = FALSE]
    IN  IF ~Cached(s, r) THEN s
        ELSE IF o.err THEN UpdateErr(s, r, <<>>, o)
        ELSE UpdateToActs(IF ~over THEN Set(s, r, g) ELSE IF h.laDat = <<>> THEN e
                          ELSE Fulfill(e, r, h.laDat, PrepareCompleteResp(g, h.laDat[1], FALSE)),
                          r, "none", o)

HeartbeatTimeout(s, r, o) ==
    LET h == s.cache[r] IN
    IF ~Cached(s, r) THEN s
    ELSE UpdateToActs(IF h.la = "wait"
                      THEN Fulfill(Set(s, r, [h EXCEPT !.la = "hb", !.laDat = <<>>]), r, h.laDat,
                                   PrepareCompleteResp(h, h.laDat[1], TRUE))
                      ELSE s,
                      r, IF h.la = "hb" THEN "autocomplete" ELSE "none", o)
-----------------------------------------------------------------------------
(* Workflow tasks. *)

\* Mutant: one run too many is let in.
Mut_FullTooLate(s) == Len(s.lru) > LruSize

IsFull(s) == Len(s.lru) = LruSize

BufferOnFullCache(s, w) ==
    LET same == {i \in DOMAIN s.full : s.full[i][1].run = w.run} IN
    IF same = {} THEN [s EXCEPT !.full = Append(@, <<w>>)]
    ELSE [s EXCEPT !.full[CHOOSE i \in same : TRUE] = Append(@, w)]

\* Mutant: a run that is being evicted takes the task.
Mut_UpdateEvictingRun(s0, w, o) ==
    LET s == Touch(s0, w.run)
        r == w.run
        h == s.cache[r]
    IN  IF Cached(s, r) /\ h.act \notin {"none", "Eviction"}
        THEN Set(s, r, [h EXCEPT !.buf = Buffer(@, w)])
        ELSE IF ~Cached(s, r) /\ IsFull(s) THEN BufferOnFullCache(s, w)
        ELSE IF ~Cached(s, r) /\ ~w.full
        THEN [s EXCEPT !.fetch = @ \cup {[what |-> "full", run |-> r, wft |-> w]}]
        ELSE IncomingWft(IF Cached(s, r) THEN s
                         ELSE [Set(s, r, NewRun) EXCEPT !.lru = Append(@, r)],
                         r, w, ~Cached(s, r), o)

InstantiateOrUpdate(s0, w, o) ==
    LET s == Touch(s0, w.run)
        r == w.run
        h == s.cache[r]
    IN  IF Cached(s, r) /\ (h.act # "none" \/ h.evict.why # "none" \/ MorePendingWork(h))
        THEN Set(s, r, [h EXCEPT !.buf = Buffer(@, w)])
        ELSE IF ~Cached(s, r) /\ IsFull(s) THEN BufferOnFullCache(s, w)
        ELSE IF ~Cached(s, r) /\ ~w.full
        THEN [s EXCEPT !.fetch = @ \cup {[what |-> "full", run |-> r, wft |-> w]}]
        ELSE IncomingWft(IF Cached(s, r) THEN s
                         ELSE [Set(s, r, NewRun) EXCEPT !.lru = Append(@, r)],
                         r, w, ~Cached(s, r), o)

(* complete_wft: the task is let go once it is reported or given up. *)
CompletesWft(s, r, status) ==
    /\ Cached(s, r)
    /\ s.cache[r].term \/ status # "NotReported"
    /\ s.cache[r].wft.q = "none"

\* Mutant: the end of an automatic completion is not noted.
Mut_FinishLangOnly(s, r, auto) ==
    IF auto THEN s ELSE Set(s, r, [s.cache[r] EXCEPT !.act = "none"])

(* finish_activation and, for an eviction, the end of the run. *)
FinishActivation(s, r, auto) ==
    IF ~auto \/ s.cache[r].act = "Autocomplete"
    THEN Set(s, r, [s.cache[r] EXCEPT !.act = "none"]) ELSE s

DropRun(s, r) ==
    [s EXCEPT !.cache[r] = NoRun, !.lru = IF r \in Range(@) THEN Without(@, r) ELSE @]

(* The tasks to apply after a completion, and the buffer they leave: the   *)
(* next buffered task of an evicted run, or the one the server returned,   *)
(* or those of the first run that waits for a cache slot.                  *)
ReadyWfts(s, r, evicted, b, w) ==
    IF evicted /\ NextWft(b) # NoTask THEN <<NextWft(b)>>
    ELSE IF w # NoTask THEN <<w>>
    ELSE IF evicted /\ s.full # <<>> THEN Head(s.full) ELSE <<>>

(* The last of them is applied; of the others no activation is expected.   *)
NoActivation(t, out) ==
    IF t.out = out THEN t ELSE Note([t EXCEPT !.out = out], "extra_activation")

ApplyExtra(s, w, o) == NoActivation(InstantiateOrUpdate(s, w, o), s.out)

ApplyReady(s, ready, o) ==
    LET last == Len(ready)
        after[i \in 0 .. last - 1] ==
            IF i = 0 THEN InstantiateOrUpdate(s, ready[last], o)
            ELSE ApplyExtra(after[i - 1], ready[i], o)
    IN  IF ready = <<>> THEN s ELSE after[last - 1]

(* With nothing sent, a run that has finished and was reported is evicted. *)
EvictIfFinished(s, out, r, status, o) ==
    IF s.out = out /\ s.cache[r].fin /\ status = "Reported"
    THEN RequestEviction(s, r, "soft", 0, o) ELSE s

(* With no activation sent yet, the run is asked for more. *)
CheckAfterTasks(s, out, m, o) ==
    IF s.out = out /\ Cached(s, m.run)
    THEN EvictIfFinished(CheckMoreActivations(s, m.run, o), out, m.run, m.status, o) ELSE s

Finished(s, m, evicted, w, o) ==
    LET r == m.run
        b == s.cache[r].buf
        t == IF evicted THEN DropRun(s, r) ELSE FinishActivation(s, r, m.chan = "auto")
        u == IF evicted /\ NextWft(b) = NoTask /\ w = NoTask /\ t.full # <<>>
             THEN [t EXCEPT !.full = Tail(@)] ELSE t
    IN  CheckAfterTasks(ApplyReady(u, ReadyWfts(t, r, evicted, b, w), o), s.out, m, o)

PostActivationInput(s0, m, o) ==
    LET r == m.run
        s == Touch(s0, r)
        completes == CompletesWft(s, r, m.status)
        w == IF completes /\ s.cache[r].wft.id # 0 THEN m.wft ELSE NoTask
    IN  IF ~Cached(s0, r) THEN s0
        ELSE Finished(IF completes THEN [s EXCEPT !.cache[r].wft = NoWft] ELSE s, m,
                      s.cache[r].act = "Eviction" /\ m.chan = "lang", w, o)

\* Mutant: nobody makes room for tasks that wait.
Mut_EvictNobody(s) == {}

(* reconcile_buffered: enough evictions for the tasks that wait for a slot, *)
(* of runs without buffered tasks, the least recently used first.           *)
ToEvict(s) ==
    LET evicting == Cardinality({r \in CachedRuns(s) : s.cache[r].evict.why # "none"})
        need == Len(s.full) - evicting
        free == {i \in DOMAIN s.lru : ~HasTasks(s.cache[s.lru[i]].buf)}
    IN  {i \in free : Cardinality({j \in free : j <= i}) <= need}

Reconcile(s, o) ==
    LET chosen == ToEvict(s)
        after[i \in 0 .. Len(s.lru)] ==
            IF i = 0 THEN s
            ELSE IF i \in chosen THEN RequestEviction(after[i - 1], s.lru[i], "soft", 0, o)
            ELSE after[i - 1]
    IN  after[Len(s.lru)]

\* Mutant: the stream never waits for evictions.
Mut_ShutdownIgnoresEvicts(s) ==
    /\ shutdown
    /\ s.fetch = {}
    /\ \A r \in CachedRuns(s) : ~HasAnyPendingWork(s.cache[r], TRUE, FALSE)

ShutdownDone(s) ==
    /\ shutdown
    /\ s.fetch = {}
    /\ \A r \in CachedRuns(s) : ~HasAnyPendingWork(s.cache[r], ignore, FALSE)
-----------------------------------------------------------------------------
St == [cache |-> cache, lru |-> lru, full |-> full, fetch |-> fetch, timer |-> timer,
       asserts |-> asserts, out |-> <<>>, rep |-> {}]

(* What the machines may answer: nothing happens, jobs, an error, local    *)
(* activities, the end of the workflow, or a missing page of history.      *)
Calm == [err |-> FALSE, nd |-> FALSE, jobs |-> FALSE, las |-> 0, fin |-> FALSE,
         term |-> FALSE, page |-> FALSE, expired |-> FALSE, cancelled |-> FALSE,
         refused |-> FALSE]
Cancelling == {Calm, [Calm EXCEPT !.cancelled = TRUE], [Calm EXCEPT !.refused = TRUE]}
Oracle ==
    {[Calm EXCEPT !.jobs = TRUE], [Calm EXCEPT !.fin = TRUE],
     [Calm EXCEPT !.page = TRUE], [Calm EXCEPT !.expired = TRUE],
     [Calm EXCEPT !.jobs = TRUE, !.term = TRUE]}
      \cup Cancelling
      \cup {[Calm EXCEPT !.las = n] : n \in 1 .. MaxLAs}
      \cup {[Calm EXCEPT !.jobs = TRUE, !.las = n] : n \in 1 .. MaxLAs}
      \cup {[Calm EXCEPT !.err = TRUE, !.nd = b] : b \in {FALSE, FailOnND}}

Faulty(o) == IF o.err \/ o.refused THEN 1 ELSE 0

(* The tail of every step of the stream: evictions for the tasks that      *)
(* wait, the end of the stream, and the messages to the outside.  A panic  *)
(* ends the stream's thread.                                               *)
Publish(s, cost) ==
    LET end == "two_activations" \notin s.asserts /\ ShutdownDone(s)
    IN  /\ ~done /\ "two_activations" \notin asserts
        /\ faults + cost <= MaxFaults /\ faults' = faults + cost
        /\ cache' = s.cache /\ lru' = s.lru /\ full' = s.full /\ fetch' = s.fetch
        /\ timer' = s.timer /\ asserts' = s.asserts
        /\ done' = end /\ UNCHANGED dropped
        /\ acts' = IF end THEN acts ELSE acts \o s.out
        /\ call' = [c \in Callers |-> [r \in Runs |->
              IF \E x \in s.rep : x.chan = c /\ x.run = r
              THEN (CHOOSE x \in s.rep : x.chan = c /\ x.run = r).outcome
              ELSE call[c][r]]]

StreamStep(s, o, cost) == Publish(Reconcile(s, o), cost)

Local(t) == local # <<>> /\ local[1].t = t

Completion ==
    /\ Local("complete")
    /\ \E o \in Oracle : StreamStep(CompletionInput(St, local[1], o), o, Faulty(o))
    /\ local' = Tail(local)
    /\ UNCHANGED <<lang, server, beats, shutdown, cap, ignore>>

PostActivation ==
    /\ Local("post")
    /\ \E o \in Oracle : StreamStep(PostActivationInput(St, local[1], o), o, Faulty(o))
    /\ local' = Tail(local)
    /\ UNCHANGED <<lang, server, beats, shutdown, cap, ignore>>

EvictRequest ==
    /\ Local("evict")
    /\ \E o \in Cancelling :
          StreamStep(RequestEviction(St, local[1].run, "hard", 0, o), o, Faulty(o))
    /\ local' = Tail(local)
    /\ UNCHANGED <<lang, server, beats, shutdown, cap, ignore>>

Heartbeat ==
    /\ Local("hb")
    /\ StreamStep(HeartbeatTimeout(Touch(St, local[1].run), local[1].run, Calm), Calm, 0)
    /\ local' = Tail(local)
    /\ UNCHANGED <<lang, server, beats, shutdown, cap, ignore>>

LaResolved ==
    /\ Local("la")
    /\ \E o \in {x \in Oracle : x = Calm \/ x.err} :
          StreamStep(LocalResolution(Touch(St, local[1].run), local[1].run, o), o, Faulty(o))
    /\ local' = Tail(local)
    /\ UNCHANGED <<lang, server, beats, shutdown, cap, ignore>>

(* Local inputs have priority over the poller's and the fetcher's.  The    *)
(* server has one workflow task of a run open at a time; a query may come  *)
(* beside it.  After the shutdown began, open polls still deliver tasks.   *)
SendsTask(r, k) ==
    /\ local = <<>> /\ nextId <= MaxTasks
    /\ IF k = "query" THEN open[r] \in {0, Closed} \/ late ELSE open[r] \in {0, Scheduled}
    /\ nextId' = nextId + 1
    /\ open' = IF k = "query" THEN open ELSE [open EXCEPT ![r] = nextId]
    /\ UNCHANGED <<retry, late, local, lang, beats, shutdown, cap, ignore>>

NewWft ==
    \E r \in Runs, k \in Kinds, f \in BOOLEAN, o \in Oracle :
       /\ SendsTask(r, k)
       /\ f \/ r \in sticky
       /\ StreamStep(InstantiateOrUpdate(St, [id |-> nextId, run |-> r, kind |-> k, full |-> f,
                                              att |-> IF r \in retry THEN 2 ELSE 1], o),
                     o, Faulty(o))
       /\ sticky' = IF f THEN sticky \ {r} ELSE sticky

(* The history of a polled task cannot be fetched. *)
FailedPoll ==
    \E r \in Runs, o \in Cancelling :
       /\ SendsTask(r, "task")
       /\ StreamStep(RequestEviction(St, r, "page", nextId, o), o, 1 + Faulty(o))
       /\ UNCHANGED sticky

FetchDone(f) ==
    /\ local = <<>>
    /\ \E o \in Oracle :
          LET s == [St EXCEPT !.fetch = @ \ {f}] IN
          StreamStep(IF f.what = "full" THEN InstantiateOrUpdate(s, [f.wft EXCEPT !.full = TRUE], o)
                     ELSE IF Cached(s, f.run)
                     THEN EvictLru(FetchedPageCompletion(Touch(s, f.run), f.run, o), o)
                     ELSE Note(s, "run_missing"), o, Faulty(o))
    /\ UNCHANGED <<local, lang, server, beats, shutdown, cap, ignore>>

FetchFailed(f) ==
    /\ local = <<>>
    /\ \E o \in Cancelling :
          StreamStep(RequestEviction([St EXCEPT !.fetch = @ \ {f}], f.run, "page", 0, o), o,
                     1 + Faulty(o))
    /\ UNCHANGED <<local, lang, server, beats, shutdown, cap, ignore>>

(* GetStateInfo, with which a shutdown drives an idle stream. *)
Bump ==
    /\ local = <<>> /\ shutdown
    /\ StreamStep(St, Calm, 0)
    /\ UNCHANGED <<local, lang, server, beats, shutdown, cap, ignore>>
-----------------------------------------------------------------------------
(* The poll loop: one activation at a time; it completes automatic ones    *)
(* itself before it looks at the next.                                     *)
AutoBusy == \E r \in Runs : call["auto"][r] # "idle"

Poll ==
    /\ acts # <<>> /\ ~AutoBusy
    /\ LET a == acts[1] IN
       IF a.kind \in Automatic
       THEN /\ call' = [call EXCEPT !["auto"][a.run] = "sent"]
            /\ local' = Append(local, [t |-> "complete", run |-> a.run, chan |-> "auto",
                                       ok |-> a.kind = "autocomplete", resp |-> "none",
                                       nd |-> a.kind = "autofail_nd"])
            /\ UNCHANGED lang
       ELSE /\ lang' = [lang EXCEPT ![a.run] = a.kind]
            /\ UNCHANGED <<call, local>>
    /\ acts' = Tail(acts)
    /\ UNCHANGED <<stream, outside, done>>

(* The poll's caller gives up and drops the call it was making: nobody     *)
(* receives the stream's answer any more, nobody reports, and nobody sends *)
(* the message that post_activation would have sent.                       *)
Forsake(seq) == [i \in DOMAIN seq |-> IF seq[i].chan = "auto" THEN [seq[i] EXCEPT !.chan = "gone"]
                                      ELSE seq[i]]

PollDropped(r) ==
    /\ PollTimeouts /\ call["auto"][r] # "idle"
    /\ call' = [call EXCEPT !["auto"][r] = "idle"]
    /\ local' = [i \in DOMAIN local |->
                    IF local[i].t = "complete" /\ local[i].run = r /\ local[i].chan = "auto"
                    THEN [local[i] EXCEPT !.chan = "gone"] ELSE local[i]]
    /\ cache' = IF ~Cached(St, r) THEN cache
                ELSE [cache EXCEPT ![r].page = Forsake(@), ![r].laDat = Forsake(@)]
    /\ dropped' = dropped \cup {r}
    /\ UNCHANGED <<lru, full, fetch, timer, asserts, outside, done, acts, lang>>

(* Lang completes its activation; evictions are answered with success. *)
LangCompletes(r) ==
    /\ lang[r] # "none"
    /\ \E ok \in BOOLEAN :
          /\ lang[r] = "evict" => ok
          /\ ok \/ faults < MaxFaults
          /\ faults' = IF ok THEN faults ELSE faults + 1
          /\ local' = IF done THEN local
                      ELSE Append(local, [t |-> "complete", run |-> r, chan |-> "lang", ok |-> ok,
                                  resp |-> IF lang[r] \in {"legacy", "queries"} THEN lang[r] ELSE "none",
                                  nd |-> FALSE])
    /\ call' = [call EXCEPT !["lang"][r] = IF done THEN "idle" ELSE "sent"]
    /\ lang' = [lang EXCEPT ![r] = "none"]
    /\ UNCHANGED <<stream, done, acts, server, beats, shutdown, cap, ignore>>

(* activation_completed after the stream's answer: report to the server,   *)
(* which may return the next task or refuse; then post_activation.  A      *)
(* success too large for a message is reported as a failure of the task,   *)
(* and the run goes on as if it had been accepted.                         *)
Report(c, r) ==
    /\ call[c][r] \in {"Success", "Beat", "Fail", "Query", "Drop", "Nothing"}
    /\ LET out == call[c][r]
           success == out \in {"Success", "Beat"}
           sent == success \/ out = "Fail"
           post(w) == [t |-> "post", run |-> r, chan |-> c, wft |-> w,
                       status |-> IF sent \/ out = "Query" THEN "Reported"
                                  ELSE IF out = "Drop" THEN "DropWft" ELSE "NotReported"]
       IN  \/ /\ local' = local \o (IF done THEN <<>> ELSE <<post(NoTask)>>)
              /\ sticky' = IF success /\ cap > 0 THEN sticky \cup {r} ELSE sticky
              /\ open' = IF ~sent THEN open
                         ELSE [open EXCEPT ![r] = IF out = "Beat" THEN Scheduled
                                                  ELSE IF success /\ cache[r].fin THEN Closed ELSE 0]
              /\ retry' = IF out = "Fail" THEN retry \cup {r}
                          ELSE IF success THEN retry \ {r} ELSE retry
              /\ UNCHANGED <<nextId, faults>>
           \/ /\ success /\ faults < MaxFaults
              /\ faults' = faults + 1
              /\ local' = local \o (IF done THEN <<>> ELSE <<post(NoTask)>>)
              /\ open' = [open EXCEPT ![r] = 0]
              /\ retry' = retry \cup {r}
              /\ UNCHANGED <<nextId, sticky>>
           \/ /\ sent /\ faults < MaxFaults /\ ~done
              /\ faults' = faults + 1
              /\ local' = local \o <<[t |-> "evict", run |-> r], post(NoTask)>>
              /\ open' = [open EXCEPT ![r] = 0]
              /\ UNCHANGED <<nextId, sticky, retry>>
           \/ /\ success /\ cap > 0 /\ nextId <= MaxTasks /\ ~done /\ ~cache[r].fin
              /\ local' = Append(local, post([id |-> nextId, run |-> r, kind |-> "task",
                                              full |-> FALSE, att |-> 1]))
              /\ nextId' = nextId + 1
              /\ open' = [open EXCEPT ![r] = nextId]
              /\ sticky' = sticky \cup {r}
              /\ retry' = retry \ {r}
              /\ UNCHANGED faults
    /\ call' = [call EXCEPT ![c][r] = "idle"]
    /\ UNCHANGED <<stream, done, acts, lang, late, beats, shutdown, cap, ignore>>

(* External: a task times out on the server.  Only under late does that    *)
(* happen to a task the worker still has.                                  *)
HeldTasks(r) ==
    (IF Cached(St, r) THEN {cache[r].wft.id, cache[r].buf.wft.id} ELSE {})
      \cup UNION {{w.id : w \in Range(full[i])} : i \in DOMAIN full}
      \cup {f.wft.id : f \in fetch}
      \cup {local[i].wft.id : i \in {i \in DOMAIN local : local[i].t = "post"}}

WftTimesOut(r) ==
    /\ open[r] > 0
    /\ late \/ open[r] \notin HeldTasks(r)
    /\ open' = [open EXCEPT ![r] = 0]
    /\ retry' = retry \cup {r}
    /\ UNCHANGED <<stream, done, acts, lang, call, local, nextId, sticky, late, faults, beats,
                   shutdown, cap, ignore>>

(* The stream dropped the answer's channel, or ended before it answered. *)
Orphaned(c, r) ==
    /\ call[c][r] = "Lost" \/ (done /\ call[c][r] = "sent")
    /\ call' = [call EXCEPT ![c][r] = "idle"]
    /\ asserts' = asserts \cup {"reply_lost"}
    /\ local' = IF done THEN local ELSE Append(local, [t |-> "evict", run |-> r])
    /\ UNCHANGED <<cache, lru, full, fetch, timer, dropped, outside, done, acts, lang>>

(* External: a local activity resolves, a heartbeat timer fires. *)
LaFinishes(r) ==
    /\ Cached(St, r) /\ cache[r].las > 0
    /\ Cardinality({i \in DOMAIN local : local[i].t = "la" /\ local[i].run = r}) < cache[r].las
    /\ local' = Append(local, [t |-> "la", run |-> r])
    /\ UNCHANGED <<stream, outside, done, acts, lang, call>>

TimerFires(r) ==
    /\ timer[r] /\ beats < MaxBeats
    /\ timer' = [timer EXCEPT ![r] = FALSE]
    /\ beats' = beats + 1
    /\ local' = Append(local, [t |-> "hb", run |-> r])
    /\ UNCHANGED <<cache, lru, full, fetch, asserts, dropped, server, faults, shutdown, cap, ignore,
                   done, acts, lang, call>>

InitiateShutdown ==
    /\ ~shutdown
    /\ shutdown' = TRUE
    /\ UNCHANGED <<stream, server, cap, ignore, local, acts, lang, call, faults, beats, done>>
-----------------------------------------------------------------------------
Init ==
    /\ cap \in Capacities /\ ignore \in BOOLEAN
    /\ cache = [r \in Runs |-> NoRun] /\ lru = <<>> /\ full = <<>> /\ fetch = {}
    /\ timer = [r \in Runs |-> FALSE]
    /\ local = <<>> /\ acts = <<>>
    /\ lang = [r \in Runs |-> "none"]
    /\ call = [c \in Callers |-> [r \in Runs |-> "idle"]]
    /\ nextId = 1 /\ sticky = {} /\ open = [r \in Runs |-> 0] /\ retry = {}
    /\ late \in Lateness /\ faults = 0 /\ beats = 0
    /\ shutdown = FALSE /\ done = FALSE /\ asserts = {} /\ dropped = {}

StreamNext ==
    \/ Completion \/ PostActivation \/ EvictRequest \/ Heartbeat \/ LaResolved \/ Bump
    \/ NewWft \/ FailedPoll
    \/ \E f \in fetch : FetchDone(f) \/ FetchFailed(f)

(* The stream is over: it ended and nobody polls what is left, or its thread panicked. *)
Ended == ((done /\ acts = <<>>) \/ "two_activations" \in asserts) /\ UNCHANGED vars

Next ==
    \/ StreamNext
    \/ Poll
    \/ \E r \in Runs : PollDropped(r) \/ WftTimesOut(r) \/ LangCompletes(r) \/ LaFinishes(r) \/ TimerFires(r)
    \/ \E c \in Callers, r \in Runs : Report(c, r) \/ Orphaned(c, r)
    \/ InitiateShutdown
    \/ Ended

Spec == Init /\ [][Next]_vars
-----------------------------------------------------------------------------
(* Notes that mark the two paths after which the code's own bookkeeping is  *)
(* known to be off: an AutoFail that is not recorded as outstanding, and a  *)
(* failed fetch of another task that fails a completion waiting for a page. *)
Trouble == {"unrecorded_autofail", "foreign_fetch_failure"}

Outcomes == {"Success", "Beat", "Fail", "Query", "Drop", "Nothing"}
LangActs == {"jobs", "queries", "legacy", "evict"}
Chans == Callers \cup {"gone"}

IsRun(h) ==
    /\ DOMAIN h = DOMAIN NewRun
    /\ h.wft.id \in 0 .. MaxTasks /\ h.wft.q \in {"none", "queries", "legacy"}
    /\ h.act \in {"none", "Normal", "LegacyQuery", "Eviction", "Autocomplete"}
    /\ h.evict.why \in {"none", "soft", "hard", "page", "unspec"}
    /\ h.las \in 0 .. MaxLAs /\ h.la \in {"none", "wait", "hb"}
    /\ h.la = "wait" <=> h.laDat # <<>>
    /\ \A d \in Range(h.laDat) \cup Range(h.page) : d.chan \in Chans

(* The state of the stream, the poll loop, the completion calls and the    *)
(* server's tasks have the shapes of the code's types; a run waits for     *)
(* local activities exactly while it keeps a completion to answer.         *)
TypeOK ==
    /\ cap \in Capacities /\ ignore \in BOOLEAN
    /\ \A r \in Runs : cache[r] = NoRun \/ IsRun(cache[r])
    /\ \A i \in DOMAIN full : full[i] # <<>> /\ Range(full[i]) \subseteq Tasks
    /\ \A f \in fetch : f.run \in Runs /\ (f.what = "page" <=> f.wft = NoTask)
    /\ timer \in [Runs -> BOOLEAN]
    /\ \A i \in DOMAIN local : local[i].t \in {"complete", "post", "evict", "hb", "la"}
                                 /\ local[i].run \in Runs
    /\ \A i \in DOMAIN acts : acts[i].kind \in LangActs \cup Automatic /\ acts[i].run \in Runs
    /\ lang \in [Runs -> LangActs \cup {"none"}]
    /\ call \in [Callers -> [Runs -> Outcomes \cup {"idle", "sent", "Lost"}]]
    /\ nextId \in 1 .. MaxTasks + 1 /\ sticky \subseteq Runs /\ retry \subseteq Runs
    /\ open \in [Runs -> {0, Scheduled, Closed} \cup 1 .. MaxTasks]
    /\ faults \in 0 .. MaxFaults /\ beats \in 0 .. MaxBeats
    /\ dropped \subseteq Runs
    /\ {late, shutdown, done} \subseteq BOOLEAN

(* A run that waits for local activities with nothing left to answer, whose *)
(* heartbeat timeout has just put out an automatic completion.              *)
SecondBeat ==
    beats >= 2 /\ \E r \in CachedRuns(St) : cache[r].la = "hb" /\ cache[r].act = "Autocomplete"

(* The dbg_panic! assertions of managed_run.rs, workflow_stream.rs and      *)
(* mod.rs hold in every interleaving of tasks, completions, fetches and     *)
(* timers as long as the server does not time out a task the worker still   *)
(* holds: no task overwrites another, no completion finds its run or task   *)
(* missing, no page arrives that nobody asked for, and nobody's answer is   *)
(* lost, unless the stream was told not to wait for evictions.  The panic   *)
(* of insert_outstanding_activation, late tasks and dropped polls included, *)
(* has one cause only: the second heartbeat of a run that already answered  *)
(* its completion and still waits for local activities (SecondBeat).        *)
AssertionsHold ==
    /\ \/ late \/ asserts \cap Trouble # {}
       \/ asserts \subseteq {"two_activations"} \cup IF ignore THEN {"reply_lost"} ELSE {}
    /\ "two_activations" \in asserts => SecondBeat

(* What insert_outstanding_activation says of itself: "this is a panic      *)
(* because we have screwed up core logic if this is violated.  It must be   *)
(* upheld": a run never gets a second activation while one is outstanding.  *)
(* The code does not uphold it: the heartbeat timer of a task without jobs  *)
(* runs while an eviction, or the resolution of another local activity, is  *)
(* at lang, and its timeout answers the task with an automatic completion   *)
(* without asking whether an activation is out.                             *)
OneActivationOutstanding == "two_activations" \notin asserts

AtLang(r) ==
    Cardinality({i \in DOMAIN acts : acts[i].run = r /\ acts[i].kind \notin Automatic})
      + (IF lang[r] # "none" THEN 1 ELSE 0) + (IF call["lang"][r] # "idle" THEN 1 ELSE 0)
      + Cardinality({i \in DOMAIN local : local[i].t = "post" /\ local[i].run = r
                                            /\ local[i].chan = "lang"})

InAuto(r) ==
    \/ \E i \in DOMAIN acts : acts[i].run = r /\ acts[i].kind \in Automatic
    \/ call["auto"][r] # "idle"
    \/ \E i \in DOMAIN local : local[i].t = "post" /\ local[i].run = r /\ local[i].chan = "auto"

(* An activation the run counts as outstanding is in somebody's hands: lang *)
(* has it, or the poll loop completes it, or its post_activation is on the  *)
(* way.  Only a poll whose caller gave up while it completed an activation  *)
(* by itself leaves one outstanding that nobody will ever complete; its run *)
(* is exempt.  And lang never has two of one run: from the moment the       *)
(* stream sends one until post_activation of its completion is processed,   *)
(* through the report to the server, the stream sends no other.             *)
ActivationHeld ==
    /\ \A r \in Runs : AtLang(r) <= 1
    /\ \A r \in Runs : ~done /\ Cached(St, r) =>
       \/ cache[r].act = "none" \/ r \in dropped
       \/ IF cache[r].act = "Autocomplete" THEN InAuto(r) ELSE AtLang(r) = 1

(* A caller that waits for the outcome of its completion will get it: the   *)
(* completion is still on its way to the stream, or the run keeps its       *)
(* channel while it waits for a page of history or for local activities.    *)
CallerWillBeAnswered ==
    \A c \in Callers, r \in Runs :
       call[c][r] = "sent" =>
         \/ done \/ r \in dropped
         \/ \E i \in DOMAIN local : local[i].t = "complete" /\ local[i].run = r /\ local[i].chan = c
         \/ /\ Cached(St, r)
            /\ \/ \E d \in Range(cache[r].laDat) : d.chan = c
               \/ \E d \in Range(cache[r].page) : d.chan = c

(* The cache never holds more runs than max_cached_workflows (one, when     *)
(* caching is off), although evictions wait for lang while tasks of other   *)
(* runs keep coming; the LRU order is of exactly the cached runs, and what  *)
(* is kept for each is of its type.                                         *)
CacheBounded ==
    /\ TypeOK
    /\ Len(lru) <= LruSize /\ Len(lru) = Cardinality(CachedRuns(St))
    /\ Range(lru) = CachedRuns(St)

Quiescent ==
    /\ ~done /\ local = <<>> /\ acts = <<>> /\ fetch = {}
    /\ \A r \in Runs :
          /\ lang[r] = "none" /\ call["lang"][r] = "idle" /\ call["auto"][r] = "idle"
          /\ Cached(St, r) => cache[r].las = 0

(* Nothing is left lying when nobody has anything left to do: no cached run *)
(* keeps a task, a buffered task, an activation or an eviction, and no task *)
(* waits for a slot of a cache that holds a run it could displace.  Three   *)
(* exceptions: a dropped poll; a broken run whose legacy query was failed   *)
(* quietly, which keeps its task (complete_wft refuses); and a task left in *)
(* the buffer when the last run of the cache went away without taking it    *)
(* up, of which nothing is said (lru is empty).                             *)
NoTaskStranded ==
    Quiescent /\ dropped = {} =>
      /\ lru # <<>> => full = <<>>
      /\ \A r \in CachedRuns(St) :
            \/ ~HasAnyPendingWork(cache[r], FALSE, FALSE)
            \/ cache[r].broken /\ cache[r].evict.why = "none"

(* The stream ends on shutdown only when nobody outside works for it: lang  *)
(* holds no activation and reports no completion, but evictions when they   *)
(* are to be ignored, and the poll loop completes nothing by itself.        *)
ShutdownWaits ==
    done /\ asserts \cap Trouble = {} =>
       \A r \in Runs \ dropped :
          /\ ~InAuto(r)
          /\ AtLang(r) = 0 \/ (ignore /\ cache[r].act = "Eviction")

=============================================================================
