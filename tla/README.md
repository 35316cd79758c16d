# Formal models of the Temporal SDK for Elixir

The repository is a Temporal SDK for Elixir in three layers:

1. **Elixir** (`lib/temporal`): `Temporal.Client`, a GenServer that owns one
   connection, its configuration, payload converters, and the stubs of the
   native functions.
2. **NIF** (`native/temporal_nif`): Rust functions that run on dirty schedulers
   and wrap the SDK's client and worker in two resources.
3. **SDK core** (`sdk-core`, vendored as source and built with the NIF): the
   worker itself — pollers, slots, activities, local activities, workflow
   tasks and their state machines — and the retrying gRPC client.

This directory holds TLA+ models of the parts where the order of concurrent
steps decides whether the SDK is right, TLC configurations that check them, and
TLAPS proofs of the main safety properties for all values of the parameters.
`PROJECT.json` lists components, runs, mutants, the map from definitions to
source lines, hazards and theorems.

## Running it

    tlc -workers 2 -config NifWorker.cfg MCNifWorker     # any run of PROJECT.json
    tlapm NifWorkerProofs.tla                            # any *Proofs module

The runs that `PROJECT.json` lists end without an error, the slowest in less than four
minutes. Seven more configurations are kept beside them: each ends with a counterexample,
which shows a place where the code does other than its own comment says (*Counterexamples*
below).

## Inventory

| Part | State it keeps | Operations | Talks to | What is hard | Model |
|---|---|---|---|---|---|
| NIF worker resource (`worker.rs`, poll NIFs of `lib.rs`) | `is_running` flag, SDK worker behind a tokio mutex | start, two polls with a 60 s limit, stop | Elixir processes, core worker | flag outside the mutex, start race, polls behind a long poll | `NifWorker` |
| Elixir client process (`client.ex`, client NIFs) | status, client resource, attempts, mailbox | connect, start / signal / query workflow, status, stop | callers, NIF, server | 5 s caller timeouts, kills inside a NIF, restart, retries whose answer is lost | `TemporalClient`, contract in `ClientContract` |
| SDK retry client (`retry.rs`, `raw.rs`) | attempt count per call | one RPC with retries | server | a retry of what was already done | inside `TemporalClient` (partly) |
| Slot permits (`abstractions.rs`, `fixed_size.rs`) | four counters, close flag, token | acquire, try, use, drop, close | pollers, eager starts, shutdown | lock-free counters, weak memory order of the close handshake | `PermitDealer` |
| Activity heartbeats (`activity_heartbeat_manager.rs`) | tracked tokens, pending flushes, channel | record, evict, report and throttle completion, shutdown | activities, server | throttling with reports in flight, eviction during a report | `HeartbeatManager` |
| Remote activities (`activities.rs`) | outstanding map, cancels channel, completion notify, completers lock | poll, complete, record heartbeat, eager starts, local timeouts, shutdown | pollers, heartbeats, language side | shutdown against completions, cancels from four sources, grace period | `ActivityTasks` |
| Local activities (`local_activities.rs`, `retry_logic.rs`) | outstanding ones, channel of requests, timers, backoffs, slots | enqueue, dispatch, complete, cancel, evict, wait for all | workflows, language side | timeouts against completions, retries, eviction and replay | `LocalActivities` |
| Workflow tasks (`workflow/mod.rs`, `workflow_stream.rs`, `managed_run.rs`, `run_cache.rs`, `wft_extraction.rs`) | run cache, buffered tasks, outstanding activations, waiting completions | one loop over tasks, completions, local results, evictions, fetches | pollers, local activities, server, language side | many inputs for one run in any order, cache pressure, automatic completions | `WorkflowRuns` |
| Workflow state machines (`machines/*`, `workflow_machines.rs`) | a machine per command, commands of the task, jobs | commands of lang, history events, cancels | history | replay must repeat what was first done, cancels race results | `MachineTables`, `CommandMachines` |
| History paging (`history_update.rs`) | event queue, page token, current update | fetch, extract, take and peek at sequences | server, machines | page boundaries inside a workflow task | `HistoryPaging` |
| Task pollers (`poll_buffer.rs`, `wft_poller.rs`, `pollers/mod.rs`) | open polls, buffers, target, backlog | poll, scale, balance, shut down | permits, server | slots shared by two queues, draining at shutdown | `TaskPollers` |
| Nexus tasks (`nexus.rs`) | outstanding map, cancels channel | poll, complete, time out, shut down | pollers, language side | wake-ups that nobody gets | `NexusTasks` |
| Core worker (`worker/mod.rs`) | shutdown token | polls, completions, shutdown order | all managers | order of draining | its entry points in the modules of the parts (partly) |
| Client configuration (`config.ex`, `envconfig.rs`), payload converters, worker registry | – | pure functions, a table | client, server | precedence, two implementations of one format | not yet |
| Tuner, replay, telemetry, ephemeral server, protobufs, C bridge, Rust SDK prototype, macros, NIF stubs | see `PROJECT.json` | | | numeric control, I/O, generated or unused code | not planned |

What makes each modelled part correct, in one line each: polls of one resource
exclude each other and find a worker; a client call is executed at most once and
answered or ended; a slot is never lost or handed out twice and closing ends;
the latest heartbeat reaches the server and eviction forgets; each activity is
cancelled at most once, its result reported, its slot returned, and the end of
polling is final; a run has one activation out at a time, its caller is
answered and no task is stranded; replay does what was first done; a local
activity is executed once and resolved, whatever is evicted; how history comes
in pages does not show; each queue is polled and shutdown ends.

## Modules

Each component module declares its parameters as `CONSTANTS` with a named
assumption, its state as `VARIABLES`, one action per handler or per piece of a
handler between two awaits (or between two atomic operations where threads share
memory), `Spec`, and, where progress is checked, `FairSpec`. Properties follow at
the end. Operators called `Mut_...` stand before the definition they replace;
each is a plausible mistake in the code that makes a named property fail, and
none is used by the specification.

### NifWorker

`worker.rs` and the two poll NIFs. A caller's call runs through the points
`load` (read `is_running`), `init` (create an SDK worker, no lock held),
`lock_init`, `install`, `store`, then `check`, `lock_poll`, `polling`; workflow
polls may pass through `autofail`, the core's completion of a broken task inside
a poll. The 60 s timeout may drop the future at every await inside it but not at
the first lock. What a call returns to Elixir (the sanitised error texts) is left
out: no property depends on it. The core worker is external: it has slots per
kind, tasks take slots, and since the completion NIFs are stubs, nothing gives
them back. `stop` exists in the Rust code but no NIF calls it at this commit; the
properties of the start are stated up to the first `stop` (`NoStopYet`), the
exclusion of polls and the return of every call with any number of them.

### TemporalClient and ClientContract

The GenServer, one message at a time, with the NIF it blocks in. `Handle` takes
a message; a request may connect first (`ensure_connected`), then prepares its
parameters, which may be refused, raise, or silently lose their input, then runs
the retry loop. Each attempt is a message on `network` that the server may apply
or lose, with its answer possibly lost. Callers leave after 5 s. The process can
be stopped, crash, or be killed while in the NIF, in which case the RPC goes on
as an orphan. A supervisor restarts it with fresh state. The server is external
and runs a request once per request id.

`ClientContract` is the abstract specification: effects at most once per request
id, an `ok` only for what took effect, a refusal only for what did not and never
will. `ImplementsContract` is the refinement, checked by TLC and proved.

### PermitDealer

One step per atomic operation of `abstractions.rs`. The state counts tasks per
program point and permits per stage instead of naming them: tasks of one entry
point are interchangeable, so nothing is lost and the instances stay small.
`StoreDelays` lets the store of `close()` become visible later than the load
that follows it, which Acquire/Release permits.

### HeartbeatManager

The loop takes one message from the channel per step; reports and throttle
sleeps run beside it and send their completion back. The n-th heartbeat of an
activity carries details `n`, so "latest" and "in order" can be stated. Callers
obey the documented rule that nothing is recorded after an eviction, which
`WorkerActivityTasks` ensures by removing the entry first.

### ActivityTasks

`worker/activities.rs`, built on the promises of the two modules before. The
semaphore of eager starts is cut where a try and `close()` can cross, as in
`PermitDealer`: `ReserveSlot` passes the check of the flag, `CountReservation` counts,
`TakeSlot` or `ReserveFails` follows, and `DropTracked` gives back; `close()` stores its flag, which others may see
later, and then looks at the count. A reservation may thus be counted after the close has
completed, and a close may never complete (`missed`). `evict()` returns while
the heartbeat manager's loop runs. The stream behind `poll()` is one task, so the
handling of one item is one step; cancels come before starts, eager starts before
polled ones. The end of the stream is the arm of `take_until`: it waits for the
end of the starts, looks at the map, registers for a wake-up, and looks again.
`complete()` is cut at its three awaits (eviction, lock, RPC), `shutdown()` at
its lock, at the wait for `poll()`, and at the end. `known_not_found` is set
exactly with the issued reason, so it is read off `issued`.

### WorkflowRuns

The stream of `workflow_stream.rs` takes one input per step; its handlers
(`IncomingWft`, `SuccessfulCompletion`, `FailedCompletion`, `RequestEviction`,
`PostActivationInput`, ...) are operators on a record of the stream's state,
called in the order of the code and ending, like there, in `update_to_acts`
(`UpdateToActs`). Around it run the poll loop, which hands activations to lang
or completes them by itself (`Poll`), the completion calls of lang and of the
poll loop (`LangCompletes`, `Report`), the fetches and timers. What a run's
machines answer — jobs, local activities, errors, the end of the workflow — is
chosen by an oracle. The server has at most one open task per run, sends it
again when it failed, and, when `late` is set, may time it out while the worker
holds it; open polls go on delivering tasks after shutdown has begun. A report may be
refused, also because it is too large, in which case the task is failed in its place.
Assertions of the code are recorded in `asserts` when they fail.

### MachineTables and CommandMachines

`MachineTables` has a section per machine file: the `fsm!` table, the machine
commands its handlers return, what `adapt_response` makes of them and the events
it knows. `CommandMachines` drives the machines as `workflow_machines.rs` does:
commands are prepared, sent, matched by order with the events that come back,
cancelled before or after. The worker may lose the run at any moment and
replays; lang repeats its `script`. The server lets operations proceed and keeps
events back while a workflow task is open.

Lang may cancel an operation at any time after it was started, twice if its budget
allows, also before its command is sent, between its initiation and its start, and after
it has been told of the end. The server sends every event it has for a kind, the answers
to the cancel request of a Nexus operation included. Where a machine has no transition or
returns an error the workflow task fails, the run is broken (`w.broken` says with which
kind, cancellation type, state and event) and nothing more happens to it. `Gaps` lists
the combinations in which the code does that; they are explained under *What the models
showed*.

### LocalActivities

`LocalActivityManager` with the poll that serves it and the completions of lang.
An activity is requested, queued, dispatched with a permit, completed, failed,
retried after a backoff, cancelled, timed out in three ways, and requested again
by the replay of an evicted run. A task token is the activity with a count, so
that late news of an earlier dispatch can be told from the present one. Timers
that the code forgets to abort stay in `stale`.

### HistoryPaging

`FindEnd` is `find_end_index_of_next_wft_seq`; `GetNextPage` and `Extract` are
the paginator, `Apply` the loop that applies sequences. The MC module makes
histories out of blocks (a failed task, a heartbeat, work, a signal, an update) with an
open, completed or terminated end, and cuts them into pages at every place, with empty
pages in front, between or at the end. A task of a run that should be cached brings the
first page of the events since the last one, and a token for the rest; when the run is
not cached after all, what was extracted is kept and the history is listed from the start
(`FromFetchReq`). The
reference is `Reference`: where the sequences end when the whole history is there.

### TaskPollers and NexusTasks

`TaskPollers` has a loop per buffer (`idle`, `top`, `delay`, `acquire`, `reserve`,
`allow`, `drain`, `ended`: the awaits of the loop in `LongPollBuffer::new` and, for
`acquire` and `reserve`, the two of `acquire_owned`: for the number of permits to be below
`max_permits`, and for a slot), counts of
open and returned polls, the buffered answers, the target of the scaler, and the
stream that takes the answers. A workflow worker has two buffers that share the
slots; `Allowed` is `wait_if_needed`. `NexusTasks` extends it with the
`NexusManager`, whose stream ends through `ending`: look at the map, register,
wait. One module, two kinds of worker: what is taken from the stream of workflow
tasks is handled by `WorkflowRuns` and here only holds its slot.

## Runs

| Run | What is checked | Bounds and why they suffice |
|---|---|---|
| `nif_worker` | exclusive core polls, every call returns; until a stop also: `is_running` implies an installed worker, one SDK worker per caller, a started poll finds a worker, the installed worker is final once no start is under way | two callers and a stop, two creations, one slot, fair: the start race needs two callers, and a slot that is taken is never given back |
| `client` | consistent connection state, at most one effect, no forgotten call, refinement of the contract, the queue drains or the process dies | two calls, two attempts, one restart, one chosen request id, fair: a duplicate needs two attempts, a kill one restart. `connect_on_start` is on; a failed connection leads to the same states as leaving it off |
| `permit_safety` | counters agree with the permits, the limit is exceeded by less than the concurrent acquirers, a close that has not completed has somebody who will still look at the count (or was missed in one of two ways), completion is sound | four tasks on all three entry points, limit 1 and five slots (as many as the bound on the overshoot allows and one more), delayed store |
| `permit_liveness` | a waiter is served, close completes unless a try fails | one waiter, two tries, two slots, no limit, fair |
| `heartbeat` | throttling, exactly one wake-up per tracked token, eviction forgets, order, eviction returns, latest details reported | two activities with two heartbeats: one in flight, one kept; shutdown at any moment; fair |
| `activity_safety` | slots, single cancels, results, heartbeats outlive activities; after `ShutDown` from `poll()` nothing is queued or run, and what still is reserved had passed the check before the close | an eager activity with a timeout and a polled one, one cancelling heartbeat answer each, two slots |
| `activity_liveness` | everything is cancelled after the grace period; `poll`, `complete` and `shutdown` do not wait in a circle, unless a wake-up or the close was missed | as above without heartbeat answers, wake-up registered at once, fair |
| `workflow_runs` | the assertions of the code; an activation that is out is with somebody; every caller will be answered; the cache stays within its bounds and strands no task; the stream ends only when nobody works for it | two runs, a cache of none or one, two tasks, one local activity, one fault, two heartbeats, late tasks and dropped polls: two runs compete for one slot, and each fault is met at every place. The second heartbeat that breaks an assertion needs a third task: `WorkflowRuns_beat.cfg` below |
| `command_machines` | replay sends the same commands and jobs; lang is told what became of an operation, once (but for `EarlyNotices`); a command cancelled before it is sent is never sent; a cancel reaches the server; the machines fail in the orders of `Gaps` and no other | an operation of every kind and cancellation type alone, cancelled up to twice, and beside a timer, each cancelled once; two commands per activation, three tasks, one signal, one eviction: a command moves only when one before it goes, and a second cancel needs one operation |
| `local_activities` | permits are conserved, an activity is executed once at a time and resolved once, every request is resolved, the wait for the outstanding ones ends | one activity with all timeouts, two attempts and an eviction, or two that compete for one slot; fair. Also checked once: no bound on the backlog (6.5 million), two activities with eviction (0.7 million) |
| `history_paging` | nothing the code guards against happens and no loop spins; the sequences are those of the whole history, each with the next one to look at | up to three tasks after the first, one cut anywhere, pages of one and two events, an empty page in any place, one failing fetch; first delivery, cached run with its new events in pages, cache miss and query: where a sequence ends depends on two events after it at most, which one cut separates |
| `task_pollers` | slots are conserved, targets and polls within bounds, both queues keep a poll, tasks are handed on, cancels after the grace period; each queue is polled again and again where slots run out before permits, and some queue otherwise; shutdown ends | two queues on two slots with three permits and with two; scaled Nexus polls, two tokens, one timed; a single poll without grace; fair |

### Counterexamples

Seven configurations check one sentence of the source each, and TLC finds it violated. They
are small: the bounds are those of a short counterexample. They are not among the runs of
`PROJECT.json`, which are the ones that end without an error.

| Configuration | Sentence | What TLC shows |
|---|---|---|
| `PermitDealer_handout.cfg` | "Once closed, no permits will be handed out." (`abstractions.rs:243`) | `close()` completes between a try's check of the flag (`:292`) and its count (`:295`); the try gets its permit |
| `PermitDealer_failedtry.cfg` | close_complete "Returns after close has been requested and all outstanding permits have been returned." (`:283`) | the failing try that was counted while `close()` looked takes its count back without a look of its own (`:298`); nobody completes the close |
| `ActivityTasks_late.cfg` | "Receive half cannot be dropped" (`activities.rs:700`) | such a late reservation answers into a channel that the stream has closed: a panic, and an activity the server has started is lost |
| `WorkflowRuns_beat.cfg` | "It must be upheld." (`managed_run.rs:1058`) | with one local activity: a heartbeat, a task without jobs that restarts the timer (`:261`), an eviction at lang, a second heartbeat: two activations are outstanding |
| `CommandMachines_late.cfg` | "Ignore any spurious cancellations after resolution" (`signal_external_state_machine.rs:50`) | a signal that has failed has no `Cancel` row, nor has a terminated child |
| `CommandMachines_abandon.cfg` | "Nexus operation which don't have the ABANDON cancellation type cannot complete after being cancelled." (`nexus_operation_state_machine.rs:341`) | the test is the wrong way round: those of type Abandon cannot |
| `NexusTasks_permits.cfg` | "we always need to be able to poll the normal task queue as well as the sticky queue" (`worker/mod.rs:342`) | `wait_if_needed` compares with the slots; with fewer permits than slots the normal queue takes every permit |

## What the models showed

Each property is stated as strongly as the code keeps it; its provisos mark the
places where the code does less than one would hope, or than a comment says.
These were met while modelling, most of them as counterexamples.

*NIF worker.* `examples/worker_polling_example.exs:123` says that concurrent
polling is safe; two first polls can each create an SDK worker, and the second
replaces the first, whose tasks are lost (`worker.rs:205`). A `stop()` racing a
start leaves `is_running` set with no worker (`NoStopYet`). The completion NIFs
are stubs, so slots never come back.

*Client.* An input that no converter takes is replaced by none and the call
succeeds without it (`client.ex:487`; `payload_converter/chain.ex:12` promises
an error).

*Permits.* A try that passed the check before a `close()` is served after it, and a failing
try seen by `close()` leaves the close unfinished (*Counterexamples*). `max_permits` is checked before
an await and not after it (`OvershootBounded`). With the delayed store that Acquire/Release permits,
`close()` and the last drop can each miss the other (`StoreDelays`). `missed` marks the
two ways in which the close is left unfinished; `CompletionInHand` says there is no third.

*Heartbeats.* An eviction returns while the newest details are in flight, and two reports
may then be, which the server may answer in either order (`InOrderWhileRunning` ends with
the eviction).

*Activities.* An eager reservation that crosses the close is served after `ShutDown`, and
its answer panics (*Counterexamples*); a close that is missed makes `shutdown()` wait for ever.
Completing a not-found activity wakes nobody; if it is the last
one, shutdown hangs. `shutdown()` may return while a `complete()` waits for its
eviction, which then never ends. `notify_waiters` between the stream's look at the
map and its registration is lost (`MayPreempt`). The result of an activity that
timed out locally is dropped without the server having said anything.

*Workflow runs.* With workflows failed on nondeterminism, the automatic failure
takes itself for the answer to an eviction (`managed_run.rs:617`, `:1033`), as
it is not recorded as outstanding; the run of this project has `FailOnND` off. A
dropped poll (the NIF's 60 s timeout) inside an automatic completion leaves its
run with an activation nobody completes (`dropped`). The heartbeat timer does not ask
whether an activation is out (`SecondBeat`, *Counterexamples*); several local activities in one
run lead there as well. With an empty cache order (`lru`) a task in the buffer for a full
cache waits for a run that is not there to be evicted; `NoTaskStranded` exempts it. A broken
run whose legacy query was failed quietly keeps its task.

*Machines.* `Gaps` lists what fails the workflow task, though tests of the repository do
some of it (`nexus.rs:216-229` cancels twice and after the end, `child_workflows.rs:113`
a TryCancel child): an abandoned Nexus operation that finishes; an abandoned activity that
fails or times out; a child cancelled between its initiation and its start; a TryCancel
child that ends in another way after lang was told at once that it is cancelled; a second
cancel of an activity whose cancel is under way, or of a timer whose cancel has been sent
in the same task; a cancel of a failed signal or of a terminated child; the server's answer to
the cancel request of a Nexus operation (`NexusOperationCancelRequestCompleted` and
`...Failed` are routed to a machine that does not know them). A Nexus operation of type
TryCancel or Abandon that is cancelled after its command was recorded and before it has
started is resolved twice (`EarlyNotices`). `WaitRequested` of Nexus is treated as
`WaitCompleted`.

*Local activities.* Only an outcome that is just reported notifies the wait at
shutdown (`local_activities.rs:711`). A start-to-close timer of one try is not
aborted when the next starts and times that one out (`:950`). A cancel that meets
a backoff whose retry is already queued reports the activity cancelled and yet
dispatches it again; its entry stays behind, as it does for two other outcomes,
so that the request of a replayed run is ignored and never resolved. A cancel or a
schedule-to-close timeout of a queued activity is dropped. A stale cancel makes
`next_pending` return nothing, which the poll takes for the end during shutdown. The
stream of workflow inputs may end while a run waits for an activity, between two heartbeating tasks or with only its
eviction left; what is queued or backs off then is never run.
The wait at shutdown covers the outstanding activities, where the comment at
`worker/mod.rs:582` says all.

*History.* `has_last_wft` makes no difference to where a sequence ends. All
history up to the previous started task is fetched before the first update, since
sequences are counted from there. A page that failed to be fetched takes its
token with it; the run is evicted, so nothing is missed. Empty pages are skipped while
they bring a token, wherever they are.

*Pollers.* When one of two buffers comes to its end the stream does too, and
tasks that wait in the other are dropped, although a comment
(`poll_buffer.rs:272`) means to send out all received polls. After a backlog the
sticky queue may take every slot, although "at least one poller of both kinds"
is to be kept (`wft_poller.rs:105`). With as many slots as permits, or more, one queue may
take every permit (*Counterexamples*), and for ever: who waits for a permit waits on a `watch`,
which keeps no order (`PermitsMayRunOut`). A raised target does not wake the loop that
waits for it. *Nexus.* A malformed completion removes its task and notifies
nobody; if it was the last, shutdown hangs, as it does when a completion falls
between the look at the map and the registration (`past.missed`). `ShutDown` may
be returned while an answer is still on its way.

## Fairness

Weak fairness is assumed of what the runtime runs by itself: tasks that can go
on do, RPCs and long polls end (they have deadlines), sleeps end. Tokio's mutex
and semaphore serve waiters in order, which is why lock steps in `NifWorker` and
the waiting acquisition in `PermitDealer` have strong fairness. In
`ActivityTasks` the language side is assumed to call `poll()` until it returns
`ShutDown`; that it completes its activities is a hypothesis of
`ShutdownReturnsUnlessMissed` only (`EveryActivityCompletes`). In `LocalActivities`
the language side completes what it was given and polls until the end, local work
(or its end) is taken before the answer of the other half of the poll, whose select is
biased, timers that are armed fire or are dropped, and a run that waits is not evicted for
ever (the bound). In `TaskPollers` and `NexusTasks` loops and polls go on, an
acquisition of a slot that could be served again and again is (the semaphore keeps an
order), the wait for a permit has weak fairness only (it is on a `watch`, which keeps
none), and the language side polls and completes; nothing is assumed of the server's
advice, of the ticks of the scaler, or of timeouts. The runs of `WorkflowRuns`,
`CommandMachines` and `HistoryPaging` state progress without fairness: their
properties speak of states in which nobody has anything left to do, or bound
the turns of a loop. No fairness is assumed of
callers, of kills and restarts, of timeouts, or of the server's decisions. The
bound `MaxAnswers` stands for the throttling of heartbeats: without it an
endless supply of cancels could keep the stream from its starts.

## Proofs

TLC shows the properties for the bounds above; TLAPS proves these for every
value of the constants that satisfies the named assumptions.

* **NifWorkerProofs.** `Inv` ties the mutex holder to the program points that
  own the guard and each uninstalled SDK worker to its creator; exclusion
  follows. Up to the first `stop`, `StartInv` adds that every SDK worker's creator is
  still on its way or the flag is set, which gives `RunningMeansInitialized`,
  one worker per caller, and that the installed worker is final. The last two are
  not inductive alone: the flag is set after the installation, so the invariant
  must follow a creator through it.
* **TemporalClientProofs.** `Inv` says where each pending call is (mailbox, current,
  or answered), that an attempt exists only for a call whose parameters were
  accepted, and that each effect belongs to an applied request id. From it follow
  type correctness, the consistency of the connection state, at most one effect,
  that no call is forgotten, and `ClientImplementsContract`: every step is a step
  of the contract or leaves its variables alone.
* **PermitDealerProofs.** Each counter equals a sum over program points and
  permit stages. These equations are the invariant; the properties
  are read off. The lemmas on moves say how one task's step changes the sums.
  `CompletionStaysInHand` is about the close: as long as it has not completed, somebody
  who will still look at the count exists (a counted permit, a drop on its way, `close()`
  itself) or one of the two steps that let the last count go without a look was taken. It
  is inductive only with the counters: that a drop that looks finds the count it expects.
* **ActivityTasksProofs.** `Inv` consists of the slot equation, one clause per
  activity on cancels and on results, and `EndInv`, which orders the end:
  poller ended and polls gone, starts ended and nothing buffered, map empty and
  `poll()` told, heartbeats stopped. Each clause blocks the action that could undo
  the next one, which is why the final property needs all of them. That the channel of
  eager starts is closed, not that the semaphore is, keeps a late reservation from the
  queue: `ShutDownIsFinal` holds although reservations are handed out after the close.
* **HeartbeatManagerProofs.** `Inv` counts, per token, the reports, sleeps and
  queued messages. It tells a token whose evict the loop has yet to handle
  (`Live`) from one it is done with: a live token has one waker when tracked and
  none otherwise, a token that is done with is never tracked again because no
  heartbeat is queued behind its evict. One waker alone is not inductive: an
  evict while a report is in flight leaves a second report, and only the order
  in the channel shows that its completion finds the token untracked.
  `DetailsInv` adds the order answered < in flight < kept < queued, from which
  follows that the server is told of details in order.
* **LocalActivitiesProofs.** `Inv` has the slot equation and counts the copies of
  each activity (queued, backing off, outstanding): none without an entry in
  `la_info`, at most one with it, exactly one while the run waits for it. That
  what is outstanding carries its entry's token is needed for completions and
  cancels, which look the activity up by token.
* **NexusTasksProofs.** About `TaskPollers` and `NexusTasks` together. Slots are
  conserved because what a buffer holds changes by as much as the free slots do
  (`Slots`, with one lemma per way a buffer changes). That a queue never takes
  every slot is decided in `wait_if_needed`, several steps before the poll is
  opened: the invariant carries the decision through the wait for a slot and for
  the scaler. That a received task is lost only with two buffers at shutdown
  rests on loops that end without polls of their own, that cancels reach lang on
  no task coming after the stream's end.

The last three begin with the same few lemmas on what `Append` and `Tail` do to the
number of elements of a kind in a queue.

* **WorkflowRunsProofs.** `Invariant` is about one run at a time: every run whose poll
  was not dropped is `InOrder`. A completion is in one place, on its way to the stream
  or kept by the run, whose two places for one are never both taken; its caller then
  waits (`Clean`). Lang has one activation at most, counting the channel to it, its call
  and its post_activation (`OneAtLang`), and the run counts it as outstanding
  (`Outstanding`). `CallerWillBeAnswered` is not inductive without these: a second
  completion of the same run would overwrite the channel that the first one left in
  `completion_waiting_on_page_fetch` or in the wait for local activities, and what
  excludes it is that lang has one activation. Nor is that enough, because the poll
  loop completes autocompletes beside lang: `AutoFirst` orders an autocomplete before
  any activation for lang. `ShutdownWaits` needs the poll loop's activations counted as
  well: `AutoCounted` says that it has one of a run at most, from the channel to its
  post_activation, and that the run holds an autocomplete as outstanding meanwhile.
  `shutdown_done` asks the runs only, so what it finds of them tells of lang and of the
  poll loop by these two; `Over` is what is left of a run once the stream has ended, and
  no later step of lang or of a fetch adds to it. The unrecorded `AutoFail` of
  `update_err` is the one activation that is not counted, and `AutoCounted` is stated up
  to it, as `ShutdownWaits` is.
  The handlers are operators on the state of the stream, and their composition is proved
  without expanding them: `Quiet(s, t, q)` says what a handler that answers nobody may
  have done to run q, whichever run it was called for; `Answers`, `Stores`, `Takes` and
  `Handled` say what became of completions. There is one lemma per handler, the
  relations compose, and each action adds what it does to the channels. The two loops
  of the stream (tasks that became ready, evictions for tasks that wait) are functions
  over positions; that every turn is `Quiet` is an induction on the position with the
  property written as a set of positions, which keeps it first-order.
  `CacheStaysBounded` is about all runs at once. `TypesHold` says of the state of the
  stream and of everything around it what it consists of (`Typed`), and of the LRU order
  that it lists the cached runs, each once, and at most `LruSize` of them (`IsLru`). The
  bound alone is not inductive: that a run let in adds one place, that a run dropped
  gives one back and that a touch adds none rests on every cached run being listed once.
  A handler is called in the state that the one before it left, so each lemma asks only
  for `Typed(s)`, and the places where a run is added (`InstantiateOrUpdate`, after
  `is_full`) or dropped (`DropRun`) carry the bound.

Each module's last theorem, or last few, state what its run checks: `WorkerIsSafe`,
`ClientIsSafe`, `DealerIsSafe`, `TasksAreSafe`, `TokensAreConsistent`,
`PermitsAlwaysConserved` with `ExecutedOnlyOnce`, `PollingIsSafe`, `CallersAnswered`
with `OneActivationAtLang`, `StreamWaitsForAll` and `CacheStaysBounded`.

The assumptions are what the code guarantees: finite sets of activities and
tasks, at least one slot and one attempt, and for the pollers what
`PollerBehavior::validate` checks (1 <= min <= initial <= max). Bounds on
heartbeats, evictions or backlog are any natural number.

Only model-checked: all liveness properties (the prover does not do fairness),
everything about `CommandMachines` and `HistoryPaging`, and three properties of
`WorkflowRuns`. What the first two compute is recursion over histories and lists of
commands, which needs induction over data and is out of the prover's reach. The three of
`WorkflowRuns` hold only within the bounds of its run: `AssertionsHold` names the one
cause of a second activation, which several local activities in one run or a third task
can bring about (`WorkflowRuns_beat.cfg`), and was not tried beyond them;
with `FailOnND` TRUE `ActivationHeld` and `NoTaskStranded` fail in a run whose
task was failed by an unrecorded `AutoFail` (its eviction is recorded but never
sent, see *Workflow runs* under What the models showed), so none of the three is a
theorem for every value of the constants. What remains true of `ActivationHeld` then
is `OneActivationAtLang`, with its two provisos: the stream has not stopped at that
panic, and no poll of the run was dropped.

## Abstractions

Time is left out everywhere: a timeout may happen whenever it is armed, which
includes all real orders and some that durations exclude. Payloads, task tokens
and names are opaque. Metrics, tracing and log output are left out. Counters that
could grow for ever are bounded by a named constant in the guard of the action
that raises them. `DashMap` operations and tokio channel sends are single steps;
walking a map while entries are removed is one step because a cancel for a
removed entry is ignored. The weak memory model appears only in `PermitDealer`,
where the code relies on it.

## Not modelled

* **Machines without a table**: local activity, patch and update markers, the
  workflow task machine, and the protocol messages of updates. Local activities
  are followed up to their resolution; how the marker makes it durable is not.
* **Eager activities** inside a workflow task completion (their slots are in
  `ActivityTasks`), sticky queue names, build ids and metering.
* **Core worker**: construction, validation, `replace_client` and the order of
  the waits in `Worker::shutdown`.
* **Pure functions**: client configuration, payload converters, how long a
  backoff or a throttle interval is.
* **Resource-based tuner**: a controller over floating-point measurements.
* **Telemetry, ephemeral server, replay harness, C bridge, Rust SDK prototype,
  protobuf conversions, test utilities**: I/O, wrappers, generated code, or not
  used by the Elixir SDK. They make up most of the lines that no definition
  stands for; tests account for much of the rest.

## Plan

Done: `NifWorker`, `TemporalClient` with `ClientContract`, `PermitDealer`,
`HeartbeatManager`, `ActivityTasks`, `LocalActivities` and `TaskPollers` with
`NexusTasks`, model-checked and proved; `WorkflowRuns`, model-checked and proved in
part; `MachineTables` with `CommandMachines`, and `HistoryPaging`, model-checked.
Next:

1. Proofs: `ActivationHeld` and `NoTaskStranded`, which need a proviso that leaves out
   the runs with an unrecorded `AutoFail`, as `OneActivationAtLang` has one for its panic.
2. Marker machines (local activity, patch, update) in `MachineTables`, with the
   look-ahead of `HistoryPaging` that finds their events.
3. The worker registry with eager workflow starts; the shutdown order of the
   core worker over the promises of the managers.
4. Configuration (`config.ex`, `envconfig.rs`) and the two converter chains as
   functions against reference definitions.
