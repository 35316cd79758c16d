----------------------------- MODULE NifWorker -----------------------------
(***************************************************************************)
(* The worker resource of the Elixir NIF: WorkerResource in worker.rs and  *)
(* the two poll NIFs of lib.rs that drive it.                              *)
(*                                                                         *)
(* Every poll NIF runs on a dirty scheduler thread of its own, so polls of *)
(* one resource interleave freely.  They share an AtomicBool (is_running)  *)
(* and a tokio mutex around the optional SDK Core worker (core_worker).    *)
(* The SDK Core worker itself is external here: what the NIF sees of it is *)
(* that a poll may hand out a task while a slot is free, that it may fail, *)
(* that after a fatal failure it shuts down, and that workflow polls may   *)
(* first auto-fail a broken task before they continue to wait.             *)
(***************************************************************************)
EXTENDS Naturals, FiniteSets

CONSTANTS
  Callers,      \* Elixir processes that call the poll NIFs
  Stoppers,     \* calls of WorkerResource::stop (no NIF makes one: {} is what ships)
  MaxWorkers,   \* bound on the number of SDK Core workers ever created
  Slots,        \* max_outstanding_workflow_tasks = max_outstanding_activities
  NoProc        \* "nobody"

Kinds == {"wft", "act"}
Procs == Callers \cup Stoppers
Workers == 1..MaxWorkers
NoWorker == 0

ASSUME NifAssumption ==
  /\ Callers \cap Stoppers = {}
  /\ NoProc \notin Procs
  /\ MaxWorkers \in Nat
  /\ Slots \in Nat \ {0}        \* WorkerResource::new refuses 0
  /\ IsFiniteSet(Callers)

VARIABLES
  is_running,   \* WorkerState::is_running
  core_worker,  \* the Option inside the mutex: NoWorker or the installed SDK worker
  holder,       \* who holds the mutex guard
  pc,           \* where each call is
  kind,         \* which of the two poll NIFs a caller is in ("wft" while in none)
  mine,         \* the SDK worker a caller has created and not yet installed
  created,      \* how many SDK workers init_worker has returned
  creator,      \* who created each of them
  draining,     \* SDK workers that have begun their own shutdown
  outstanding,  \* slots in use per SDK worker and kind
  abandoned     \* SDK workers dropped without a shutdown

vars == <<is_running, core_worker, holder, pc, kind, mine, created, creator,
          draining, outstanding, abandoned>>

\* Program points.  Those in Holding own the mutex guard.
Starting == {"load", "init", "lock_init", "install", "store"}
Holding  == {"install", "store", "polling", "autofail", "clear"}
Timed    == {"lock_poll", "polling", "autofail"}   \* awaits inside timeout(60s, ..)
PC == {"idle", "check", "lock_stop", "clear", "stopped"} \cup Starting \cup Timed

Init ==
  /\ is_running = FALSE
  /\ core_worker = NoWorker
  /\ holder = NoProc
  /\ pc = [p \in Procs |-> "idle"]
  /\ kind = [p \in Procs |-> "wft"]
  /\ mine = [p \in Procs |-> NoWorker]
  /\ created = 0
  /\ creator = [w \in Workers |-> NoProc]
  /\ draining = {}
  /\ outstanding = [w \in Workers |-> [k \in Kinds |-> 0]]
  /\ abandoned = {}

----------------------------------------------------------------------------
(* Steps of a call.                                                        *)

Goto(p, label) == pc' = [pc EXCEPT ![p] = label]

\* A call ends: the guard, if it holds one, is dropped with the future.
Return(p) ==
  /\ pc' = [pc EXCEPT ![p] = "idle"]
  /\ kind' = [kind EXCEPT ![p] = "wft"]
  /\ holder' = IF holder = p THEN NoProc ELSE holder

CoreUnchanged == UNCHANGED <<created, creator, draining, outstanding, abandoned>>

\* worker_poll_workflow_task / worker_poll_activity_task called from Elixir.
Call(c, k) ==
  /\ pc[c] = "idle"
  /\ Goto(c, "load")
  /\ kind' = [kind EXCEPT ![c] = k]
  /\ UNCHANGED <<is_running, core_worker, holder, mine>> /\ CoreUnchanged

\* initialize_core_worker: the relaxed load that decides whether to start.
LoadIsRunning(c) ==
  /\ pc[c] = "load"
  /\ Goto(c, IF is_running THEN "check" ELSE "init")
  /\ UNCHANGED <<is_running, core_worker, holder, kind, mine>> /\ CoreUnchanged

\* Mutant: is_running is set before the worker is behind the mutex.
Mut_StoreBeforeInstall(c) ==
  /\ pc[c] = "init"
  /\ created < MaxWorkers
  /\ created' = created + 1
  /\ creator' = [creator EXCEPT ![created + 1] = c]
  /\ mine' = [mine EXCEPT ![c] = created + 1]
  /\ is_running' = TRUE
  /\ Goto(c, "lock_init")
  /\ UNCHANGED <<core_worker, holder, kind, draining, outstanding, abandoned>>

\* init_worker returned a new SDK worker; it is not visible to anybody yet.
InitWorker(c) ==
  /\ pc[c] = "init"
  /\ created < MaxWorkers
  /\ created' = created + 1
  /\ creator' = [creator EXCEPT ![created + 1] = c]
  /\ mine' = [mine EXCEPT ![c] = created + 1]
  /\ Goto(c, "lock_init")
  /\ UNCHANGED <<is_running, core_worker, holder, kind,
                 draining, outstanding, abandoned>>

\* The configuration is refused or init_worker fails: start().await? returns.
InitFails(c) ==
  /\ pc[c] = "init"
  /\ Return(c)
  /\ UNCHANGED <<is_running, core_worker, mine>> /\ CoreUnchanged

\* The lock in start() is awaited outside the 60 s timeout.
LockForInit(c) ==
  /\ pc[c] = "lock_init"
  /\ holder = NoProc
  /\ holder' = c
  /\ Goto(c, "install")
  /\ UNCHANGED <<is_running, core_worker, kind, mine>> /\ CoreUnchanged

\* *core_worker_guard = Some(..): whatever was there is dropped.
Install(c) ==
  /\ pc[c] = "install"
  /\ core_worker' = mine[c]
  /\ mine' = [mine EXCEPT ![c] = NoWorker]
  /\ abandoned' = abandoned \cup ({core_worker} \ {NoWorker})
  /\ Goto(c, "store")
  /\ UNCHANGED <<is_running, holder, kind, created, creator, draining,
                 outstanding>>

\* is_running.store(true), then the guard goes out of scope.
StoreRunning(c) ==
  /\ pc[c] = "store"
  /\ is_running' = TRUE
  /\ holder' = NoProc
  /\ Goto(c, "check")
  /\ UNCHANGED <<core_worker, kind, mine>> /\ CoreUnchanged

----------------------------------------------------------------------------
(* poll_workflow_task and poll_activity_task, inside timeout(60s, ..).     *)

CheckRunning(c) ==
  /\ pc[c] = "check"
  /\ \/ /\ is_running
        /\ Goto(c, "lock_poll")
        /\ UNCHANGED <<holder, kind>>
     \/ /\ ~is_running
        /\ Return(c)
  /\ UNCHANGED <<is_running, core_worker, mine>> /\ CoreUnchanged

\* Mutant: the poll uses the worker without waiting for the guard.
Mut_PollWithoutGuard(c) ==
  /\ pc[c] = "lock_poll"
  /\ core_worker # NoWorker
  /\ Goto(c, "polling")
  /\ UNCHANGED <<is_running, core_worker, holder, kind, mine>> /\ CoreUnchanged

\* The guard is acquired and, if a worker is installed, kept across the
\* await of the core poll.
LockForPoll(c) ==
  /\ pc[c] = "lock_poll"
  /\ holder = NoProc
  /\ \/ /\ core_worker # NoWorker
        /\ holder' = c
        /\ Goto(c, "polling")
        /\ UNCHANGED kind
     \/ /\ core_worker = NoWorker
        /\ Return(c)
  /\ UNCHANGED <<is_running, core_worker, mine>> /\ CoreUnchanged

\* The core hands out a task: a slot is taken, and since the completion NIFs
\* are stubs that answer :error, nothing ever gives it back.
PollTask(c) ==
  LET k == kind[c] IN
  /\ pc[c] = "polling"
  /\ outstanding[core_worker][k] < Slots
  /\ outstanding' = [outstanding EXCEPT ![core_worker][k] = @ + 1]
  /\ Return(c)
  /\ UNCHANGED <<is_running, core_worker, mine, created, creator, draining,
                 abandoned>>

\* A cancel task for an outstanding activity (its local timeout elapsed):
\* convert_activity_task turns it into an error and the cancel is gone.  (That
\* the core issues one cancel per activity is left out.)
PollCancel(c) ==
  /\ pc[c] = "polling"
  /\ kind[c] = "act"
  /\ outstanding[core_worker]["act"] > 0
  /\ Return(c)
  /\ UNCHANGED <<is_running, core_worker, mine>> /\ CoreUnchanged

\* Mutant: a fatal poll error resets the resource, so that the next poll restarts it.
Mut_FailedPollResets(c) ==
  /\ pc[c] = "polling"
  /\ core_worker \notin draining
  /\ draining' = draining \cup {core_worker}
  /\ is_running' = FALSE
  /\ core_worker' = NoWorker
  /\ abandoned' = abandoned \cup {core_worker}
  /\ Return(c)
  /\ UNCHANGED <<mine, created, creator, outstanding>>

\* A fatal poll error: the core initiates its own shutdown and reports it.
\* Tasks it had already buffered may still surface while it drains.
PollFails(c) ==
  /\ pc[c] = "polling"
  /\ core_worker \notin draining
  /\ draining' = draining \cup {core_worker}
  /\ Return(c)
  /\ UNCHANGED <<is_running, core_worker, mine, created, creator,
                 outstanding, abandoned>>

\* PollError::ShutDown, once the core has shut down and drained this kind.
PollShutDown(c) ==
  /\ pc[c] = "polling"
  /\ core_worker \in draining
  /\ outstanding[core_worker][kind[c]] = 0
  /\ Return(c)
  /\ UNCHANGED <<is_running, core_worker, mine>> /\ CoreUnchanged

\* next_workflow_activation meets a task it must fail itself: it takes the
\* slot and awaits the report to the server before it polls on.
BeginAutoFail(c) ==
  /\ pc[c] = "polling"
  /\ kind[c] = "wft"
  /\ outstanding[core_worker]["wft"] < Slots
  /\ outstanding' = [outstanding EXCEPT ![core_worker]["wft"] = @ + 1]
  /\ Goto(c, "autofail")
  /\ UNCHANGED <<is_running, core_worker, holder, kind, mine, created, creator,
                 draining, abandoned>>

EndAutoFail(c) ==
  /\ pc[c] = "autofail"
  /\ outstanding' = [outstanding EXCEPT ![core_worker]["wft"] = @ - 1]
  /\ Goto(c, "polling")
  /\ UNCHANGED <<is_running, core_worker, holder, kind, mine, created, creator,
                 draining, abandoned>>

\* Mutant: only the wait for the guard is inside the timeout, not the poll.
Mut_TimeoutLockOnly(c) ==
  /\ pc[c] = "lock_poll"
  /\ holder # NoProc
  /\ Return(c)
  /\ UNCHANGED <<is_running, core_worker, mine>> /\ CoreUnchanged

\* The 60 seconds elapse: the poll future is dropped where it stands, and the
\* guard with it.  (A free mutex is taken at once, never waited for.)
Timeout(c) ==
  /\ pc[c] \in Timed
  /\ pc[c] = "lock_poll" => holder # NoProc
  /\ Return(c)
  /\ UNCHANGED <<is_running, core_worker, mine>> /\ CoreUnchanged

----------------------------------------------------------------------------
(* WorkerResource::stop.                                                   *)

StoreStopped(s) ==
  /\ pc[s] = "idle"
  /\ is_running' = FALSE
  /\ Goto(s, "lock_stop")
  /\ UNCHANGED <<core_worker, holder, kind, mine>> /\ CoreUnchanged

LockForStop(s) ==
  /\ pc[s] = "lock_stop"
  /\ holder = NoProc
  /\ holder' = s
  /\ Goto(s, "clear")
  /\ UNCHANGED <<is_running, core_worker, kind, mine>> /\ CoreUnchanged

ClearWorker(s) ==
  /\ pc[s] = "clear"
  /\ core_worker' = NoWorker
  /\ abandoned' = abandoned \cup ({core_worker} \ {NoWorker})
  /\ holder' = NoProc
  /\ Goto(s, "stopped")
  /\ UNCHANGED <<is_running, kind, mine, created, creator, draining, outstanding>>

----------------------------------------------------------------------------
CallerStep(c) ==
  \/ LoadIsRunning(c) \/ InitWorker(c) \/ InitFails(c) \/ LockForInit(c)
  \/ Install(c) \/ StoreRunning(c) \/ CheckRunning(c) \/ LockForPoll(c)
  \/ PollTask(c) \/ PollCancel(c) \/ PollFails(c) \/ PollShutDown(c)
  \/ BeginAutoFail(c) \/ EndAutoFail(c) \/ Timeout(c)

StopStep(s) == LockForStop(s) \/ ClearWorker(s)

Next ==
  \/ \E c \in Callers : (\E k \in Kinds : Call(c, k)) \/ CallerStep(c)
  \/ \E s \in Stoppers : StoreStopped(s) \/ StopStep(s)

Spec == Init /\ [][Next]_vars

(***************************************************************************)
(* Fairness: a call that can take a local step takes it (the dirty         *)
(* scheduler thread runs), the tokio timer fires, and tokio's mutex queues *)
(* its waiters in FIFO order, so a waiter that keeps finding the mutex     *)
(* free from time to time gets it.  Nothing is assumed of the server: a    *)
(* core poll may stay pending for ever.                                    *)
(***************************************************************************)
LocalStep(c) ==
  \/ LoadIsRunning(c) \/ InitWorker(c) \/ InitFails(c) \/ Install(c)
  \/ StoreRunning(c) \/ CheckRunning(c) \/ Timeout(c)

LockStep(c) == LockForInit(c) \/ LockForPoll(c)

Fairness ==
  /\ \A c \in Callers : WF_vars(LocalStep(c)) /\ SF_vars(LockStep(c))
  /\ \A s \in Stoppers : SF_vars(LockForStop(s)) /\ WF_vars(ClearWorker(s))

FairSpec == Spec /\ Fairness

----------------------------------------------------------------------------
(* Properties.                                                             *)

\* Every variable has its type.
TypeOK ==
  /\ is_running \in BOOLEAN
  /\ core_worker \in 0..MaxWorkers
  /\ holder \in Procs \cup {NoProc}
  /\ pc \in [Procs -> PC]
  /\ kind \in [Procs -> Kinds]
  /\ mine \in [Procs -> 0..MaxWorkers]
  /\ created \in 0..MaxWorkers
  /\ creator \in [Workers -> Procs \cup {NoProc}]
  /\ draining \in SUBSET Workers
  /\ outstanding \in [Workers -> [Kinds -> 0..Slots]]
  /\ abandoned \in SUBSET Workers

\* The contract of the core's poll functions ("Do not call poll concurrently"):
\* of all callers of both poll NIFs at most one is inside a core poll, and the
\* worker it polls is the installed one, which nobody has dropped meanwhile.
ExclusiveCorePoll ==
  /\ \A c, d \in Callers :
       pc[c] \in {"polling", "autofail"} /\ pc[d] \in {"polling", "autofail"} => c = d
  /\ \A c \in Callers :
       pc[c] \in {"polling", "autofail"} => core_worker \in 1..created /\ core_worker \notin abandoned

\* No call of stop() has begun.
NoStopYet == \A s \in Stoppers : pc[s] = "idle"

\* The "Already initialized" shortcut of initialize_core_worker is right: when
\* is_running is true there is an SDK worker behind the mutex.  This holds only
\* until the first stop(), which clears the worker long after its store(false)
\* and so after the store(true) of a start that came in between.
RunningMeansInitialized == NoStopYet /\ is_running => core_worker # NoWorker

\* As long as nobody stops the worker, a process starts at most one SDK worker,
\* however its polls interleave with those of others: the start race is
\* bounded by the number of processes that poll.
OneWorkerPerCaller ==
  NoStopYet => \A v, w \in 1..created : creator[v] = creator[w] => v = w

\* As long as nobody stops the worker, no poll is ever told that the worker is
\* not running or not initialised after its own start() succeeded.
StartedPollFindsWorker ==
  NoStopYet =>
    \A c \in Callers : pc[c] \in {"check", "lock_poll"} => is_running /\ core_worker # NoWorker

\* The worker resource is always coherent: of its types, the start shortcut is
\* right, starts are bounded by the processes, and a started poll finds a worker.
WorkerSafe ==
  /\ TypeOK
  /\ RunningMeansInitialized
  /\ OneWorkerPerCaller
  /\ StartedPollFindsWorker

\* Once the worker runs and no call is inside start(), no step but a stop()
\* replaces the installed SDK worker: only callers that raced the first start
\* do.  (This also says that a core that shut itself down is never restarted.)
StableWorker ==
  [][ (/\ NoStopYet' /\ is_running
       /\ \A c \in Callers : pc[c] \notin {"init", "lock_init", "install", "store"})
      => is_running' /\ core_worker' = core_worker ]_vars

\* Every call returns: pollers behind a poller that sits in a 60 s long poll,
\* first callers that wait for the mutex outside the timeout, and stop().
EveryCallReturns ==
  /\ \A c \in Callers : pc[c] # "idle" ~> pc[c] = "idle"
  /\ \A s \in Stoppers : pc[s] = "lock_stop" ~> pc[s] = "stopped"

(***************************************************************************)
(* The inductive strengthening.  The guard of the mutex is what ties the   *)
(* program points to the state: only the holder can be where core_worker   *)
(* is read or written, an uninstalled worker belongs to one call only, and *)
(* (while nobody stops) a process that has created a worker cannot be back *)
(* at "init" before its own store(true).                                   *)
(***************************************************************************)
LockInv ==
  /\ \A p \in Procs : holder = p <=> pc[p] \in Holding
  /\ \A c \in Callers : pc[c] \notin {"lock_stop", "clear", "stopped"}
  /\ \A s \in Stoppers : pc[s] \in {"idle", "lock_stop", "clear", "stopped"}

WorkerInv ==
  /\ core_worker \in 0..created
  /\ core_worker \notin abandoned
  /\ \A w \in abandoned : w <= created
  /\ \A p \in Procs : pc[p] \in {"lock_init", "install"} =>
       /\ mine[p] \in 1..created /\ creator[mine[p]] = p
       /\ mine[p] # core_worker /\ mine[p] \notin abandoned
  /\ \A p \in Procs : pc[p] \in {"store", "polling", "autofail"} => core_worker # NoWorker
  /\ \A p \in Procs : pc[p] = "autofail" => outstanding[core_worker]["wft"] > 0

StartInv ==
  /\ is_running => core_worker # NoWorker
  /\ \A c \in Callers : pc[c] \in {"check", "lock_poll"} => is_running
  /\ \A w \in 1..created :
       /\ creator[w] \in Callers
       /\ \/ pc[creator[w]] \in {"lock_init", "install", "store"}
          \/ is_running /\ pc[creator[w]] # "init"
  /\ \A v, w \in 1..created : creator[v] = creator[w] => v = w

Inv == TypeOK /\ LockInv /\ WorkerInv
NoStopInv == NoStopYet => StartInv
=============================================================================
