-------------------------- MODULE NifWorkerProofs --------------------------
(***************************************************************************)
(* Proofs about NifWorker for any number of pollers, stoppers, SDK workers *)
(* and slots.  Inv is inductive; NoStopInv is inductive relative to Inv.   *)
(***************************************************************************)
EXTENDS NifWorker, TLAPS

USE DEF Kinds, Procs, Workers, NoWorker, Starting, Holding, Timed, PC

\* Taking or giving back one slot keeps the slot counters typed.
LEMMA SlotType ==
  ASSUME TypeOK, NEW w \in Workers, NEW k \in Kinds, NEW n \in 0..Slots
  PROVE  LET o == [outstanding EXCEPT ![w][k] = n]
         IN  /\ o \in [Workers -> [Kinds -> 0..Slots]]
             /\ o[w][k] = n
             /\ \A v \in Workers, j \in Kinds : <<v, j>> # <<w, k>> => o[v][j] = outstanding[v][j]
BY DEF TypeOK

\* A call that returns gives up the mutex and nothing else changes hands.
LEMMA ReturnFacts ==
  ASSUME TypeOK, LockInv, NEW p \in Procs, Return(p)
  PROVE  /\ pc' \in [Procs -> PC] /\ holder' \in Procs \cup {NoProc} /\ kind' \in [Procs -> Kinds]
         /\ LockInv'
         /\ pc'[p] = "idle" /\ \A q \in Procs : q # p => pc'[q] = pc[q]
BY NifAssumption DEF TypeOK, LockInv, Return

\* The ownership of SDK workers survives a return that leaves them alone.
LEMMA ReturnKeepsWorkers ==
  ASSUME Inv, NEW p \in Procs, Return(p),
         UNCHANGED <<core_worker, mine, created, creator, abandoned>>,
         outstanding[core_worker]["wft"] > 0 => outstanding'[core_worker]["wft"] > 0
  PROVE  WorkerInv'
<1>1. \A q \in Procs : pc'[q] # "idle" => pc'[q] = pc[q]
  BY ReturnFacts DEF Inv
<1>2. \A q \in Procs : pc'[q] = "autofail" => outstanding'[core_worker']["wft"] > 0
  BY <1>1 DEF Inv, WorkerInv
<1> QED BY <1>1, <1>2 DEF Inv, WorkerInv

\* The state of a new WorkerResource satisfies the invariant.
LEMMA InitInv == Init => Inv
<1> SUFFICES ASSUME Init PROVE Inv
  OBVIOUS
<1>1. TypeOK
  <2>1. outstanding \in [Workers -> [Kinds -> 0..Slots]]
    BY NifAssumption DEF Init
  <2>2. /\ created \in 0..MaxWorkers /\ core_worker \in 0..MaxWorkers
        /\ mine \in [Procs -> 0..MaxWorkers]
    BY NifAssumption DEF Init
  <2> QED BY <2>1, <2>2 DEF Init, TypeOK
<1>2. LockInv
  BY NifAssumption DEF Init, LockInv
<1>3. WorkerInv
  BY NifAssumption DEF Init, WorkerInv
<1> QED BY <1>1, <1>2, <1>3 DEF Inv

\* Every step preserves typing, the mutex discipline and the ownership of SDK workers.
LEMMA StepInv == Inv /\ [Next]_vars => Inv'
<1> SUFFICES ASSUME Inv, [Next]_vars PROVE Inv'
  OBVIOUS
<1> USE NifAssumption DEF Inv
<1>0. \A p \in Procs : pc[p] \in {"polling", "autofail"} => core_worker \in Workers
  BY DEF TypeOK, WorkerInv
<1>1. ASSUME NEW c \in Callers, NEW k \in Kinds, Call(c, k) PROVE Inv'
  <2>1. TypeOK'
    BY <1>1 DEF TypeOK, Call, Goto, CoreUnchanged
  <2>2. LockInv'
    BY <1>1 DEF TypeOK, LockInv, Call, Goto, CoreUnchanged
  <2>3. WorkerInv'
    BY <1>1 DEF TypeOK, LockInv, WorkerInv, Call, Goto, CoreUnchanged
  <2> QED BY <2>1, <2>2, <2>3
<1>2. ASSUME NEW c \in Callers, LoadIsRunning(c) PROVE Inv'
  <2>1. TypeOK'
    BY <1>2 DEF TypeOK, LoadIsRunning, Goto, CoreUnchanged
  <2>2. LockInv'
    BY <1>2 DEF TypeOK, LockInv, LoadIsRunning, Goto, CoreUnchanged
  <2>3. WorkerInv'
    BY <1>2 DEF TypeOK, LockInv, WorkerInv, LoadIsRunning, Goto, CoreUnchanged
  <2> QED BY <2>1, <2>2, <2>3
<1>3. ASSUME NEW c \in Callers, InitWorker(c) PROVE Inv'
  <2>1. created + 1 \in Workers
    BY <1>3 DEF InitWorker, TypeOK
  <2>2. TypeOK'
    <3>1. created' \in 0..MaxWorkers /\ mine' \in [Procs -> 0..MaxWorkers]
      BY <1>3, <2>1 DEF TypeOK, InitWorker
    <3>2. creator' \in [Workers -> Procs \cup {NoProc}]
      BY <1>3, <2>1 DEF TypeOK, InitWorker
    <3> QED BY <1>3, <3>1, <3>2 DEF TypeOK, InitWorker, Goto
  <2>3. LockInv'
    BY <1>3 DEF TypeOK, LockInv, InitWorker, Goto
  <2>4. WorkerInv'
    <3>1. created \in Nat /\ created' = created + 1 /\ core_worker \in 0..created
      BY <1>3 DEF TypeOK, WorkerInv, InitWorker
    <3>2. \A w \in 1..created : creator'[w] = creator[w]
      BY <1>3, <2>1, <3>1 DEF TypeOK, InitWorker
    <3>3. mine'[c] = created + 1 /\ creator'[created + 1] = c /\ created + 1 \notin abandoned
      BY <1>3, <2>1, <3>1 DEF TypeOK, WorkerInv, InitWorker
    <3>4. \A p \in Procs : p # c => mine'[p] = mine[p] /\ pc'[p] = pc[p]
      BY <1>3 DEF TypeOK, InitWorker, Goto
    <3>5. pc'[c] = "lock_init"
      BY <1>3 DEF TypeOK, InitWorker, Goto
    <3>6. UNCHANGED <<core_worker, outstanding, abandoned>>
      BY <1>3 DEF InitWorker
    <3>7. ASSUME NEW p \in Procs, pc'[p] \in {"lock_init", "install"}
          PROVE  /\ mine'[p] \in 1..created' /\ creator'[mine'[p]] = p
                 /\ mine'[p] # core_worker' /\ mine'[p] \notin abandoned'
      <4>1. CASE p = c
        BY <3>1, <3>3, <3>6, <4>1
      <4>2. CASE p # c
        BY <3>1, <3>2, <3>4, <3>6, <3>7, <4>2 DEF WorkerInv
      <4> QED BY <4>1, <4>2
    <3>8. \A w \in abandoned' : w <= created'
      BY <3>1, <3>6 DEF TypeOK, WorkerInv
    <3>9. \A p \in Procs : pc'[p] \in {"store", "polling", "autofail"} => pc'[p] = pc[p]
      BY <3>4, <3>5
    <3> QED BY <3>1, <3>6, <3>7, <3>8, <3>9 DEF WorkerInv
  <2> QED BY <2>2, <2>3, <2>4
<1>4. ASSUME NEW c \in Callers, InitFails(c) PROVE Inv'
  <2>1. Return(c)
    BY <1>4 DEF InitFails
  <2>2. TypeOK'
    BY <1>4, <2>1, <1>0, ReturnFacts DEF TypeOK, InitFails, CoreUnchanged
  <2>3. UNCHANGED <<core_worker, mine, created, creator, abandoned, outstanding>>
    BY <1>4 DEF InitFails, CoreUnchanged
  <2>4. WorkerInv'
    BY <2>1, <2>3, ReturnKeepsWorkers
  <2> QED BY <2>1, <2>2, <2>4, ReturnFacts
<1>5. ASSUME NEW c \in Callers, LockForInit(c) PROVE Inv'
  <2>1. TypeOK'
    BY <1>5 DEF TypeOK, LockForInit, Goto, CoreUnchanged
  <2>2. LockInv'
    BY <1>5 DEF TypeOK, LockInv, LockForInit, Goto, CoreUnchanged
  <2>3. WorkerInv'
    BY <1>5 DEF TypeOK, LockInv, WorkerInv, LockForInit, Goto, CoreUnchanged
  <2> QED BY <2>1, <2>2, <2>3
<1>6. ASSUME NEW c \in Callers, Install(c) PROVE Inv'
  <2>1. mine[c] \in 1..created /\ holder = c
    BY <1>6 DEF Install, LockInv, WorkerInv
  <2>2. TypeOK'
    <3>1. core_worker' \in 0..MaxWorkers /\ mine' \in [Procs -> 0..MaxWorkers]
      BY <1>6, <2>1 DEF TypeOK, Install
    <3>2. abandoned' \in SUBSET Workers
      BY <1>6 DEF TypeOK, Install
    <3> QED BY <1>6, <3>1, <3>2 DEF TypeOK, Install, Goto
  <2>3. LockInv'
    BY <1>6 DEF TypeOK, LockInv, Install, Goto
  <2>4. WorkerInv'
    <3>1. /\ core_worker' = mine[c] /\ mine' = [mine EXCEPT ![c] = NoWorker]
          /\ pc' = [pc EXCEPT ![c] = "store"] /\ pc[c] = "install"
          /\ abandoned' = abandoned \cup ({core_worker} \ {NoWorker})
          /\ UNCHANGED <<created, creator, outstanding>>
      BY <1>6 DEF Install, Goto
    <3>2. \A p \in Procs : p # c =>
            /\ pc'[p] = pc[p] /\ mine'[p] = mine[p]
            /\ pc[p] \notin {"install", "store", "polling", "autofail"}
      BY <2>1, <3>1 DEF TypeOK, LockInv
    <3>3. pc'[c] = "store" /\ core_worker' # NoWorker /\ core_worker' \in 0..created'
      BY <2>1, <3>1 DEF TypeOK
    <3>4. core_worker' \notin abandoned' /\ \A w \in abandoned' : w <= created'
      BY <3>1 DEF TypeOK, WorkerInv
    <3>5. ASSUME NEW p \in Procs, pc'[p] \in {"lock_init", "install"}
          PROVE  /\ mine'[p] \in 1..created' /\ creator'[mine'[p]] = p
                 /\ mine'[p] # core_worker' /\ mine'[p] \notin abandoned'
      <4>1. p # c /\ pc[p] = "lock_init" /\ mine'[p] = mine[p]
        BY <3>2, <3>3, <3>5
      <4>2. creator[mine[p]] = p /\ creator[mine[c]] = c
        BY <3>1, <4>1 DEF WorkerInv
      <4> QED BY <3>1, <4>1, <4>2 DEF WorkerInv
    <3> QED BY <3>2, <3>3, <3>4, <3>5 DEF WorkerInv
  <2> QED BY <2>2, <2>3, <2>4
<1>7. ASSUME NEW c \in Callers, StoreRunning(c) PROVE Inv'
  <2>1. TypeOK'
    BY <1>7 DEF TypeOK, StoreRunning, Goto, CoreUnchanged
  <2>2. LockInv'
    BY <1>7 DEF TypeOK, LockInv, StoreRunning, Goto, CoreUnchanged
  <2>3. WorkerInv'
    BY <1>7 DEF TypeOK, LockInv, WorkerInv, StoreRunning, Goto, CoreUnchanged
  <2> QED BY <2>1, <2>2, <2>3
<1>8. ASSUME NEW c \in Callers, CheckRunning(c) PROVE Inv'
  <2>0. UNCHANGED <<is_running, core_worker, mine, created, creator, draining,
                    abandoned, outstanding>>
    BY <1>8 DEF CheckRunning, CoreUnchanged
  <2>1. CASE is_running
    <3>0. pc' = [pc EXCEPT ![c] = "lock_poll"] /\ holder' = holder /\ kind' = kind
      BY <1>8, <2>1 DEF CheckRunning, Goto
    <3>1. TypeOK'
      BY <2>0, <3>0 DEF TypeOK
    <3>2. LockInv'
      BY <1>8, <2>0, <3>0 DEF TypeOK, LockInv, CheckRunning
    <3>3. WorkerInv'
      BY <2>0, <2>1, <3>0 DEF TypeOK, WorkerInv
    <3> QED BY <3>1, <3>2, <3>3
  <2>2. CASE ~(is_running)
    <3>1. Return(c)
      BY <1>8, <2>2 DEF CheckRunning
    <3>2. TypeOK'
      BY <2>0, <3>1, ReturnFacts DEF TypeOK
    <3>3. WorkerInv'
      BY <2>0, <3>1, ReturnKeepsWorkers
    <3> QED BY <3>1, <3>2, <3>3, ReturnFacts
  <2> QED BY <2>1, <2>2
<1>9. ASSUME NEW c \in Callers, LockForPoll(c) PROVE Inv'
  <2>0. UNCHANGED <<is_running, core_worker, mine, created, creator, draining,
                    abandoned, outstanding>>
    BY <1>9 DEF LockForPoll, CoreUnchanged
  <2>1. CASE core_worker # NoWorker
    <3>0. pc' = [pc EXCEPT ![c] = "polling"] /\ holder' = c /\ holder = NoProc /\ kind' = kind
      BY <1>9, <2>1 DEF LockForPoll, Goto
    <3>1. TypeOK'
      BY <2>0, <3>0 DEF TypeOK
    <3>2. LockInv'
      BY <1>9, <2>0, <3>0 DEF TypeOK, LockInv, LockForPoll
    <3>3. WorkerInv'
      BY <2>0, <2>1, <3>0 DEF TypeOK, WorkerInv
    <3> QED BY <3>1, <3>2, <3>3
  <2>2. CASE ~(core_worker # NoWorker)
    <3>1. Return(c)
      BY <1>9, <2>2 DEF LockForPoll
    <3>2. TypeOK'
      BY <2>0, <3>1, ReturnFacts DEF TypeOK
    <3>3. WorkerInv'
      BY <2>0, <3>1, ReturnKeepsWorkers
    <3> QED BY <3>1, <3>2, <3>3, ReturnFacts
  <2> QED BY <2>1, <2>2
<1>10. ASSUME NEW c \in Callers, PollTask(c) PROVE Inv'
  <2>1. Return(c) /\ core_worker \in Workers
    BY <1>10, <1>0 DEF PollTask
  <2>2. outstanding[core_worker][kind[c]] + 1 \in 0..Slots
    BY <1>10, <2>1 DEF PollTask, TypeOK
  <2>3. outstanding' = [outstanding EXCEPT ![core_worker][kind[c]] = outstanding[core_worker][kind[c]] + 1]
    BY <1>10 DEF PollTask
  <2>4. /\ outstanding' \in [Workers -> [Kinds -> 0..Slots]]
        /\ outstanding[core_worker]["wft"] > 0 => outstanding'[core_worker]["wft"] > 0
    <3>1. kind[c] \in Kinds
      BY DEF TypeOK
    <3>2. outstanding' \in [Workers -> [Kinds -> 0..Slots]]
      BY <2>1, <2>2, <2>3, <3>1, SlotType
    <3>3. CASE kind[c] = "wft"
      <4>1. outstanding'[core_worker]["wft"] = outstanding[core_worker]["wft"] + 1
        BY <2>1, <2>2, <2>3, <3>1, <3>3, SlotType
      <4>2. outstanding[core_worker]["wft"] \in Nat
        BY <2>1 DEF TypeOK
      <4> QED BY <3>2, <4>1, <4>2
    <3>4. CASE kind[c] # "wft"
      BY <2>1, <2>2, <2>3, <3>1, <3>2, <3>4, SlotType
    <3> QED BY <3>2, <3>3, <3>4
  <2>5. TypeOK'
    BY <1>10, <2>1, <2>4, ReturnFacts DEF TypeOK, PollTask
  <2>6. WorkerInv'
    BY <1>10, <2>1, <2>4, ReturnKeepsWorkers DEF PollTask
  <2> QED BY <2>1, <2>5, <2>6, ReturnFacts
<1>11. ASSUME NEW c \in Callers, PollCancel(c) PROVE Inv'
  <2>1. Return(c)
    BY <1>11 DEF PollCancel
  <2>2. TypeOK'
    BY <1>11, <2>1, ReturnFacts DEF TypeOK, PollCancel, CoreUnchanged
  <2>3. UNCHANGED <<core_worker, mine, created, creator, abandoned, outstanding>>
    BY <1>11 DEF PollCancel, CoreUnchanged
  <2>4. WorkerInv'
    BY <2>1, <2>3, ReturnKeepsWorkers
  <2> QED BY <2>1, <2>2, <2>4, ReturnFacts
<1>12. ASSUME NEW c \in Callers, PollFails(c) PROVE Inv'
  <2>1. Return(c)
    BY <1>12 DEF PollFails
  <2>2. TypeOK'
    BY <1>12, <2>1, <1>0, ReturnFacts DEF TypeOK, PollFails
  <2>3. UNCHANGED <<core_worker, mine, created, creator, abandoned, outstanding>>
    BY <1>12 DEF PollFails
  <2>4. WorkerInv'
    BY <2>1, <2>3, ReturnKeepsWorkers
  <2> QED BY <2>1, <2>2, <2>4, ReturnFacts
<1>13. ASSUME NEW c \in Callers, PollShutDown(c) PROVE Inv'
  <2>1. Return(c)
    BY <1>13 DEF PollShutDown
  <2>2. TypeOK'
    BY <1>13, <2>1, <1>0, ReturnFacts DEF TypeOK, PollShutDown, CoreUnchanged
  <2>3. UNCHANGED <<core_worker, mine, created, creator, abandoned, outstanding>>
    BY <1>13 DEF PollShutDown, CoreUnchanged
  <2>4. WorkerInv'
    BY <2>1, <2>3, ReturnKeepsWorkers
  <2> QED BY <2>1, <2>2, <2>4, ReturnFacts
<1>14. ASSUME NEW c \in Callers, BeginAutoFail(c) PROVE Inv'
  <2>1. core_worker \in Workers /\ holder = c
    BY <1>14, <1>0 DEF BeginAutoFail, LockInv
  <2>2. outstanding[core_worker]["wft"] + 1 \in 0..Slots
    BY <1>14, <2>1 DEF BeginAutoFail, TypeOK, WorkerInv
  <2>3. outstanding' = [outstanding EXCEPT ![core_worker]["wft"] = outstanding[core_worker]["wft"] + 1]
    BY <1>14 DEF BeginAutoFail
  <2>4. /\ outstanding' \in [Workers -> [Kinds -> 0..Slots]]
        /\ outstanding'[core_worker]["wft"] = outstanding[core_worker]["wft"] + 1
    BY <2>1, <2>2, <2>3, SlotType DEF TypeOK
  <2>5. TypeOK'
    BY <1>14, <2>4 DEF TypeOK, BeginAutoFail, Goto
  <2>6. LockInv'
    BY <1>14 DEF TypeOK, LockInv, BeginAutoFail, Goto
  <2>7. WorkerInv'
    BY <1>14, <2>1, <2>4 DEF TypeOK, LockInv, WorkerInv, BeginAutoFail, Goto
  <2> QED BY <2>5, <2>6, <2>7
<1>15. ASSUME NEW c \in Callers, EndAutoFail(c) PROVE Inv'
  <2>1. core_worker \in Workers /\ holder = c
    BY <1>15, <1>0 DEF EndAutoFail, LockInv
  <2>2. outstanding[core_worker]["wft"] - 1 \in 0..Slots
    BY <1>15, <2>1 DEF EndAutoFail, TypeOK, WorkerInv
  <2>3. outstanding' = [outstanding EXCEPT ![core_worker]["wft"] = outstanding[core_worker]["wft"] - 1]
    BY <1>15 DEF EndAutoFail
  <2>4. /\ outstanding' \in [Workers -> [Kinds -> 0..Slots]]
        /\ outstanding'[core_worker]["wft"] = outstanding[core_worker]["wft"] - 1
    BY <2>1, <2>2, <2>3, SlotType DEF TypeOK
  <2>5. TypeOK'
    BY <1>15, <2>4 DEF TypeOK, EndAutoFail, Goto
  <2>6. LockInv'
    BY <1>15 DEF TypeOK, LockInv, EndAutoFail, Goto
  <2>7. WorkerInv'
    BY <1>15, <2>1, <2>4 DEF TypeOK, LockInv, WorkerInv, EndAutoFail, Goto
  <2> QED BY <2>5, <2>6, <2>7
<1>16. ASSUME NEW c \in Callers, Timeout(c) PROVE Inv'
  <2>1. Return(c)
    BY <1>16 DEF Timeout
  <2>2. TypeOK'
    BY <1>16, <2>1, <1>0, ReturnFacts DEF TypeOK, Timeout, CoreUnchanged
  <2>3. UNCHANGED <<core_worker, mine, created, creator, abandoned, outstanding>>
    BY <1>16 DEF Timeout, CoreUnchanged
  <2>4. WorkerInv'
    BY <2>1, <2>3, ReturnKeepsWorkers
  <2> QED BY <2>1, <2>2, <2>4, ReturnFacts
<1>17. ASSUME NEW s \in Stoppers, StoreStopped(s) PROVE Inv'
  <2>1. TypeOK'
    BY <1>17 DEF TypeOK, StoreStopped, Goto, CoreUnchanged
  <2>2. LockInv'
    BY <1>17 DEF TypeOK, LockInv, StoreStopped, Goto, CoreUnchanged
  <2>3. WorkerInv'
    BY <1>17 DEF TypeOK, LockInv, WorkerInv, StoreStopped, Goto, CoreUnchanged
  <2> QED BY <2>1, <2>2, <2>3
<1>18. ASSUME NEW s \in Stoppers, LockForStop(s) PROVE Inv'
  <2>1. TypeOK'
    BY <1>18 DEF TypeOK, LockForStop, Goto, CoreUnchanged
  <2>2. LockInv'
    BY <1>18 DEF TypeOK, LockInv, LockForStop, Goto, CoreUnchanged
  <2>3. WorkerInv'
    BY <1>18 DEF TypeOK, LockInv, WorkerInv, LockForStop, Goto, CoreUnchanged
  <2> QED BY <2>1, <2>2, <2>3
<1>19. ASSUME NEW s \in Stoppers, ClearWorker(s) PROVE Inv'
  <2>1. pc' = [pc EXCEPT ![s] = "stopped"] /\ holder' = NoProc /\ holder = s
    BY <1>19 DEF ClearWorker, Goto, LockInv
  <2>2. TypeOK'
    <3>1. abandoned' \in SUBSET Workers /\ core_worker' \in 0..MaxWorkers
      BY <1>19 DEF TypeOK, ClearWorker
    <3> QED BY <1>19, <2>1, <3>1 DEF TypeOK, ClearWorker
  <2>3. LockInv'
    BY <1>19, <2>1 DEF TypeOK, LockInv, ClearWorker
  <2>4. WorkerInv'
    <3>1. \A q \in Procs : pc'[q] # "stopped" => pc'[q] = pc[q] /\ q # s
      BY <2>1 DEF TypeOK
    <3>2. \A q \in Procs : q # s => pc[q] \notin Holding
      BY <2>1 DEF LockInv
    <3>3. created \in Nat /\ 0 \notin abandoned'
      BY <1>19 DEF TypeOK, ClearWorker
    <3> QED BY <1>19, <3>1, <3>2, <3>3 DEF WorkerInv, ClearWorker
  <2> QED BY <2>2, <2>3, <2>4
<1>20. CASE UNCHANGED vars
  BY <1>20 DEF TypeOK, LockInv, WorkerInv, vars
<1> QED
  BY <1>1, <1>2, <1>3, <1>4, <1>5, <1>6, <1>7, <1>8, <1>9, <1>10, <1>11, <1>12, <1>13, <1>14, <1>15, <1>16, <1>17, <1>18, <1>19, <1>20 DEF Next, CallerStep, StopStep

\* A call of stop() leaves its mark for good: before a step after which none has
\* begun none had begun, and that step was taken by a poll.
LEMMA StopLeavesMark ==
  ASSUME Inv, [Next]_vars, NoStopYet'
  PROVE  /\ NoStopYet
         /\ \A s \in Stoppers : ~StoreStopped(s) /\ ~StopStep(s)
<1>1. \A s \in Stoppers : ~StoreStopped(s) /\ ~StopStep(s)
  BY DEF Inv, TypeOK, NoStopYet, StoreStopped, StopStep, LockForStop, ClearWorker, Goto
<1>2. ASSUME NEW c \in Callers, (\E k \in Kinds : Call(c, k)) \/ CallerStep(c)
      PROVE  \E label : pc' = [pc EXCEPT ![c] = label]
  BY <1>2 DEF Call, CallerStep, LoadIsRunning, InitWorker, InitFails, LockForInit, Install,
       StoreRunning, CheckRunning, LockForPoll, PollTask, PollCancel, PollFails,
       PollShutDown, BeginAutoFail, EndAutoFail, Timeout, Goto, Return
<1>3. ASSUME NEW c \in Callers, NEW label, pc' = [pc EXCEPT ![c] = label] PROVE NoStopYet
  BY <1>3, NifAssumption DEF Inv, TypeOK, NoStopYet
<1>4. ASSUME UNCHANGED vars PROVE NoStopYet
  <2>1. pc' = pc
    BY <1>4 DEF vars
  <2> QED BY <2>1 DEF NoStopYet
<1> QED BY <1>1, <1>2, <1>3, <1>4 DEF Next

\* The start race, while nobody stops the worker: the other half of the invariant.
LEMMA StepStartInv ==
  ASSUME NoStopYet', Inv, StartInv, [Next]_vars
  PROVE  StartInv'
<1> USE NifAssumption DEF Inv
<1>0. created \in 0..MaxWorkers /\ pc \in [Procs -> PC] /\ created \in Nat
  BY DEF TypeOK
<1>a. ASSUME NEW c \in Callers, NEW label \in PC \ {"init", "check", "lock_poll"},
             pc' = [pc EXCEPT ![c] = label], pc[c] \notin {"lock_init", "install", "store"},
             UNCHANGED <<is_running, core_worker, created, creator>>
      PROVE  StartInv'
  BY <1>0, <1>a DEF StartInv
<1>b. ASSUME NEW c \in Callers, Return(c),
             pc[c] \notin {"lock_init", "install", "store"},
             UNCHANGED <<is_running, core_worker, created, creator>>
      PROVE  StartInv'
  BY <1>a, <1>b DEF Return
<1>1. ASSUME NEW c \in Callers, NEW k \in Kinds, Call(c, k) PROVE StartInv'
  BY <1>a, <1>1 DEF Call, Goto, CoreUnchanged
<1>2. ASSUME NEW c \in Callers, LoadIsRunning(c) PROVE StartInv'
  BY <1>0, <1>2 DEF StartInv, WorkerInv, LoadIsRunning, Goto, CoreUnchanged
<1>3. ASSUME NEW c \in Callers, InitWorker(c) PROVE StartInv'
  <2>1. /\ created' = created + 1 /\ created + 1 \in Workers
        /\ creator' = [creator EXCEPT ![created + 1] = c]
        /\ pc' = [pc EXCEPT ![c] = "lock_init"] /\ pc[c] = "init"
        /\ UNCHANGED <<is_running, core_worker>>
    BY <1>0, <1>3 DEF InitWorker, Goto
  <2>b. \A w \in 1..created : creator[w] # c
    BY <2>1 DEF StartInv
  <2>c. \A w \in 1..created : w \in Workers /\ w # created + 1
    BY <1>0
  <2>2. \A w \in 1..created : creator'[w] = creator[w] /\ creator[w] # c
    BY <2>1, <2>b, <2>c DEF TypeOK
  <2>3. creator'[created + 1] = c /\ 1..created' = (1..created) \cup {created + 1}
    BY <1>0, <2>1 DEF TypeOK
  <2>4. \A w \in 1..created' :
          /\ creator'[w] \in Callers
          /\ \/ pc'[creator'[w]] \in {"lock_init", "install", "store"}
             \/ is_running' /\ pc'[creator'[w]] # "init"
    BY <1>0, <2>1, <2>2, <2>3 DEF StartInv
  <2>5. \A v, w \in 1..created' : creator'[v] = creator'[w] => v = w
    BY <2>2, <2>3 DEF StartInv
  <2>6. \A d \in Callers : pc'[d] \in {"check", "lock_poll"} => is_running'
    BY <1>0, <2>1 DEF StartInv
  <2> QED BY <2>1, <2>4, <2>5, <2>6 DEF StartInv
<1>4. ASSUME NEW c \in Callers, InitFails(c) PROVE StartInv'
  <2>1. Return(c)
    BY <1>4 DEF InitFails
  <2>2. /\ pc[c] \notin {"lock_init", "install", "store"}
        /\ UNCHANGED <<is_running, core_worker, created, creator>>
    BY <1>4 DEF InitFails, CoreUnchanged
  <2> QED BY <1>b, <2>1, <2>2
<1>5. ASSUME NEW c \in Callers, LockForInit(c) PROVE StartInv'
  BY <1>0, <1>5 DEF StartInv, WorkerInv, LockForInit, Goto, CoreUnchanged
<1>6. ASSUME NEW c \in Callers, Install(c) PROVE StartInv'
  <2>1. core_worker' \in 1..created /\ pc' = [pc EXCEPT ![c] = "store"] /\ pc[c] = "install"
    BY <1>6 DEF Install, Goto, WorkerInv
  <2>2. UNCHANGED <<is_running, created, creator>>
    BY <1>6 DEF Install
  <2> QED BY <1>0, <2>1, <2>2 DEF StartInv
<1>7. ASSUME NEW c \in Callers, StoreRunning(c) PROVE StartInv'
  BY <1>0, <1>7 DEF StartInv, WorkerInv, StoreRunning, Goto, CoreUnchanged
<1>8. ASSUME NEW c \in Callers, CheckRunning(c) PROVE StartInv'
  <2>1. is_running /\ pc' = [pc EXCEPT ![c] = "lock_poll"]
    BY <1>8 DEF CheckRunning, Goto, StartInv
  <2>2. UNCHANGED <<is_running, core_worker, created, creator>>
    BY <1>8 DEF CheckRunning, CoreUnchanged
  <2> QED BY <1>0, <1>8, <2>1, <2>2 DEF StartInv, CheckRunning
<1>9. ASSUME NEW c \in Callers, LockForPoll(c) PROVE StartInv'
  <2>1. pc' = [pc EXCEPT ![c] = "polling"]
    BY <1>9 DEF LockForPoll, Goto, StartInv
  <2>2. UNCHANGED <<is_running, core_worker, created, creator>>
    BY <1>9 DEF LockForPoll, CoreUnchanged
  <2>3. pc[c] \notin {"lock_init", "install", "store"}
    BY <1>9 DEF LockForPoll
  <2> QED BY <1>a, <2>1, <2>2, <2>3
<1>10. ASSUME NEW c \in Callers, PollTask(c) PROVE StartInv'
  <2>1. Return(c)
    BY <1>10 DEF PollTask
  <2>2. /\ pc[c] \notin {"lock_init", "install", "store"}
        /\ UNCHANGED <<is_running, core_worker, created, creator>>
    BY <1>10 DEF PollTask
  <2> QED BY <1>b, <2>1, <2>2
<1>11. ASSUME NEW c \in Callers, PollCancel(c) PROVE StartInv'
  <2>1. Return(c)
    BY <1>11 DEF PollCancel
  <2>2. /\ pc[c] \notin {"lock_init", "install", "store"}
        /\ UNCHANGED <<is_running, core_worker, created, creator>>
    BY <1>11 DEF PollCancel, CoreUnchanged
  <2> QED BY <1>b, <2>1, <2>2
<1>12. ASSUME NEW c \in Callers, PollFails(c) PROVE StartInv'
  <2>1. Return(c)
    BY <1>12 DEF PollFails
  <2>2. /\ pc[c] \notin {"lock_init", "install", "store"}
        /\ UNCHANGED <<is_running, core_worker, created, creator>>
    BY <1>12 DEF PollFails
  <2> QED BY <1>b, <2>1, <2>2
<1>13. ASSUME NEW c \in Callers, PollShutDown(c) PROVE StartInv'
  <2>1. Return(c)
    BY <1>13 DEF PollShutDown
  <2>2. /\ pc[c] \notin {"lock_init", "install", "store"}
        /\ UNCHANGED <<is_running, core_worker, created, creator>>
    BY <1>13 DEF PollShutDown, CoreUnchanged
  <2> QED BY <1>b, <2>1, <2>2
<1>14. ASSUME NEW c \in Callers, BeginAutoFail(c) PROVE StartInv'
  BY <1>a, <1>14 DEF BeginAutoFail, Goto
<1>15. ASSUME NEW c \in Callers, EndAutoFail(c) PROVE StartInv'
  BY <1>a, <1>15 DEF EndAutoFail, Goto
<1>16. ASSUME NEW c \in Callers, Timeout(c) PROVE StartInv'
  <2>1. Return(c)
    BY <1>16 DEF Timeout
  <2>2. /\ pc[c] \notin {"lock_init", "install", "store"}
        /\ UNCHANGED <<is_running, core_worker, created, creator>>
    BY <1>16 DEF Timeout, CoreUnchanged
  <2> QED BY <1>b, <2>1, <2>2
<1>17. CASE UNCHANGED vars
  BY <1>17 DEF StartInv, vars
<1> QED
  BY <1>1, <1>2, <1>3, <1>4, <1>5, <1>6, <1>7, <1>8, <1>9, <1>10, <1>11, <1>12, <1>13, <1>14, <1>15, <1>16, <1>17,
     StopLeavesMark DEF Next, CallerStep

\* At the beginning nobody has started and no SDK worker exists.
LEMMA InitStartInv == Init => StartInv
BY NifAssumption DEF Init, StartInv

\* Type correctness, and with it the invariants of the mutex, for every instance.
THEOREM TypeCorrect == Spec => []TypeOK
<1>1. Inv => TypeOK
  BY DEF Inv
<1> QED BY <1>1, InitInv, StepInv, PTL DEF Spec

\* The NIF keeps the contract of the core's poll functions: never two polls of
\* an SDK worker at a time, and never a poll of a worker that was dropped.
THEOREM PollsAreExclusive == Spec => []ExclusiveCorePoll
<1>1. Inv => ExclusiveCorePoll
  BY NifAssumption DEF Inv, TypeOK, LockInv, WorkerInv, ExclusiveCorePoll
<1> QED BY <1>1, InitInv, StepInv, PTL DEF Spec

\* Inv and, as long as no stop() has begun, StartInv hold in every reachable state.
LEMMA SpecInv == Spec => [](Inv /\ NoStopInv)
<1>1. Init => Inv /\ NoStopInv
  BY InitInv, InitStartInv DEF NoStopInv
<1>2. Inv /\ NoStopInv /\ [Next]_vars => (Inv /\ NoStopInv)'
  BY StepInv, StepStartInv, StopLeavesMark DEF NoStopInv
<1> QED BY <1>1, <1>2, PTL DEF Spec

\* Before any stop(), the "Already initialized" shortcut is right.
THEOREM ShortcutIsRight == Spec => []RunningMeansInitialized
<1>1. NoStopInv => RunningMeansInitialized
  BY DEF NoStopInv, StartInv, RunningMeansInitialized
<1> QED BY <1>1, SpecInv, PTL

\* The start race creates at most one SDK worker per process.
THEOREM StartRaceIsBounded == Spec => []OneWorkerPerCaller
<1>1. NoStopInv => OneWorkerPerCaller
  BY DEF NoStopInv, StartInv, OneWorkerPerCaller
<1> QED BY <1>1, SpecInv, PTL

\* A poll whose start() succeeded finds the worker running and installed.
THEOREM StartedPollsFindWorker == Spec => []StartedPollFindsWorker
<1>1. NoStopInv => StartedPollFindsWorker
  BY DEF NoStopInv, StartInv, StartedPollFindsWorker
<1> QED BY <1>1, SpecInv, PTL

\* After the racing first callers are through, the installed worker is final.
THEOREM InstalledWorkerIsFinal == Spec => StableWorker
<1> DEFINE Settled == /\ NoStopYet' /\ is_running
                     /\ \A c \in Callers : pc[c] \notin {"init", "lock_init", "install", "store"}
           Final == Settled => is_running' /\ core_worker' = core_worker
<1>1. Inv /\ [Next]_vars => [Final]_vars
  <2> SUFFICES ASSUME Inv, Next, Settled PROVE is_running' /\ core_worker' = core_worker
    BY DEF vars
  <2>1. PICK c \in Callers : (\E k \in Kinds : Call(c, k)) \/ CallerStep(c)
    BY StopLeavesMark DEF Next
  <2>2. pc[c] \notin {"init", "lock_init", "install", "store"}
    OBVIOUS
  <2>3. CASE \E k \in Kinds : Call(c, k)
    BY <2>3 DEF Call
  <2>4. CASE CallerStep(c)
    BY <2>2, <2>4 DEF CallerStep, LoadIsRunning, InitWorker, InitFails, LockForInit, Install,
         StoreRunning, CheckRunning, LockForPoll, PollTask, PollCancel, PollFails,
         PollShutDown, BeginAutoFail, EndAutoFail, Timeout
  <2> QED BY <2>1, <2>3, <2>4
<1> QED BY <1>1, InitInv, StepInv, PTL DEF Spec, StableWorker

\* The worker resource is coherent at every moment, for any number of processes.
THEOREM WorkerIsSafe == Spec => []WorkerSafe
<1>1. TypeOK /\ RunningMeansInitialized /\ OneWorkerPerCaller /\ StartedPollFindsWorker => WorkerSafe
  BY DEF WorkerSafe
<1> QED BY <1>1, TypeCorrect, ShortcutIsRight, StartRaceIsBounded, StartedPollsFindWorker, PTL
============================================================================
