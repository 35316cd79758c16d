------------------------ MODULE ActivityTasksProofs ------------------------
(***************************************************************************)
(* Proofs about ActivityTasks, for any finite set of activities, any       *)
(* number of slots and any number of heartbeat answers.                    *)
(***************************************************************************)
EXTENDS ActivityTasks, FiniteSetTheorems, TLAPS

Idle == Slotless

\* The set of activities that hold a slot is finite.
LEMMA HeldIsFinite == IsFiniteSet(Held) /\ Cardinality(Held) \in Nat
  BY ActivityAssumption, FS_Subset, FS_CardinalityType DEF Held

\* An activity that gets a slot.
LEMMA HeldGrows ==
  ASSUME TypeOK, NEW a \in Activities, NEW s \in Stages \ Idle, act[a] \in Idle, Move(a, s)
  PROVE  Cardinality(Held') = Cardinality(Held) + 1
<1>1. Held' = Held \cup {a} /\ a \notin Held
  BY DEF Held, Move, TypeOK, Idle, Slotless, Stages
<1> QED
  BY <1>1, HeldIsFinite, FS_AddElement

\* An activity that gives its slot back.
LEMMA HeldShrinks ==
  ASSUME TypeOK, NEW a \in Activities, NEW s \in Idle, act[a] \notin Idle, Move(a, s)
  PROVE  Cardinality(Held') = Cardinality(Held) - 1
<1>1. Held' = Held \ {a} /\ a \in Held
  BY DEF Held, Move, TypeOK, Idle, Slotless, Stages
<1> QED
  BY <1>1, HeldIsFinite, FS_RemoveElement

\* An activity that keeps its slot.
LEMMA HeldKept ==
  ASSUME TypeOK, NEW a \in Activities, NEW s \in Stages \ Idle, act[a] \notin Idle, Move(a, s)
  PROVE  Held' = Held
  BY DEF Held, Move, TypeOK, Idle, Slotless, Stages

\* An activity that moves on without a slot.
LEMMA HeldAside ==
  ASSUME TypeOK, NEW a \in Activities, NEW s \in Idle, act[a] \in Idle, Move(a, s)
  PROVE  Held' = Held
  BY DEF Held, Move, TypeOK, Idle, Slotless, Stages

\* Which steps change the stages and slots, tell the language side to cancel, end
\* a complete(): all others leave those variables alone.
LEMMA Frames ==
  ASSUME [Next]_vars
  PROVE  /\ \/ PollBegins \/ PollGetsNothing
            \/ \E a \in Activities : \/ PollGets(a) \/ ReserveSlot(a) \/ CountReservation(a)
                                     \/ TakeSlot(a) \/ ReserveFails(a) \/ AddTask(a)
                                     \/ ReservationUnused(a) \/ HandleStart(a) \/ Complete(a)
                                     \/ Evicted(a) \/ Lock(a) \/ Report(a)
            \/ UNCHANGED <<act, free, polling>>
         /\ HandleCancel \/ UNCHANGED <<issued, told>>
         /\ (\E a \in Activities : Report(a)) \/ UNCHANGED reported
  BY DEF Next, StreamStep, ReserveStep, EagerAnswer, CompleteStep, ShutdownStep, PollBegins, PollGetsNothing, PollerEnds, PollGets, ReserveSlot, CountReservation, TakeSlot, ReserveFails, AddTask,
         ReservationUnused, LocalTimeout, Complete, Evicted, Lock, Report,
         HeartbeatAnswer, HandleCancel, EagerCloses, StartsEnd, WaiterLooks, WaiterRegisters, GraceEnds,
         HandleStart, InitiateShutdown, CloseVisible, CloseLoads, ShutdownLocks, ShutdownEnds, Finish,
         vars, actVars, startVars, semVars, endVars, DropTracked

\* A queued cancel names an activity and has a reason.
LEMMA QueuedCancel ==
  ASSUME TypeOK, cancels # <<>>
  PROVE  Head(cancels).tt \in Activities /\ Head(cancels).reason \in Reasons
<1> DEFINE C == [tt : Activities, reason : Reasons]
<1>1. cancels \in Seq(C)
  BY DEF TypeOK
<1> HIDE DEF C
<1>2. Head(cancels) \in C
  BY <1>1
<1> QED
  BY <1>2 DEF C

\* A cancel is told once.
LEMMA CancelStep ==
  ASSUME Inv, [Next]_vars
  PROVE  CancelInv'
<1>1. CASE HandleCancel
  <2>1. Head(cancels).tt \in Activities /\ Head(cancels).reason # "none"
    BY <1>1, QueuedCancel DEF HandleCancel, Inv, Reasons, ServerReasons
  <2> QED
    BY <1>1, <2>1 DEF HandleCancel, Inv, TypeOK, CancelInv
<1>2. CASE UNCHANGED <<issued, told>>
  BY <1>2 DEF Inv, CancelInv
<1> QED
  BY <1>1, <1>2, Frames

\* A slot is neither lost nor used twice.
LEMMA SlotStep ==
  ASSUME Inv, [Next]_vars
  PROVE  /\ act' \in [Activities -> Stages]
         /\ free' \in Nat /\ polling' \in Nat
         /\ SlotsAccountedFor'
<1> DEFINE Goal == /\ act' \in [Activities -> Stages]
                   /\ free' \in Nat /\ polling' \in Nat
                   /\ SlotsAccountedFor'
<1> USE HeldIsFinite DEF Inv
<1>n. /\ free \in Nat /\ polling \in Nat /\ MaxConcurrent \in Nat
      /\ free + polling + Cardinality(Held) = MaxConcurrent
      /\ act \in [Activities -> Stages]
  BY ActivityAssumption DEF TypeOK, SlotsAccountedFor
<1>a. ASSUME NEW a \in Activities, NEW s \in Idle, Move(a, s), act[a] \in Idle,
             UNCHANGED <<free, polling>>
      PROVE  Goal
  <2>1. Held' = Held
    BY <1>a, HeldAside
  <2>2. s \in Stages
    BY <1>a DEF Idle, Slotless, Stages
  <2> QED
    BY <1>a, <2>1, <2>2 DEF Move, SlotsAccountedFor, TypeOK
<1>1. CASE PollBegins \/ PollGetsNothing
  <2>1. UNCHANGED act /\ Held' = Held
    BY <1>1 DEF PollBegins, PollGetsNothing, actVars, Held
  <2>2. \/ free' = free - 1 /\ free > 0 /\ polling' = polling + 1
        \/ free' = free + 1 /\ polling' = polling - 1 /\ polling > 0
    BY <1>1 DEF PollBegins, PollGetsNothing
  <2> QED
    BY <1>n, <2>1, <2>2 DEF SlotsAccountedFor
<1>2. ASSUME NEW a \in Activities, PollGets(a) PROVE Goal
  <2>1. Cardinality(Held') = Cardinality(Held) + 1
    BY <1>2, HeldGrows DEF PollGets, Stages, Idle, Slotless
  <2>2. polling' = polling - 1 /\ polling > 0 /\ free' = free
    BY <1>2 DEF PollGets
  <2>3. act' \in [Activities -> Stages]
    BY <1>2 DEF PollGets, Move, TypeOK, Stages
  <2> QED
    BY <1>n, <2>1, <2>2, <2>3 DEF SlotsAccountedFor
<1>3. ASSUME NEW a \in Activities, ReserveSlot(a) \/ CountReservation(a) \/ ReserveFails(a) PROVE Goal
  <2>1. /\ \E s \in Idle : Move(a, s)
        /\ act[a] \in Idle
    BY <1>3 DEF ReserveSlot, CountReservation, ReserveFails, Idle, Slotless
  <2>2. UNCHANGED <<free, polling>>
    BY <1>3 DEF ReserveSlot, CountReservation, ReserveFails, startVars
  <2> QED
    BY <1>a, <2>1, <2>2
<1>b. ASSUME NEW a \in Activities, TakeSlot(a) PROVE Goal
  <2>0. act[a] \in Idle /\ act[a] = "counted" /\ polling' = polling
    BY <1>b DEF TakeSlot, Idle, Slotless
  <2>1. CASE free > 0 /\ free' = free - 1 /\ Move(a, "reserved")
    <3>1. Cardinality(Held') = Cardinality(Held) + 1
      BY <2>0, <2>1, HeldGrows DEF Stages, Idle, Slotless
    <3>2. act' \in [Activities -> Stages]
      BY <2>1 DEF Move, TypeOK, Stages
    <3> QED
      BY <1>n, <2>0, <2>1, <3>1, <3>2 DEF SlotsAccountedFor
  <2>2. CASE Move(a, "failing") /\ UNCHANGED free
    BY <1>a, <2>0, <2>2 DEF Idle, Slotless
  <2> QED
    BY <1>b, <2>1, <2>2 DEF TakeSlot
<1>4. ASSUME NEW a \in Activities, NEW s \in {"server", "lost"}, act[a] = "reserved", Move(a, s),
             free' = free + 1, polling' = polling
      PROVE  Goal
  <2>1. Cardinality(Held') = Cardinality(Held) - 1
    BY <1>4, HeldShrinks DEF Idle, Slotless
  <2>3. act' \in [Activities -> Stages]
    BY <1>4 DEF Move, TypeOK, Stages
  <2> QED
    BY <1>n, <1>4, <2>1, <2>3 DEF SlotsAccountedFor
<1>5. ASSUME NEW a \in Activities, NEW s \in Stages \ Idle, Move(a, s), act[a] \notin Idle,
             UNCHANGED <<free, polling>>
      PROVE  Goal
  <2>1. Held' = Held
    BY <1>5, HeldKept
  <2> QED
    BY <1>5, <2>1 DEF Move, SlotsAccountedFor, TypeOK
<1>6. ASSUME NEW a \in Activities, Finish(a), act[a] \notin Idle, UNCHANGED polling
      PROVE  Goal
  <2>1. Cardinality(Held') = Cardinality(Held) - 1
    BY <1>6, HeldShrinks DEF Finish, Idle, Slotless
  <2> QED
    BY <1>n, <1>6, <2>1 DEF Finish, Move, SlotsAccountedFor, Stages
<1>7. ASSUME NEW a \in Activities, HandleStart(a) \/ Complete(a) \/ Lock(a) PROVE Goal
  <2>1. \E s \in Stages \ Idle : Move(a, s)
    BY <1>7 DEF HandleStart, Complete, Lock, Stages, Idle, Slotless
  <2>2. act[a] \notin Idle /\ UNCHANGED <<free, polling>>
    BY <1>7 DEF HandleStart, Complete, Lock, Idle, Slotless, startVars
  <2> QED
    BY <1>5, <2>1, <2>2
<1>c. ASSUME NEW a \in Activities, AddTask(a) PROVE Goal
  <2>0. act[a] = "reserved" /\ polling' = polling
    BY <1>c DEF AddTask
  <2>1. CASE Move(a, "buffered") /\ UNCHANGED <<free, semVars>>
    BY <1>5, <2>0, <2>1 DEF Stages, Idle, Slotless
  <2>2. CASE Move(a, "lost") /\ free' = free + 1
    BY <1>4, <2>0, <2>2
  <2> QED
    BY <1>c, <2>1, <2>2 DEF AddTask
<1>d. ASSUME NEW a \in Activities, ReservationUnused(a) PROVE Goal
  BY <1>4, <1>d DEF ReservationUnused
<1>8. ASSUME NEW a \in Activities, Evicted(a) PROVE Goal
  <2>1. CASE Finish(a)
    BY <1>6, <1>8, <2>1 DEF Evicted, Idle, Slotless
  <2>2. CASE Move(a, "locking") /\ UNCHANGED free
    BY <1>5, <1>8, <2>2 DEF Evicted, Idle, Slotless, Stages
  <2> QED
    BY <1>8, <2>1, <2>2 DEF Evicted
<1>9. ASSUME NEW a \in Activities, Report(a) PROVE Goal
  BY <1>6, <1>9 DEF Report, Idle, Slotless
<1>10. CASE UNCHANGED <<act, free, polling>>
  <2>1. Held' = Held
    BY <1>10 DEF Held
  <2> QED
    BY <1>10, <2>1 DEF SlotsAccountedFor, TypeOK
<1> QED
  BY <1>1, <1>2, <1>3, <1>b, <1>c, <1>d, <1>7, <1>8, <1>9, <1>10, Frames

\* A result is kept back only for an activity that was not found: the reason of
\* the cancel does not change once the entry has left the map.
LEMMA ResultStep ==
  ASSUME Inv, [Next]_vars
  PROVE  ResultInv'
<1> USE DEF Inv, ResultInv
<1>1. CASE HandleCancel
  <2>1. UNCHANGED <<act, reported>>
    BY <1>1 DEF HandleCancel
  <2>2. \A a \in Activities : act[a] # "outstanding" => issued'[a] = issued[a]
    BY <1>1, QueuedCancel DEF HandleCancel, TypeOK
  <2> QED
    BY <2>1, <2>2
<1>2. ASSUME NEW a \in Activities, Report(a) PROVE ResultInv'
  <2>1. UNCHANGED issued /\ act[a] = "reporting" /\ act' = [act EXCEPT ![a] = "done"]
    BY <1>2 DEF Report, Finish, Move
  <2>2. PICK o \in Outcomes(a) : reported' = [reported EXCEPT ![a] = o]
    BY <1>2 DEF Report
  <2>3. o # "nothing"
    BY DEF Outcomes
  <2> QED
    BY <2>1, <2>2, <2>3 DEF TypeOK
<1>3. ASSUME NEW a \in Activities, Evicted(a) PROVE ResultInv'
  BY <1>3 DEF Evicted, Finish, Move, TypeOK
<1>4. ASSUME NEW a \in Activities, Lock(a) PROVE ResultInv'
  BY <1>4 DEF Lock, Move, TypeOK
<1>5. ASSUME NEW a \in Activities,
             \/ PollGets(a) \/ ReserveSlot(a) \/ CountReservation(a) \/ TakeSlot(a)
             \/ ReserveFails(a) \/ AddTask(a) \/ ReservationUnused(a) \/ HandleStart(a) \/ Complete(a)
      PROVE  ResultInv'
  <2>1. UNCHANGED <<issued, reported>> /\ act[a] # "done"
    BY <1>5 DEF PollGets, ReserveSlot, CountReservation, TakeSlot, ReserveFails, AddTask, ReservationUnused, HandleStart, Complete
  <2>2. PICK s \in Stages \ {"locking", "reporting", "done"} : act' = [act EXCEPT ![a] = s]
    BY <1>5 DEF PollGets, ReserveSlot, CountReservation, TakeSlot, ReserveFails, AddTask, ReservationUnused, HandleStart, Complete,
                Move, Stages
  <2> QED
    BY <2>1, <2>2 DEF TypeOK
<1>6. CASE UNCHANGED <<act, issued, reported>>
  BY <1>6
<1>7. PollBegins \/ PollGetsNothing => UNCHANGED <<act, issued, reported>>
  BY DEF PollBegins, PollGetsNothing, actVars
<1> QED
  BY <1>1, <1>2, <1>3, <1>4, <1>5, <1>6, <1>7, Frames

\* The order in which the stream ends: no start is under way when the end of the
\* starts is seen, nothing is outstanding when poll() says so, and the heartbeat
\* manager stops after that.
LEMMA EndStep ==
  ASSUME Inv, [Next]_vars
  PROVE  EndInv'
<1> DEFINE Goal == EndInv'
<1> USE DEF Inv, EndInv, Outstanding, actVars, startVars, endVars
<1>1. CASE PollBegins
  BY <1>1 DEF PollBegins, TypeOK
<1>2. CASE PollGetsNothing
  BY <1>2 DEF PollGetsNothing, TypeOK
<1>3. CASE PollerEnds
  BY <1>3 DEF PollerEnds, TypeOK
<1>4. ASSUME NEW a \in Activities, PollGets(a) PROVE Goal
  BY <1>4 DEF PollGets, TypeOK, Move
<1>5. ASSUME NEW a \in Activities, ReserveSlot(a) PROVE Goal
  BY <1>5 DEF ReserveSlot, TypeOK, Move
<1>a. ASSUME NEW a \in Activities, CountReservation(a) \/ ReserveFails(a) PROVE Goal
  BY <1>a, ActivityAssumption DEF CountReservation, ReserveFails, TypeOK, Move
<1>b. ASSUME NEW a \in Activities, TakeSlot(a) PROVE Goal
  BY <1>b, ActivityAssumption DEF TakeSlot, TypeOK, Move
<1>6. ASSUME NEW a \in Activities, AddTask(a) PROVE Goal
  <2>1. CASE eager = "open" /\ Move(a, "buffered")
    BY <1>6, <2>1 DEF AddTask, TypeOK, Move
  <2>2. CASE eager = "closed" /\ Move(a, "lost")
    BY <1>6, <2>2 DEF AddTask, TypeOK, Move
  <2> QED
    BY <1>6, <2>1, <2>2 DEF AddTask
<1>7. ASSUME NEW a \in Activities, ReservationUnused(a) PROVE Goal
  BY <1>7 DEF ReservationUnused, TypeOK, Move
<1>8. ASSUME NEW a \in Activities, LocalTimeout(a) PROVE Goal
  BY <1>8 DEF LocalTimeout, TypeOK
<1>9. ASSUME NEW a \in Activities, Complete(a) PROVE Goal
  BY <1>9 DEF Complete, TypeOK, Move
<1>10. ASSUME NEW a \in Activities, Evicted(a) PROVE Goal
  <2>1. UNCHANGED <<polling, poller, waiter, poll_shutdown, initiated, eager, heartbeats>>
    BY <1>10 DEF Evicted
  <2>2. act' = [act EXCEPT ![a] = "done"] \/ act' = [act EXCEPT ![a] = "locking"]
    BY <1>10 DEF Evicted, Move, Finish
  <2>3. act[a] = "evicting" /\ act \in [Activities -> Stages] /\ waiter \in Waiters
    BY <1>10 DEF Evicted, TypeOK
  <2>4. CASE act' = [act EXCEPT ![a] = "done"]
    BY <2>1, <2>3, <2>4
  <2>5. CASE act' = [act EXCEPT ![a] = "locking"]
    BY <2>1, <2>3, <2>5
  <2> QED
    BY <2>2, <2>4, <2>5
<1>11. ASSUME NEW a \in Activities, Lock(a) PROVE Goal
  BY <1>11 DEF Lock, TypeOK, Move
<1>12. ASSUME NEW a \in Activities, Report(a) PROVE Goal
  BY <1>12 DEF Report, TypeOK, Move, Finish, NotifyWaiters
<1>13. ASSUME NEW a \in Activities, NEW why \in ServerReasons, HeartbeatAnswer(a, why) PROVE Goal
  BY <1>13 DEF HeartbeatAnswer, TypeOK
<1>14. CASE HandleCancel
  BY <1>14 DEF HandleCancel, TypeOK
<1>c. CASE EagerCloses
  BY <1>c DEF EagerCloses, TypeOK
<1>15. CASE StartsEnd
  BY <1>15 DEF StartsEnd, TypeOK
<1>16. CASE WaiterLooks
  BY <1>16 DEF WaiterLooks, TypeOK
<1>17. CASE WaiterRegisters
  BY <1>17 DEF WaiterRegisters, TypeOK
<1>18. CASE GraceEnds
  BY <1>18 DEF GraceEnds, TypeOK
<1>19. ASSUME NEW a \in Activities, HandleStart(a) PROVE Goal
  BY <1>19 DEF HandleStart, TypeOK, Move
<1>20. CASE InitiateShutdown
  BY <1>20 DEF InitiateShutdown, TypeOK
<1>21. CASE CloseVisible \/ CloseLoads
  BY <1>21 DEF CloseVisible, CloseLoads, TypeOK
<1>22. CASE ShutdownLocks
  BY <1>22 DEF ShutdownLocks, TypeOK
<1>23. CASE ShutdownEnds
  BY <1>23 DEF ShutdownEnds, TypeOK
<1>24. CASE UNCHANGED vars
  BY <1>24 DEF vars
<1> QED
  BY <1>1, <1>2, <1>3, <1>4, <1>5, <1>6, <1>7, <1>8,
     <1>9, <1>10, <1>11, <1>12, <1>13, <1>14, <1>15, <1>16,
     <1>17, <1>18, <1>19, <1>20, <1>21, <1>22, <1>23, <1>24, <1>a, <1>b, <1>c
  DEF Next, StreamStep, ReserveStep, EagerAnswer, CompleteStep, ShutdownStep

\* A cancel that is queued is well formed.
LEMMA CancelIsTyped ==
  ASSUME NEW a \in Activities, NEW why \in Reasons
  PROVE  Cancel(a, why) \in [tt : Activities, reason : Reasons]
  BY DEF Cancel

\* The channel of cancels stays well formed.
LEMMA QueueStep ==
  ASSUME Inv, [Next]_vars
  PROVE  cancels' \in Seq([tt : Activities, reason : Reasons])
<1> DEFINE C == [tt : Activities, reason : Reasons]
<1>1. cancels \in Seq(C)
  BY DEF Inv, TypeOK
<1>2. \A a \in Activities, why \in Reasons : Cancel(a, why) \in C
  BY CancelIsTyped
<1> HIDE DEF C
<1>3. ASSUME HandleCancel PROVE cancels' \in Seq(C)
  BY <1>1, <1>3 DEF HandleCancel
<1>4. ASSUME NEW a \in Activities, HandleStart(a) PROVE cancels' \in Seq(C)
  <2>1. Cancel(a, "WorkerShutdown") \in C
    BY <1>2 DEF Reasons
  <2>2. cancels' = <<Cancel(a, "WorkerShutdown")>> \/ cancels' = cancels
    BY <1>4 DEF HandleStart
  <2>3. <<Cancel(a, "WorkerShutdown")>> \in Seq(C)
    <3> DEFINE c == Cancel(a, "WorkerShutdown")
    <3> HIDE DEF c
    <3>1. c \in C
      BY <2>1 DEF c
    <3>2. <<c>> \in Seq(C)
      BY <3>1
    <3> QED
      BY <3>2 DEF c
  <2> QED
    BY <1>1, <2>2, <2>3
<1>5. ASSUME GraceEnds PROVE cancels' \in Seq(C)
  <2>1. PICK walk \in [1..Cardinality(Outstanding) -> Outstanding] :
           cancels' = cancels \o [i \in DOMAIN walk |-> Cancel(walk[i], "WorkerShutdown")]
    BY <1>5 DEF GraceEnds
  <2>2. Cardinality(Outstanding) \in Nat
    BY ActivityAssumption, FS_Subset, FS_CardinalityType DEF Outstanding
  <2>3. \A i \in 1..Cardinality(Outstanding) : Cancel(walk[i], "WorkerShutdown") \in C
    BY <1>2, <2>1 DEF Reasons, Outstanding
  <2>4. [i \in DOMAIN walk |-> Cancel(walk[i], "WorkerShutdown")] \in Seq(C)
    BY <2>2, <2>3
  <2> DEFINE more == [i \in DOMAIN walk |-> Cancel(walk[i], "WorkerShutdown")]
  <2>5. cancels' = cancels \o more /\ more \in Seq(C)
    BY <2>1, <2>4
  <2> HIDE DEF more
  <2> QED
    BY <1>1, <2>5
<1>6. ASSUME NEW a \in Activities, NEW why \in Reasons, cancels' = Append(cancels, Cancel(a, why))
      PROVE  cancels' \in Seq(C)
  <2>1. Cancel(a, why) \in C
    BY <1>2
  <2> QED
    BY <1>1, <1>6, <2>1
<1>7. ASSUME NEW a \in Activities, NEW why \in ServerReasons, HeartbeatAnswer(a, why)
      PROVE  cancels' \in Seq(C)
  BY <1>6, <1>7 DEF HeartbeatAnswer, Reasons
<1>8. ASSUME NEW a \in Activities, LocalTimeout(a) PROVE cancels' \in Seq(C)
  BY <1>6, <1>8 DEF LocalTimeout, Reasons
<1>9. ASSUME UNCHANGED cancels PROVE cancels' \in Seq(C)
  BY <1>1, <1>9
<1>10. \/ HandleCancel \/ GraceEnds \/ UNCHANGED cancels
       \/ \E a \in Activities : \/ HandleStart(a) \/ LocalTimeout(a)
                                \/ \E why \in ServerReasons : HeartbeatAnswer(a, why)
  BY DEF Next, StreamStep, ReserveStep, EagerAnswer, CompleteStep, ShutdownStep,
      PollBegins, PollGetsNothing, PollerEnds, PollGets, ReserveSlot, CountReservation, TakeSlot, ReserveFails, AddTask,
      ReservationUnused, LocalTimeout, Complete, Evicted, Lock, Report,
      HeartbeatAnswer, HandleCancel, EagerCloses, StartsEnd, WaiterLooks, WaiterRegisters, GraceEnds,
      HandleStart, InitiateShutdown, CloseVisible, CloseLoads, ShutdownLocks, ShutdownEnds,
      Finish, vars, actVars, startVars, semVars, endVars, DropTracked
<1>11. cancels' \in Seq(C)
  BY <1>3, <1>4, <1>5, <1>7, <1>8, <1>9, <1>10
<1> QED
  BY <1>11 DEF C

\* The variables of the eager semaphore and its channel keep their types.
LEMMA SemStep ==
  ASSUME Inv, [Next]_vars
  PROVE  /\ closer' \in {"open", "load", "done"}
         /\ closed' \in {"no", "stored", "seen"}
         /\ close_complete' \in BOOLEAN /\ missed' \in BOOLEAN
         /\ eager' \in {"open", "closed"}
<1>0. /\ closer \in {"open", "load", "done"}
      /\ closed \in {"no", "stored", "seen"}
      /\ close_complete \in BOOLEAN /\ missed \in BOOLEAN
      /\ eager \in {"open", "closed"}
  BY DEF Inv, TypeOK
<1>1. \/ InitiateShutdown \/ CloseVisible \/ CloseLoads \/ UNCHANGED semVars
      \/ \E a \in Activities : ReserveFails(a) \/ DropTracked(a)
  BY DEF Next, StreamStep, ReserveStep, EagerAnswer, CompleteStep, ShutdownStep,
      PollBegins, PollGetsNothing, PollerEnds, PollGets, ReserveSlot, CountReservation, TakeSlot,
      ReserveFails, AddTask, ReservationUnused, LocalTimeout, Complete, Evicted, Lock, Report,
      HeartbeatAnswer, HandleCancel, EagerCloses, StartsEnd, WaiterLooks, WaiterRegisters, GraceEnds,
      HandleStart, InitiateShutdown, CloseVisible, CloseLoads, ShutdownLocks, ShutdownEnds,
      Finish, vars, actVars, startVars, semVars, endVars
<1>2. EagerCloses \/ UNCHANGED eager
  BY DEF Next, StreamStep, ReserveStep, EagerAnswer, CompleteStep, ShutdownStep,
      PollBegins, PollGetsNothing, PollerEnds, PollGets, ReserveSlot, CountReservation, TakeSlot,
      ReserveFails, AddTask, ReservationUnused, LocalTimeout, Complete, Evicted, Lock, Report,
      HeartbeatAnswer, HandleCancel, EagerCloses, StartsEnd, WaiterLooks, WaiterRegisters, GraceEnds,
      HandleStart, InitiateShutdown, CloseVisible, CloseLoads, ShutdownLocks, ShutdownEnds,
      Finish, vars, actVars, startVars, semVars, endVars
<1>3. eager' \in {"open", "closed"}
  BY <1>0, <1>2, Zenon DEF EagerCloses
<1>4. CASE InitiateShutdown
  BY <1>0, <1>3, <1>4, Zenon DEF InitiateShutdown
<1>5. CASE CloseVisible
  BY <1>0, <1>3, <1>5, Zenon DEF CloseVisible
<1>6. CASE CloseLoads
  BY <1>0, <1>3, <1>6, Zenon DEF CloseLoads
<1>7. ASSUME NEW a \in Activities, ReserveFails(a)
      PROVE  /\ closer' \in {"open", "load", "done"} /\ closed' \in {"no", "stored", "seen"}
             /\ close_complete' \in BOOLEAN /\ missed' \in BOOLEAN
  BY <1>0, <1>7, Zenon DEF ReserveFails
<1>8. ASSUME NEW a \in Activities, DropTracked(a)
      PROVE  /\ closer' \in {"open", "load", "done"} /\ closed' \in {"no", "stored", "seen"}
             /\ close_complete' \in BOOLEAN /\ missed' \in BOOLEAN
  BY <1>0, <1>8, Zenon DEF DropTracked
<1>9. CASE UNCHANGED semVars
  BY <1>0, <1>3, <1>9 DEF semVars
<1> QED
  BY <1>1, <1>3, <1>4, <1>5, <1>6, <1>7, <1>8, <1>9, Zenon

\* The other variables keep their types.
LEMMA TypeStep ==
  ASSUME Inv, [Next]_vars
  PROVE  TypeOK'
<1>1. /\ act' \in [Activities -> Stages]
      /\ free' \in 0..MaxConcurrent /\ polling' \in 0..MaxConcurrent
  <2>1. Cardinality(Held') \in Nat
    BY ActivityAssumption, FS_Subset, FS_CardinalityType DEF Held
  <2> QED
    BY <2>1, SlotStep, ActivityAssumption DEF SlotsAccountedFor
<1>2. issued' \in [Activities -> Reasons \cup {"none"}] /\ told' \in [Activities -> Nat]
  <2>1. CASE HandleCancel
    <3>1. Head(cancels).tt \in Activities /\ Head(cancels).reason \in Reasons
      BY <2>1, QueuedCancel DEF HandleCancel, Inv
    <3>2. issued \in [Activities -> Reasons \cup {"none"}] /\ told \in [Activities -> Nat]
      BY DEF Inv, TypeOK
    <3> QED
      BY <2>1, <3>1, <3>2 DEF HandleCancel
  <2>2. CASE UNCHANGED <<issued, told>>
    BY <2>2 DEF Inv, TypeOK
  <2> QED
    BY <2>1, <2>2, Frames
<1>3. reported' \in [Activities -> {"nothing", "result", "cancelled", "async"}]
  <2>1. ASSUME NEW a \in Activities, Report(a)
        PROVE  reported' \in [Activities -> {"nothing", "result", "cancelled", "async"}]
    BY <2>1 DEF Report, Outcomes, Inv, TypeOK
  <2>2. CASE UNCHANGED reported
    BY <2>2 DEF Inv, TypeOK
  <2> QED
    BY <2>1, <2>2, Frames
<1>4. answers' \in [Activities -> 0..MaxAnswers]
  <2>1. ASSUME NEW a \in Activities, NEW why \in ServerReasons, HeartbeatAnswer(a, why)
        PROVE  answers' \in [Activities -> 0..MaxAnswers]
    BY <2>1, ActivityAssumption DEF HeartbeatAnswer, Inv, TypeOK
  <2>2. CASE UNCHANGED answers
    BY <2>2 DEF Inv, TypeOK
  <2>3. \/ \E a \in Activities, why \in ServerReasons : HeartbeatAnswer(a, why)
        \/ UNCHANGED answers
    BY DEF Next, StreamStep, ReserveStep, EagerAnswer, CompleteStep, ShutdownStep,
      PollBegins, PollGetsNothing, PollerEnds, PollGets, ReserveSlot, CountReservation, TakeSlot, ReserveFails, AddTask,
      ReservationUnused, LocalTimeout, Complete, Evicted, Lock, Report,
      HeartbeatAnswer, HandleCancel, EagerCloses, StartsEnd, WaiterLooks, WaiterRegisters, GraceEnds,
      HandleStart, InitiateShutdown, CloseVisible, CloseLoads, ShutdownLocks, ShutdownEnds,
      Finish, vars, actVars, startVars, semVars, endVars, DropTracked
  <2> QED
    BY <2>1, <2>2, <2>3
<1>5. timers' \subseteq Activities
  BY ActivityAssumption DEF Inv, TypeOK, Next, StreamStep, ReserveStep, EagerAnswer, CompleteStep, ShutdownStep,
      PollBegins, PollGetsNothing, PollerEnds, PollGets, ReserveSlot, CountReservation, TakeSlot, ReserveFails, AddTask,
      ReservationUnused, LocalTimeout, Complete, Evicted, Lock, Report,
      HeartbeatAnswer, HandleCancel, EagerCloses, StartsEnd, WaiterLooks, WaiterRegisters, GraceEnds,
      HandleStart, InitiateShutdown, CloseVisible, CloseLoads, ShutdownLocks, ShutdownEnds,
      Finish, vars, actVars, startVars, semVars, endVars, DropTracked
<1>6. /\ poller' \in {"running", "ended"}
      /\ immediate' \in BOOLEAN
      /\ poll_shutdown' \in BOOLEAN
      /\ initiated' \in BOOLEAN
      /\ heartbeats' \in {"running", "stopped"}
  <2>1. poller' \in {"running", "ended"}
    BY DEF Inv, TypeOK, Next, StreamStep, ReserveStep, EagerAnswer, CompleteStep, ShutdownStep,
        PollBegins, PollGetsNothing, PollerEnds, PollGets, ReserveSlot, CountReservation, TakeSlot, ReserveFails, AddTask,
        ReservationUnused, LocalTimeout, Complete, Evicted, Lock, Report,
        HeartbeatAnswer, HandleCancel, EagerCloses, StartsEnd, WaiterLooks, WaiterRegisters, GraceEnds,
        HandleStart, InitiateShutdown, CloseVisible, CloseLoads, ShutdownLocks, ShutdownEnds,
        Finish, vars, actVars, startVars, semVars, endVars, DropTracked
  <2>2. immediate' \in BOOLEAN
    BY DEF Inv, TypeOK, Next, StreamStep, ReserveStep, EagerAnswer, CompleteStep, ShutdownStep,
        PollBegins, PollGetsNothing, PollerEnds, PollGets, ReserveSlot, CountReservation, TakeSlot, ReserveFails, AddTask,
        ReservationUnused, LocalTimeout, Complete, Evicted, Lock, Report,
        HeartbeatAnswer, HandleCancel, EagerCloses, StartsEnd, WaiterLooks, WaiterRegisters, GraceEnds,
        HandleStart, InitiateShutdown, CloseVisible, CloseLoads, ShutdownLocks, ShutdownEnds,
        Finish, vars, actVars, startVars, semVars, endVars, DropTracked
  <2>3. poll_shutdown' \in BOOLEAN
    BY DEF Inv, TypeOK, Next, StreamStep, ReserveStep, EagerAnswer, CompleteStep, ShutdownStep,
        PollBegins, PollGetsNothing, PollerEnds, PollGets, ReserveSlot, CountReservation, TakeSlot, ReserveFails, AddTask,
        ReservationUnused, LocalTimeout, Complete, Evicted, Lock, Report,
        HeartbeatAnswer, HandleCancel, EagerCloses, StartsEnd, WaiterLooks, WaiterRegisters, GraceEnds,
        HandleStart, InitiateShutdown, CloseVisible, CloseLoads, ShutdownLocks, ShutdownEnds,
        Finish, vars, actVars, startVars, semVars, endVars, DropTracked
  <2>4. initiated' \in BOOLEAN
    BY DEF Inv, TypeOK, Next, StreamStep, ReserveStep, EagerAnswer, CompleteStep, ShutdownStep,
        PollBegins, PollGetsNothing, PollerEnds, PollGets, ReserveSlot, CountReservation, TakeSlot, ReserveFails, AddTask,
        ReservationUnused, LocalTimeout, Complete, Evicted, Lock, Report,
        HeartbeatAnswer, HandleCancel, EagerCloses, StartsEnd, WaiterLooks, WaiterRegisters, GraceEnds,
        HandleStart, InitiateShutdown, CloseVisible, CloseLoads, ShutdownLocks, ShutdownEnds,
        Finish, vars, actVars, startVars, semVars, endVars, DropTracked
  <2>5. heartbeats' \in {"running", "stopped"}
    BY DEF Inv, TypeOK, Next, StreamStep, ReserveStep, EagerAnswer, CompleteStep, ShutdownStep,
        PollBegins, PollGetsNothing, PollerEnds, PollGets, ReserveSlot, CountReservation, TakeSlot, ReserveFails, AddTask,
        ReservationUnused, LocalTimeout, Complete, Evicted, Lock, Report,
        HeartbeatAnswer, HandleCancel, EagerCloses, StartsEnd, WaiterLooks, WaiterRegisters, GraceEnds,
        HandleStart, InitiateShutdown, CloseVisible, CloseLoads, ShutdownLocks, ShutdownEnds,
        Finish, vars, actVars, startVars, semVars, endVars, DropTracked
  <2> QED BY <2>1, <2>2, <2>3, <2>4, <2>5
<1>7. waiter' \in Waiters /\ shutdown' \in {"none", "closing", "locking", "awaitPoll", "done"}
  BY DEF Inv, TypeOK, Waiters, NotifyWaiters, Next, StreamStep, ReserveStep, EagerAnswer, CompleteStep, ShutdownStep,
      PollBegins, PollGetsNothing, PollerEnds, PollGets, ReserveSlot, CountReservation, TakeSlot, ReserveFails, AddTask,
      ReservationUnused, LocalTimeout, Complete, Evicted, Lock, Report,
      HeartbeatAnswer, HandleCancel, EagerCloses, StartsEnd, WaiterLooks, WaiterRegisters, GraceEnds,
      HandleStart, InitiateShutdown, CloseVisible, CloseLoads, ShutdownLocks, ShutdownEnds,
      Finish, vars, actVars, startVars, semVars, endVars, DropTracked
<1> QED
  BY <1>1, <1>2, <1>3, <1>4, <1>5, <1>6, <1>7, QueueStep, SemStep DEF TypeOK

\* Nothing has been received at the beginning.
LEMMA InitEstablishes == Init => Inv
<1> SUFFICES ASSUME Init PROVE Inv
  OBVIOUS
<1>1. Held = {}
  BY DEF Init, Held, Slotless
<1>2. SlotsAccountedFor
  BY <1>1, FS_EmptySet, ActivityAssumption DEF Init, SlotsAccountedFor
<1>3. TypeOK
  <2>1. cancels \in Seq([tt : Activities, reason : Reasons])
    <3> DEFINE C == [tt : Activities, reason : Reasons]
    <3> HIDE DEF C
    <3>1. cancels \in Seq(C)
      BY DEF Init
    <3> QED
      BY <3>1 DEF C
  <2>2. /\ answers \in [Activities -> 0..MaxAnswers]
        /\ told \in [Activities -> Nat]
        /\ free \in 0..MaxConcurrent /\ polling \in 0..MaxConcurrent
    BY ActivityAssumption DEF Init
  <2>3. /\ act \in [Activities -> Stages]
        /\ issued \in [Activities -> Reasons \cup {"none"}]
        /\ reported \in [Activities -> {"nothing", "result", "cancelled", "async"}]
        /\ timers \subseteq Activities
        /\ waiter \in Waiters
    BY DEF Init, Stages, Waiters
  <2> QED
    BY <2>1, <2>2, <2>3 DEF Init, TypeOK
<1>4. CancelInv /\ ResultInv /\ EndInv
  BY DEF Init, CancelInv, ResultInv, EndInv, IsNotFound
<1> QED
  BY <1>2, <1>3, <1>4 DEF Inv

\* Inv is inductive.
THEOREM ActivityInvariant == Spec => []Inv
<1>1. Init => Inv
  BY InitEstablishes
<1>2. Inv /\ [Next]_vars => Inv'
  BY TypeStep, SlotStep, CancelStep, ResultStep, EndStep DEF Inv
<1> QED
  BY <1>1, <1>2, PTL DEF Spec

\* The variables of WorkerActivityTasks keep their types; in particular the
\* number of free slots stays within the supply.
THEOREM ActivityTypeCorrect == Spec => []TypeOK
<1>1. Inv => TypeOK
  BY DEF Inv
<1> QED
  BY <1>1, ActivityInvariant, PTL

\* Every slot is free, with a poll or with one activity until complete() ends.
THEOREM SlotsAlwaysAccountedFor == Spec => []SlotsAccountedFor
<1>1. Inv => SlotsAccountedFor
  BY DEF Inv
<1> QED
  BY <1>1, ActivityInvariant, PTL

\* No activity is told twice to cancel.
THEOREM CancelledAtMostOnce == Spec => []CancelledOnce
<1>1. Inv => CancelledOnce
  BY DEF Inv, CancelInv, CancelledOnce
<1> QED
  BY <1>1, ActivityInvariant, PTL

\* complete() keeps a result back only for an activity that was not found.
THEOREM ResultsAreReported == Spec => []NoResultDropped
<1>1. Inv => NoResultDropped
  BY DEF Inv, ResultInv, NoResultDropped
<1> QED
  BY <1>1, ActivityInvariant, PTL

\* When poll() has returned ShutDown nothing is polled for, queued or running any
\* more, whatever reservations crossed the close of the eager semaphore.
THEOREM ShutDownIsFinal == Spec => []DepletedWhenPollShutDown
<1>1. Inv => DepletedWhenPollShutDown
  BY DEF Inv, EndInv, DepletedWhenPollShutDown, Outstanding, TypeOK, Stages, Completing
<1> QED
  BY <1>1, ActivityInvariant, PTL

\* The heartbeat manager stops only when no activity can send it a heartbeat.
THEOREM HeartbeatsStopLast == Spec => []HeartbeatsOutliveActivities
<1>1. Inv => HeartbeatsOutliveActivities
  BY DEF Inv, EndInv, HeartbeatsOutliveActivities
<1> QED
  BY <1>1, ActivityInvariant, PTL

\* The bookkeeping of the manager is right, for any number of activities and slots.
THEOREM TasksAreSafe == Spec => []TasksSafe
<1>1. TypeOK /\ SlotsAccountedFor /\ CancelledOnce /\ HeartbeatsOutliveActivities => TasksSafe
  BY DEF TasksSafe
<1> QED BY <1>1, ActivityTypeCorrect, SlotsAlwaysAccountedFor, CancelledAtMostOnce, HeartbeatsStopLast, PTL
=============================================================================
