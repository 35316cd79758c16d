---------------------------- MODULE PermitDealer ----------------------------
(***************************************************************************)
(* Slot permits of the SDK core (abstractions.rs): MeteredPermitDealer,    *)
(* ClosableMeteredPermitDealer and the permits they hand out, over the     *)
(* fixed-size slot supplier of tuner/fixed_size.rs.                        *)
(*                                                                         *)
(* Tasks on several threads acquire, use and drop permits; the dealers     *)
(* keep four counters with separate atomic operations and no lock, and one *)
(* atomic operation is one step here.  Tasks of a kind are alike and so    *)
(* are permits, so the state counts how many are at each point of the code *)
(* instead of naming them.                                                 *)
(*                                                                         *)
(* The flag of close() is written with Release and the counter read after  *)
(* it with Acquire: such a read may overtake the write.  With StoreDelays  *)
(* the flag becomes visible to other threads some time after the store.    *)
(***************************************************************************)
EXTENDS Naturals

CONSTANTS
  Tasks,        \* how many tasks use each entry point: [Via -> Nat]
  Slots,        \* size of the slot supplier
  MaxPermits,   \* max_permits; 0 stands for None
  StoreDelays   \* the processor may delay the store of close()

\* The entry points: acquire_owned and try_acquire_owned of the metered dealer
\* and try_acquire_owned of the closable one.
Via == {"acquire", "try", "closable"}

ASSUME DealerAssumption ==
  /\ Tasks \in [Via -> Nat]
  /\ Slots \in Nat
  /\ MaxPermits \in Nat
  /\ StoreDelays \in BOOLEAN

VARIABLES
  at,                  \* tasks per entry point and program point
  held,                \* permits per stage of their life
  used_slots,          \* slots the supplier has given out
  unused_claimants,
  extant_permits,
  outstanding_permits,
  close_stored,        \* close() has executed its store
  close_requested,     \* the flag as other threads read it
  closer,              \* where close() is
  close_complete,      \* the token is cancelled
  missed               \* history: the last count went and nobody looked

closeVars == <<close_stored, close_requested, closer, close_complete, missed>>
vars == <<at, held, used_slots, unused_claimants, extant_permits,
          outstanding_permits, closeVars>>

Points == {"idle", "load", "add", "check", "reserve", "claim", "count", "sub"}

\* A dropped permit gives up its claim, is uncounted, and frees its slot.  A
\* tracked one first runs on_drop, also when it is turned into a plain permit.
Fates  == {"keep", "drop"}
Stages == {"tracked", "requested_keep", "requested_drop", "zero_keep", "zero_drop",
           "owned", "used", "unclaim", "uncount", "free"}

Init ==
  /\ at = [v \in Via |-> [p \in Points |-> IF p = "idle" THEN Tasks[v] ELSE 0]]
  /\ held = [s \in Stages |-> 0]
  /\ used_slots = 0
  /\ unused_claimants = 0
  /\ extant_permits = 0
  /\ outstanding_permits = 0
  /\ close_stored = FALSE
  /\ close_requested = FALSE
  /\ closer = "open"
  /\ close_complete = FALSE
  /\ missed = FALSE

----------------------------------------------------------------------------
(* Acquiring.                                                              *)

\* One task of kind v goes from point p to point q.
Move(v, p, q) ==
  /\ at[v][p] > 0
  /\ at' = [at EXCEPT ![v][p] = @ - 1, ![v][q] = @ + 1]

Begin(v) ==
  /\ Move(v, "idle", IF v = "closable" THEN "load" ELSE "check")
  /\ UNCHANGED <<held, used_slots, unused_claimants, extant_permits, outstanding_permits, closeVars>>

LoadCloseRequested ==
  /\ Move("closable", "load", IF close_requested THEN "idle" ELSE "add")
  /\ UNCHANGED <<held, used_slots, unused_claimants, extant_permits, outstanding_permits, closeVars>>

AddOutstanding ==
  /\ Move("closable", "add", "check")
  /\ outstanding_permits' = outstanding_permits + 1
  /\ UNCHANGED <<held, used_slots, unused_claimants, extant_permits, closeVars>>

\* max_permits: acquire_owned waits for room, the others give up.
HasRoom == MaxPermits = 0 \/ extant_permits < MaxPermits

CheckMax(v) ==
  /\ HasRoom
  /\ Move(v, "check", "reserve")
  /\ UNCHANGED <<held, used_slots, unused_claimants, extant_permits, outstanding_permits, closeVars>>

\* The supplier's semaphore has a slot.
Reserve(v) ==
  /\ used_slots < Slots
  /\ used_slots' = used_slots + 1
  /\ Move(v, "reserve", "claim")
  /\ UNCHANGED <<held, unused_claimants, extant_permits, outstanding_permits, closeVars>>

\* A try that finds no room or no slot fails at once.
TryFails(v) ==
  /\ v # "acquire"
  /\ \/ ~HasRoom /\ Move(v, "check", IF v = "closable" THEN "sub" ELSE "idle")
     \/ used_slots = Slots /\ Move(v, "reserve", IF v = "closable" THEN "sub" ELSE "idle")
  /\ UNCHANGED <<held, used_slots, unused_claimants, extant_permits, outstanding_permits, closeVars>>

\* The closable dealer takes its count of a failed try back, and only that: it
\* does not look whether it was the last one of a closed dealer.
SubOutstanding ==
  /\ Move("closable", "sub", "idle")
  /\ outstanding_permits' = outstanding_permits - 1
  /\ missed' = (missed \/ (closer = "done" /\ outstanding_permits = 1))
  /\ UNCHANGED <<held, used_slots, unused_claimants, extant_permits,
                 close_stored, close_requested, closer, close_complete>>

\* acquire_owned is dropped at one of its awaits (the poller shuts down).
CancelAcquire ==
  /\ \E p \in {"check", "reserve"} : Move("acquire", p, "idle")
  /\ UNCHANGED <<held, used_slots, unused_claimants, extant_permits, outstanding_permits, closeVars>>

\* build_owned: two counters, then the permit is handed out.
Claim(v) ==
  /\ Move(v, "claim", "count")
  /\ unused_claimants' = unused_claimants + 1
  /\ UNCHANGED <<held, used_slots, extant_permits, outstanding_permits, closeVars>>

Count(v) ==
  /\ Move(v, "count", "idle")
  /\ extant_permits' = extant_permits + 1
  /\ held' = [held EXCEPT ![IF v = "closable" THEN "tracked" ELSE "owned"] = @ + 1]
  /\ UNCHANGED <<used_slots, unused_claimants, outstanding_permits, closeVars>>

----------------------------------------------------------------------------
(* The life of a permit.                                                   *)

\* One permit goes from stage s to stage t.
Turn(s, t) ==
  /\ held[s] > 0
  /\ held' = [held EXCEPT ![s] = @ - 1, ![t] = @ + 1]

\* Mutant: a permit that is used keeps its claim.
Mut_UseKeepsClaim ==
  /\ Turn("owned", "used")
  /\ UNCHANGED <<at, used_slots, unused_claimants, extant_permits, outstanding_permits, closeVars>>

\* into_used
Use ==
  /\ Turn("owned", "used")
  /\ unused_claimants' = unused_claimants - 1
  /\ UNCHANGED <<at, used_slots, extant_permits, outstanding_permits, closeVars>>

\* Drop of a permit, used or not.
DropOwned ==
  /\ \/ Turn("owned", "uncount") /\ unused_claimants' = unused_claimants - 1
     \/ Turn("unclaim", "uncount") /\ unused_claimants' = unused_claimants - 1
     \/ Turn("used", "uncount") /\ UNCHANGED unused_claimants
  /\ UNCHANGED <<at, used_slots, extant_permits, outstanding_permits, closeVars>>

\* release_fn
Uncount ==
  /\ Turn("uncount", "free")
  /\ extant_permits' = extant_permits - 1
  /\ UNCHANGED <<at, used_slots, unused_claimants, outstanding_permits, closeVars>>

\* Mutant: the supplier's permit is leaked.
Mut_LeakSlot ==
  /\ held["free"] > 0
  /\ held' = [held EXCEPT !["free"] = @ - 1]
  /\ UNCHANGED <<at, used_slots, unused_claimants, extant_permits, outstanding_permits, closeVars>>

\* The supplier's own permit is a field: it is dropped after release_fn ran.
FreeSlot ==
  /\ held["free"] > 0
  /\ held' = [held EXCEPT !["free"] = @ - 1]
  /\ used_slots' = used_slots - 1
  /\ UNCHANGED <<at, unused_claimants, extant_permits, outstanding_permits, closeVars>>

Requested(f) == IF f = "keep" THEN "requested_keep" ELSE "requested_drop"
Zero(f)      == IF f = "keep" THEN "zero_keep" ELSE "zero_drop"
After(f)     == IF f = "keep" THEN "owned" ELSE "unclaim"

\* on_permit_dropped of a tracked permit, in three steps.
Untrack(f) ==
  /\ Turn("tracked", Requested(f))
  /\ outstanding_permits' = outstanding_permits - 1
  /\ UNCHANGED <<at, used_slots, unused_claimants, extant_permits, closeVars>>

\* A flag whose store is delayed is not seen, and the counter not looked at.
OnDropLoadsClose(f) ==
  /\ Turn(Requested(f), IF close_requested THEN Zero(f) ELSE After(f))
  /\ missed' = (missed \/ (closer = "done" /\ ~close_requested))
  /\ UNCHANGED <<at, used_slots, unused_claimants, extant_permits, outstanding_permits,
                 close_stored, close_requested, closer, close_complete>>

\* Mutant: the last returned permit does not cancel the token.
Mut_NoCancelOnDrop(f) ==
  /\ Turn(Zero(f), After(f))
  /\ UNCHANGED <<at, used_slots, unused_claimants, extant_permits, outstanding_permits, closeVars>>

OnDropLoadsCount(f) ==
  /\ Turn(Zero(f), After(f))
  /\ close_complete' = (close_complete \/ outstanding_permits = 0)
  /\ UNCHANGED <<at, used_slots, unused_claimants, extant_permits, outstanding_permits,
                 close_stored, close_requested, closer, missed>>

----------------------------------------------------------------------------
(* close(), once and again: initiate_shutdown and shutdown both call it.   *)

CloseStore ==
  /\ closer \in {"open", "done"}
  /\ closer' = "check"
  /\ close_stored' = TRUE
  /\ close_requested' = (close_requested \/ ~StoreDelays)
  /\ missed' = FALSE
  /\ UNCHANGED <<at, held, used_slots, unused_claimants, extant_permits,
                 outstanding_permits, close_complete>>

\* The delayed store reaches the other threads.
CloseVisible ==
  /\ close_stored /\ ~close_requested
  /\ close_requested' = TRUE
  /\ UNCHANGED <<at, held, used_slots, unused_claimants, extant_permits,
                 outstanding_permits, close_stored, closer, close_complete, missed>>

\* Mutant: close() cancels the token without looking at the counter.
Mut_CloseAtOnce ==
  /\ closer = "check"
  /\ closer' = "done"
  /\ close_complete' = TRUE
  /\ UNCHANGED <<at, held, used_slots, unused_claimants, extant_permits,
                 outstanding_permits, close_stored, close_requested, missed>>

\* Mutant: close() leaves the token to the permits still out, if any.
Mut_CloseLeavesIt ==
  /\ closer = "check"
  /\ closer' = "done"
  /\ UNCHANGED <<at, held, used_slots, unused_claimants, extant_permits,
                 outstanding_permits, close_stored, close_requested, close_complete, missed>>

\* Cancelling the token takes a lock, which also publishes the flag.
CloseLoadsCount ==
  /\ closer = "check"
  /\ closer' = "done"
  /\ close_complete' = (close_complete \/ outstanding_permits = 0)
  /\ close_requested' = (close_requested \/ outstanding_permits = 0)
  /\ UNCHANGED <<at, held, used_slots, unused_claimants, extant_permits,
                 outstanding_permits, close_stored, missed>>

----------------------------------------------------------------------------
AcquireStep(v) == CheckMax(v) \/ Reserve(v) \/ TryFails(v) \/ Claim(v) \/ Count(v)
ClosableStep == LoadCloseRequested \/ AddOutstanding \/ SubOutstanding
DropStep == DropOwned \/ Uncount \/ FreeSlot
OnDropStep(f) == OnDropLoadsClose(f) \/ OnDropLoadsCount(f)

Next ==
  \/ \E v \in Via : Begin(v) \/ AcquireStep(v)
  \/ ClosableStep
  \/ CancelAcquire
  \/ Use \/ DropStep
  \/ \E f \in Fates : Untrack(f) \/ OnDropStep(f)
  \/ CloseStore \/ CloseVisible \/ CloseLoadsCount

Spec == Init /\ [][Next]_vars

(***************************************************************************)
(* Fairness: a call that can go on goes on, tasks finish and drop their    *)
(* permits, tracked permits are passed on or dropped, a store becomes      *)
(* visible.  The supplier's semaphore is FIFO, so acquire_owned gets a     *)
(* slot that becomes free again and again although tries compete for it.   *)
(***************************************************************************)
Fairness ==
  /\ \A v \in Via :
       /\ WF_vars(CheckMax(v) \/ Reserve(v) \/ TryFails(v))
       /\ WF_vars(Claim(v)) /\ WF_vars(Count(v))
  /\ SF_vars(Reserve("acquire"))
  /\ WF_vars(LoadCloseRequested) /\ WF_vars(AddOutstanding) /\ WF_vars(SubOutstanding)
  /\ WF_vars(DropOwned) /\ WF_vars(Uncount) /\ WF_vars(FreeSlot)
  /\ WF_vars(\E f \in Fates : Untrack(f))
  /\ \A f \in Fates : WF_vars(OnDropLoadsClose(f)) /\ WF_vars(OnDropLoadsCount(f))
  /\ WF_vars(CloseVisible) /\ WF_vars(CloseLoadsCount)

FairSpec == Spec /\ Fairness

----------------------------------------------------------------------------
(* Properties.                                                             *)

\* Every variable has its type; in particular no counter wraps below 0 and
\* the supplier never gives out more slots than it has.
TypeOK ==
  /\ at \in [Via -> [Points -> Nat]]
  /\ held \in [Stages -> Nat]
  /\ used_slots \in 0..Slots
  /\ unused_claimants \in Nat /\ extant_permits \in Nat /\ outstanding_permits \in Nat
  /\ close_stored \in BOOLEAN /\ close_requested \in BOOLEAN /\ close_complete \in BOOLEAN
  /\ closer \in {"open", "check", "done"}
  /\ missed \in BOOLEAN

Quiet ==
  /\ \A v \in Via : at[v]["idle"] = Tasks[v]
  /\ \A s \in Stages \ {"tracked", "owned", "used"} : held[s] = 0

\* Whatever was acquired, refused, cancelled, used, passed on and dropped
\* before: when nobody is inside a dealer operation, the four counters say
\* exactly which permits are out, so no path leaks or returns a slot twice.
CountersAgree ==
  Quiet =>
    /\ used_slots = held["tracked"] + held["owned"] + held["used"]
    /\ extant_permits = used_slots
    /\ unused_claimants = held["tracked"] + held["owned"]
    /\ outstanding_permits = held["tracked"]

\* num_issued_slots never shows more than the supplier has: a permit is
\* uncounted before its slot can be taken by somebody else.
WithinSupply == extant_permits <= Slots

AllTasks == Tasks["acquire"] + Tasks["try"] + Tasks["closable"]

\* max_permits is checked before the slot is awaited and not again after it,
\* so the limit can be exceeded, but only by the tasks that acquire at the
\* same time: with one acquirer it is exact.
OvershootBounded == MaxPermits > 0 => extant_permits < MaxPermits + AllTasks

\* The counters of the dealer, which other parts read while operations are in
\* progress, stay within their bounds and agree whenever it is quiet.
DealerSafe == TypeOK /\ CountersAgree /\ WithinSupply /\ OvershootBounded

(***************************************************************************)
(* Completing a close.  The thread that sees the counter at 0 cancels the  *)
(* token; close() looks, and so does every permit that is returned.  Each  *)
(* looks only once, so it matters that the last one to change the counter  *)
(* is one that looks after it.                                             *)
(***************************************************************************)
Looking ==
  \/ closer \in {"open", "check"}
  \/ outstanding_permits > 0
  \/ \E f \in Fates : held[Requested(f)] > 0 \/ held[Zero(f)] > 0

\* A dealer that was closed has completed, or somebody will still look at its
\* counter: close() and the drops never each leave it to the other, in any
\* order of their loads and stores.  The code has two ways to miss it, and no
\* third: a failed try takes the last count back without looking (line 298),
\* and a drop does not see the delayed store of close().
CompletionInHand == close_complete \/ Looking \/ missed

\* "Close completes when all permits have been returned": when the token is
\* cancelled no tracked permit is out, by whichever thread cancels it.
CompletesWhenReturned == [][~close_complete /\ close_complete' => held["tracked"] = 0]_vars

\* A task waiting in acquire_owned is served (or cancelled) as long as permits
\* are dropped again, although tries compete with it for the slots.
WaiterIsServed == at["acquire"]["idle"] = 0 ~> at["acquire"]["idle"] > 0

\* "Once closed, no permits will be handed out": after the token is cancelled
\* no step hands out a tracked permit.  A try that passed the check of the flag
\* and is not counted yet when close() looks refutes it.
NoneHandedOutOnceClosed == [][close_complete => held'["tracked"] <= held["tracked"]]_vars

\* close_complete "Returns after close has been requested and all outstanding
\* permits have been returned".  Permits are returned here and still it may
\* never return: a failed try takes the last count back without looking.
CloseCompletes == closer # "open" ~> close_complete

\* close_complete "Returns after close has been requested and all outstanding
\* permits have been returned", if no try fails for lack of a slot.
CloseCompletesBarFailedTry ==
  [](at["closable"]["sub"] = 0) => (closer # "open" ~> close_complete)

(***************************************************************************)
(* The inductive strengthening: at every moment, inside operations too,    *)
(* each counter is the number of tasks and permits between the operation   *)
(* that raises it and the one that lowers it.                              *)
(***************************************************************************)
Sum(p) == at["acquire"][p] + at["try"][p] + at["closable"][p]
Dropping == held["requested_keep"] + held["requested_drop"] + held["zero_keep"]
            + held["zero_drop"] + held["unclaim"]

SlotsInv ==
  used_slots = Sum("claim") + Sum("count") + held["tracked"] + Dropping
               + held["owned"] + held["used"] + held["uncount"] + held["free"]

ExtantInv ==
  extant_permits = held["tracked"] + Dropping + held["owned"] + held["used"] + held["uncount"]

ClaimInv == unused_claimants = Sum("count") + held["tracked"] + Dropping + held["owned"]

OutstandingInv ==
  outstanding_permits = at["closable"]["check"] + at["closable"]["reserve"]
    + at["closable"]["claim"] + at["closable"]["count"] + at["closable"]["sub"] + held["tracked"]

TasksInv ==
  \A v \in Via : Tasks[v] = at[v]["idle"] + at[v]["load"] + at[v]["add"] + at[v]["check"]
    + at[v]["reserve"] + at[v]["claim"] + at[v]["count"] + at[v]["sub"]

LimitInv ==
  MaxPermits > 0 =>
    extant_permits + Sum("reserve") + Sum("claim") + Sum("count") < MaxPermits + AllTasks

Inv == TypeOK /\ SlotsInv /\ ExtantInv /\ ClaimInv /\ OutstandingInv /\ TasksInv /\ LimitInv
=============================================================================
