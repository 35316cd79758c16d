------------------------ MODULE PermitDealerProofs ------------------------
(***************************************************************************)
(* Proofs about PermitDealer, for any number of tasks, slots and permits   *)
(* and with delayed stores.  Each counter is tied to the tasks and permits *)
(* it stands for (Inv); the properties follow from these equations.        *)
(***************************************************************************)
EXTENDS PermitDealer, TLAPS, Integers

Total(f) == f["idle"] + f["load"] + f["add"] + f["check"] + f["reserve"] + f["claim"]
            + f["count"] + f["sub"]

\* Moving one unit between two points keeps the total.
LEMMA MoveTotal ==
  ASSUME NEW f \in [Points -> Nat], NEW p \in Points, NEW q \in Points, p # q, f[p] > 0,
         NEW g \in [Points -> Nat], g[p] = f[p] - 1, g[q] = f[q] + 1,
         \A r \in Points \ {p, q} : g[r] = f[r]
  PROVE  Total(g) = Total(f)
  BY SMTT(30) DEF Total, Points

\* A task that moves changes the two counts it moves between, nothing else.
LEMMA MoveFacts ==
  ASSUME TypeOK, NEW v \in Via, NEW p \in Points, NEW q \in Points, p # q, Move(v, p, q)
  PROVE  /\ at' \in [Via -> [Points -> Nat]]
         /\ at[v][p] > 0
         /\ at'[v][p] = at[v][p] - 1
         /\ at'[v][q] = at[v][q] + 1
         /\ \A r \in Points \ {p, q} : at'[v][r] = at[v][r]
         /\ \A w \in Via \ {v} : at'[w] = at[w]
  BY DEF Move, TypeOK

\* How a move changes the number of tasks per point over all entry points, and
\* that it loses no task.
LEMMA MoveSums ==
  ASSUME TypeOK, TasksInv, NEW v \in Via, NEW p \in Points, NEW q \in Points, p # q, Move(v, p, q)
  PROVE  /\ at' \in [Via -> [Points -> Nat]]
         /\ Sum(p)' = Sum(p) - 1
         /\ Sum(q)' = Sum(q) + 1
         /\ \A r \in Points \ {p, q} : Sum(r)' = Sum(r)
         /\ TasksInv'
<1>1. at' \in [Via -> [Points -> Nat]]
  BY MoveFacts
<1>2. /\ Sum(p)' = Sum(p) - 1
      /\ Sum(q)' = Sum(q) + 1
      /\ \A r \in Points \ {p, q} : Sum(r)' = Sum(r)
  <2>1. v = "acquire" \/ v = "try" \/ v = "closable"
    BY DEF Via
  <2>2. CASE v = "acquire"
    BY <2>2, <1>1, MoveFacts DEF Sum, Via, TypeOK
  <2>3. CASE v = "try"
    BY <2>3, <1>1, MoveFacts DEF Sum, Via, TypeOK
  <2>4. CASE v = "closable"
    BY <2>4, <1>1, MoveFacts DEF Sum, Via, TypeOK
  <2> QED
    BY <2>1, <2>2, <2>3, <2>4
<1>3. ASSUME NEW w \in Via PROVE Total(at'[w]) = Total(at[w])
  <2>1. CASE w = v
    <3>1. at[v] \in [Points -> Nat] /\ at'[v] \in [Points -> Nat]
      BY <1>1 DEF TypeOK
    <3>2. /\ at[v][p] > 0
          /\ at'[v][p] = at[v][p] - 1
          /\ at'[v][q] = at[v][q] + 1
          /\ \A r \in Points \ {p, q} : at'[v][r] = at[v][r]
      BY MoveFacts
    <3> QED
      BY <2>1, <3>1, <3>2, MoveTotal
  <2>2. CASE w # v
    BY <2>2, MoveFacts
  <2> QED
    BY <2>1, <2>2
<1>4. TasksInv'
  BY <1>3 DEF TasksInv, Total
<1> QED
  BY <1>1, <1>2, <1>4

InTry == {"check", "reserve", "claim", "count", "sub"}
TriesOut == at["closable"]["check"] + at["closable"]["reserve"] + at["closable"]["claim"]
            + at["closable"]["count"] + at["closable"]["sub"]

\* How a move changes the number of tries that the closable dealer has counted.
LEMMA MoveTries ==
  ASSUME TypeOK, NEW v \in Via, NEW p \in Points, NEW q \in Points, p # q, Move(v, p, q)
  PROVE  TriesOut' = TriesOut + (IF v = "closable" /\ p \notin InTry /\ q \in InTry THEN 1 ELSE
                                 IF v = "closable" /\ p \in InTry /\ q \notin InTry THEN -1 ELSE 0)
<1>1. CASE v = "closable"
  <2> DEFINE f == at["closable"]
             g == at'["closable"]
  <2>1. f \in [Points -> Nat] /\ g \in [Points -> Nat] /\ f[p] > 0 /\ g[p] = f[p] - 1
        /\ g[q] = f[q] + 1 /\ \A r \in Points \ {p, q} : g[r] = f[r]
    BY <1>1, MoveFacts DEF TypeOK
  <2> HIDE DEF f, g
  <2>2. g["check"] + g["reserve"] + g["claim"] + g["count"] + g["sub"] =
          f["check"] + f["reserve"] + f["claim"] + f["count"] + f["sub"] +
          (IF p \notin InTry /\ q \in InTry THEN 1 ELSE
           IF p \in InTry /\ q \notin InTry THEN -1 ELSE 0)
    BY <2>1, SMTT(30) DEF InTry, Points
  <2> QED
    BY <1>1, <2>2 DEF TriesOut, f, g
<1>2. CASE v # "closable"
  <2>1. at'["closable"] = at["closable"]
    BY <1>2, MoveFacts DEF Via
  <2>2. at["closable"] \in [Points -> Nat]
    BY DEF TypeOK, Via
  <2> QED
    BY <1>2, <2>1, <2>2 DEF TriesOut, Points
<1> QED
  BY <1>1, <1>2

\* So does a permit that goes from one stage to another.
LEMMA TurnFacts ==
  ASSUME TypeOK, NEW s \in Stages, NEW t \in Stages, s # t, Turn(s, t)
  PROVE  /\ held' \in [Stages -> Nat]
         /\ held[s] > 0
         /\ held'[s] = held[s] - 1
         /\ held'[t] = held[t] + 1
         /\ \A r \in Stages \ {s, t} : held'[r] = held[r]
  BY DEF Turn, TypeOK

\* The initial counts agree.
LEMMA InitInv == Init => Inv
<1> SUFFICES ASSUME Init PROVE Inv
  OBVIOUS
<1> USE DealerAssumption
<1>0. \A v \in Via : Tasks[v] \in Nat
  OBVIOUS
<1>a. \A v \in Via : at[v] = [p \in Points |-> IF p = "idle" THEN Tasks[v] ELSE 0]
  BY DEF Init
<1>b. held = [s \in Stages |-> 0]
  BY DEF Init
<1>1. TypeOK
  <2>1. at \in [Via -> [Points -> Nat]] /\ held \in [Stages -> Nat]
    BY <1>0 DEF Init
  <2>2. /\ used_slots \in 0..Slots
        /\ unused_claimants \in Nat /\ extant_permits \in Nat /\ outstanding_permits \in Nat
    BY DEF Init
  <2>3. /\ close_stored \in BOOLEAN /\ close_requested \in BOOLEAN /\ close_complete \in BOOLEAN
        /\ closer \in {"open", "check", "done"} /\ missed \in BOOLEAN
    BY DEF Init
  <2> QED
    BY <2>1, <2>2, <2>3 DEF TypeOK
<1>c. \A p \in Points : p # "idle" => Sum(p) = 0 /\ at["closable"][p] = 0
  BY <1>a DEF Sum, Via
<1>2. SlotsInv /\ ExtantInv /\ ClaimInv
  <2>1. Dropping = 0 /\ held["tracked"] = 0 /\ held["owned"] = 0 /\ held["used"] = 0
        /\ held["uncount"] = 0 /\ held["free"] = 0
    BY <1>b DEF Dropping, Stages
  <2>2. Sum("claim") = 0 /\ Sum("count") = 0
    BY <1>c DEF Points
  <2> QED
    BY <2>1, <2>2 DEF Init, SlotsInv, ExtantInv, ClaimInv
<1>5. OutstandingInv
  <2>1. held["tracked"] = 0
    BY <1>b DEF Stages
  <2> QED
    BY <2>1, <1>c DEF Init, OutstandingInv, Points
<1>3. TasksInv
  <2> SUFFICES ASSUME NEW v \in Via
               PROVE  Tasks[v] = at[v]["idle"] + at[v]["load"] + at[v]["add"] + at[v]["check"]
                        + at[v]["reserve"] + at[v]["claim"] + at[v]["count"] + at[v]["sub"]
    BY DEF TasksInv
  <2>1. at[v]["idle"] = Tasks[v] /\ Tasks[v] \in Nat
    BY <1>a, <1>0 DEF Points
  <2>2. \A p \in Points : p # "idle" => at[v][p] = 0
    BY <1>a
  <2>3. /\ at[v]["load"] = 0 /\ at[v]["add"] = 0 /\ at[v]["check"] = 0 /\ at[v]["reserve"] = 0
        /\ at[v]["claim"] = 0 /\ at[v]["count"] = 0 /\ at[v]["sub"] = 0
    BY <2>2 DEF Points
  <2> QED
    BY <2>1, <2>3
<1>4. LimitInv
  <2>1. Sum("reserve") = 0 /\ Sum("claim") = 0 /\ Sum("count") = 0
    BY <1>c DEF Points
  <2>2. AllTasks \in Nat
    BY <1>0 DEF AllTasks, Via
  <2> QED
    BY <2>1, <2>2 DEF Init, LimitInv
<1> QED
  BY <1>1, <1>2, <1>3, <1>4, <1>5 DEF Inv

\* The sums of natural numbers that the equations speak of.
LEMMA SumTypes ==
  ASSUME TypeOK
  PROVE  /\ \A p \in Points : Sum(p) \in Nat
         /\ TriesOut \in Nat /\ Dropping \in Nat /\ AllTasks \in Nat
         /\ \A s \in Stages : held[s] \in Nat
<1>1. \A v \in Via, p \in Points : at[v][p] \in Nat
  BY DEF TypeOK
<1>2. \A p \in Points : Sum(p) \in Nat
  BY <1>1 DEF Sum, Via
<1>3. TriesOut \in Nat
  BY <1>1 DEF TriesOut, Via, Points
<1>4. Dropping \in Nat /\ \A s \in Stages : held[s] \in Nat
  BY DEF Dropping, TypeOK, Stages
<1>5. AllTasks \in Nat
  BY DealerAssumption DEF AllTasks, Via
<1> QED
  BY <1>2, <1>3, <1>4, <1>5

CloseTypes ==
  /\ close_stored \in BOOLEAN /\ close_requested \in BOOLEAN /\ close_complete \in BOOLEAN
  /\ closer \in {"open", "check", "done"}
  /\ missed \in BOOLEAN

\* A step that leaves close() alone keeps the types of its variables.
LEMMA CloseKept ==
  ASSUME Inv, UNCHANGED closeVars
  PROVE  CloseTypes'
  BY DEF Inv, TypeOK, closeVars, CloseTypes

\* The counters after a step are read off the equations: what the invariant
\* says of the numbers is enough for Inv.
LEMMA Assemble ==
  ASSUME Inv, at' \in [Via -> [Points -> Nat]], held' \in [Stages -> Nat], TasksInv',
         used_slots' \in 0..Slots,
         SlotsInv', ExtantInv', ClaimInv', OutstandingInv', LimitInv',
         CloseTypes'
  PROVE  Inv'
<1>1. unused_claimants' \in Nat /\ extant_permits' \in Nat /\ outstanding_permits' \in Nat
  <2>1. \A v \in Via, p \in Points : at'[v][p] \in Nat
    OBVIOUS
  <2>2. \A s \in Stages : held'[s] \in Nat
    OBVIOUS
  <2>3. Sum("count")' \in Nat
    BY <2>1 DEF Sum, Via, Points
  <2>4. Dropping' \in Nat
    BY <2>2 DEF Dropping, Stages
  <2>5. unused_claimants' \in Nat /\ extant_permits' \in Nat
    BY <2>2, <2>3, <2>4 DEF ClaimInv, ExtantInv, Stages
  <2>6. outstanding_permits' \in Nat
    BY <2>1, <2>2 DEF OutstandingInv, Via, Points, Stages
  <2> QED
    BY <2>5, <2>6
<1>3. TypeOK'
  BY <1>1 DEF TypeOK, CloseTypes
<1> QED
  BY <1>3 DEF Inv

\* A task moves and no permit changes stage: the equations need only the sums
\* per point and the number of counted tries.
LEMMA MoveInv ==
  ASSUME Inv, NEW v \in Via, NEW p \in Points, NEW q \in Points, p # q, Move(v, p, q),
         UNCHANGED <<held, extant_permits>>, CloseTypes',
         used_slots' = used_slots + (Sum("claim")' + Sum("count")' - Sum("claim") - Sum("count")),
         unused_claimants' = unused_claimants + (Sum("count")' - Sum("count")),
         outstanding_permits' = outstanding_permits + (TriesOut' - TriesOut),
         used_slots' \in 0..Slots,
         LimitInv'
  PROVE  Inv'
<1>0. TypeOK /\ TasksInv /\ SlotsInv /\ ExtantInv /\ ClaimInv /\ OutstandingInv
  BY DEF Inv
<1>1. at' \in [Via -> [Points -> Nat]] /\ TasksInv'
  BY <1>0, MoveSums
<1>2. held' \in [Stages -> Nat]
  BY <1>0 DEF TypeOK
<1>3. /\ Sum("claim") \in Nat /\ Sum("count") \in Nat /\ TriesOut \in Nat /\ Dropping \in Nat
      /\ held["tracked"] \in Nat /\ held["owned"] \in Nat /\ held["used"] \in Nat
      /\ held["uncount"] \in Nat /\ held["free"] \in Nat
  BY <1>0, SumTypes DEF Points, Stages
<1>4. Sum("claim")' \in Nat /\ Sum("count")' \in Nat /\ TriesOut' \in Nat
  <2>1. \A w \in Via, r \in Points : at'[w][r] \in Nat
    BY <1>1
  <2> QED
    BY <2>1 DEF Sum, TriesOut, Via, Points
<1>5. Dropping' = Dropping
  BY DEF Dropping
<1>6. SlotsInv' /\ ExtantInv' /\ ClaimInv'
  BY <1>0, <1>3, <1>4, <1>5 DEF SlotsInv, ExtantInv, ClaimInv
<1>7. OutstandingInv'
  BY <1>0, <1>3, <1>4 DEF OutstandingInv, TriesOut
<1> QED
  BY <1>1, <1>2, <1>6, <1>7, Assemble

\* Nobody gets past the check of max_permits: LimitInv is kept by a move that
\* does not enter the points behind it.
LEMMA MoveLimit ==
  ASSUME Inv, NEW v \in Via, NEW p \in Points, NEW q \in Points, p # q, Move(v, p, q),
         UNCHANGED extant_permits,
         q \in {"reserve", "claim", "count"} => p \in {"reserve", "claim", "count"}
  PROVE  LimitInv'
<1>1. TypeOK /\ TasksInv /\ LimitInv
  BY DEF Inv
<1>2. /\ Sum("reserve") \in Nat /\ Sum("claim") \in Nat /\ Sum("count") \in Nat
      /\ AllTasks \in Nat /\ extant_permits \in Nat
  BY <1>1, SumTypes DEF Points, TypeOK
<1>3. Sum("reserve")' + Sum("claim")' + Sum("count")' <= Sum("reserve") + Sum("claim") + Sum("count")
  <2>1. /\ Sum(p)' = Sum(p) - 1
        /\ Sum(q)' = Sum(q) + 1
        /\ \A r \in Points \ {p, q} : Sum(r)' = Sum(r)
    BY <1>1, MoveSums
  <2> HIDE DEF Sum
  <2> QED
    BY <1>2, <2>1 DEF Points
<1>4. Sum("reserve")' \in Int /\ Sum("claim")' \in Int /\ Sum("count")' \in Int
  <2>1. at' \in [Via -> [Points -> Nat]]
    BY <1>1, MoveSums
  <2> QED
    BY <2>1 DEF Sum, Via, Points
<1> QED
  BY <1>1, <1>2, <1>3, <1>4, DealerAssumption DEF LimitInv, AllTasks

\* A move that no counter notices.
LEMMA PlainMove ==
  ASSUME Inv, NEW v \in Via, NEW p \in Points, NEW q \in Points, p # q, Move(v, p, q),
         UNCHANGED <<held, used_slots, unused_claimants, extant_permits, outstanding_permits, closeVars>>,
         {p, q} \cap {"claim", "count"} = {},
         v = "closable" => (p \in InTry <=> q \in InTry),
         LimitInv'
  PROVE  Inv'
<1>0. TypeOK /\ TasksInv
  BY DEF Inv
<1>a. "claim" \in Points \ {p, q} /\ "count" \in Points \ {p, q}
  BY DEF Points
<1>1. Sum("claim")' = Sum("claim") /\ Sum("count")' = Sum("count")
  BY <1>0, <1>a, MoveSums
<1>2. TriesOut' = TriesOut + 0
  BY <1>0, MoveTries
<1>3. /\ Sum("claim") \in Nat /\ Sum("count") \in Nat /\ TriesOut \in Nat
      /\ used_slots \in 0..Slots /\ unused_claimants \in Nat /\ outstanding_permits \in Nat
  BY <1>0, SumTypes DEF Points, TypeOK
<1> QED
  BY <1>1, <1>2, <1>3, MoveInv, CloseKept, DealerAssumption

\* Every step of acquire_owned and of the two try_acquire_owned keeps Inv.
LEMMA AcquireInv ==
  ASSUME Inv,
         \/ \E v \in Via : Begin(v) \/ AcquireStep(v)
         \/ ClosableStep \/ CancelAcquire
  PROVE  Inv'
<1>0. TypeOK /\ TasksInv /\ LimitInv /\ SlotsInv /\ ExtantInv /\ ClaimInv /\ OutstandingInv
  BY DEF Inv
<1>n. /\ Sum("claim") \in Nat /\ Sum("count") \in Nat /\ TriesOut \in Nat
      /\ used_slots \in 0..Slots /\ unused_claimants \in Nat /\ outstanding_permits \in Nat
      /\ extant_permits \in Nat /\ Slots \in Nat
  BY <1>0, SumTypes, DealerAssumption DEF Points, TypeOK
<1>1. ASSUME NEW v \in Via, Begin(v) PROVE Inv'
  <2>1. CASE v = "closable"
    <3>1. Move(v, "idle", "load")
      BY <1>1, <2>1 DEF Begin
    <3>2. LimitInv'
      BY <1>1, <3>1, MoveLimit DEF Begin, Points
    <3> QED
      BY <1>1, <3>1, <3>2, PlainMove DEF Begin, Points, InTry
  <2>2. CASE v # "closable"
    <3>1. Move(v, "idle", "check")
      BY <1>1, <2>2 DEF Begin
    <3>2. LimitInv'
      BY <1>1, <3>1, MoveLimit DEF Begin, Points
    <3> QED
      BY <1>1, <2>2, <3>1, <3>2, PlainMove DEF Begin, Points, InTry
  <2> QED
    BY <2>1, <2>2
<1>2. ASSUME NEW v \in Via, CheckMax(v) PROVE Inv'
  <2>1. Move(v, "check", "reserve") /\ HasRoom
    BY <1>2 DEF CheckMax
  <2>2. LimitInv'
    <3>1. /\ Sum("reserve")' = Sum("reserve") + 1
          /\ Sum("claim")' = Sum("claim") /\ Sum("count")' = Sum("count")
      BY <1>0, <2>1, MoveSums DEF Points
    <3>2. Sum("reserve")' + Sum("claim")' + Sum("count")' <= AllTasks
      <4>1. TasksInv' /\ at' \in [Via -> [Points -> Nat]]
        BY <1>0, <2>1, MoveSums DEF Points
      <4>2. \A w \in Via : at'[w]["reserve"] + at'[w]["claim"] + at'[w]["count"] <= Tasks[w]
        <5> SUFFICES ASSUME NEW w \in Via
                     PROVE  at'[w]["reserve"] + at'[w]["claim"] + at'[w]["count"] <= Tasks[w]
          OBVIOUS
        <5>1. \A r \in Points : at'[w][r] \in Nat
          BY <4>1
        <5> QED
          BY <4>1, <5>1 DEF TasksInv, Points
      <4>3. \A w \in Via, r \in Points : at'[w][r] \in Nat
        BY <4>1
      <4> QED
        BY <4>2, <4>3, DealerAssumption DEF Sum, AllTasks, Via, Points
    <3>3. Sum("reserve")' \in Int /\ Sum("claim")' \in Int /\ Sum("count")' \in Int /\ AllTasks \in Nat
      BY <3>1, <1>0, <1>n, SumTypes DEF Points
    <3> QED
      BY <1>2, <2>1, <3>2, <3>3, <1>n, DealerAssumption DEF LimitInv, HasRoom, CheckMax, AllTasks
  <2> QED
    BY <1>2, <2>1, <2>2, PlainMove DEF CheckMax, Points, InTry
<1>3. ASSUME NEW v \in Via, Reserve(v) PROVE Inv'
  <2>1. Move(v, "reserve", "claim") /\ used_slots' = used_slots + 1 /\ used_slots < Slots
        /\ UNCHANGED <<held, unused_claimants, extant_permits, outstanding_permits, closeVars>>
    BY <1>3 DEF Reserve
  <2>2. Sum("claim")' = Sum("claim") + 1 /\ Sum("count")' = Sum("count")
    BY <1>0, <2>1, MoveSums DEF Points
  <2>3. TriesOut' = TriesOut + 0
    BY <1>0, <2>1, MoveTries DEF Points, InTry
  <2>4. LimitInv'
    BY <2>1, MoveLimit DEF Points
  <2> QED
    BY <1>n, <2>1, <2>2, <2>3, <2>4, MoveInv, CloseKept DEF Points
<1>4. ASSUME NEW v \in Via, TryFails(v) PROVE Inv'
  <2> DEFINE u == UNCHANGED <<held, used_slots, unused_claimants, extant_permits, outstanding_permits, closeVars>>
  <2>0. u
    BY <1>4 DEF TryFails
  <2>1. ASSUME NEW p \in {"check", "reserve"}, Move(v, p, "sub"), v = "closable" PROVE Inv'
    <3>1. LimitInv'
      BY <2>0, <2>1, MoveLimit DEF Points
    <3> QED
      BY <2>0, <2>1, <3>1, PlainMove DEF Points, InTry
  <2>2. ASSUME NEW p \in {"check", "reserve"}, Move(v, p, "idle"), v # "closable" PROVE Inv'
    <3>1. LimitInv'
      BY <2>0, <2>2, MoveLimit DEF Points
    <3> QED
      BY <2>0, <2>2, <3>1, PlainMove DEF Points
  <2> QED
    BY <1>4, <2>1, <2>2 DEF TryFails
<1>5. ASSUME NEW v \in Via, Claim(v) PROVE Inv'
  <2>1. Move(v, "claim", "count") /\ unused_claimants' = unused_claimants + 1
        /\ UNCHANGED <<held, used_slots, extant_permits, outstanding_permits, closeVars>>
    BY <1>5 DEF Claim
  <2>2. Sum("claim")' = Sum("claim") - 1 /\ Sum("count")' = Sum("count") + 1
    BY <1>0, <2>1, MoveSums DEF Points
  <2>3. TriesOut' = TriesOut + 0
    BY <1>0, <2>1, MoveTries DEF Points, InTry
  <2>4. LimitInv'
    BY <2>1, MoveLimit DEF Points
  <2> QED
    BY <1>n, <2>1, <2>2, <2>3, <2>4, MoveInv, CloseKept DEF Points
<1>6. ASSUME NEW v \in Via, Count(v) PROVE Inv'
  <2>1. Move(v, "count", "idle") /\ extant_permits' = extant_permits + 1
        /\ UNCHANGED <<used_slots, unused_claimants, outstanding_permits, closeVars>>
        /\ held' = [held EXCEPT ![IF v = "closable" THEN "tracked" ELSE "owned"] = @ + 1]
    BY <1>6 DEF Count
  <2>2. /\ Sum("claim")' = Sum("claim") /\ Sum("count")' = Sum("count") - 1
        /\ Sum("reserve")' = Sum("reserve")
    BY <1>0, <2>1, MoveSums DEF Points
  <2>3. at' \in [Via -> [Points -> Nat]] /\ TasksInv'
    BY <1>0, <2>1, MoveSums DEF Points
  <2>4. TriesOut' = TriesOut + (IF v = "closable" THEN -1 ELSE 0)
    BY <1>0, <2>1, MoveTries DEF Points, InTry
  <2>5. \A t \in Stages : held[t] \in Nat
    BY <1>0 DEF TypeOK
  <2>6. /\ held' \in [Stages -> Nat]
        /\ held'["tracked"] = held["tracked"] + (IF v = "closable" THEN 1 ELSE 0)
        /\ held'["owned"] = held["owned"] + (IF v = "closable" THEN 0 ELSE 1)
        /\ \A t \in Stages \ {"tracked", "owned"} : held'[t] = held[t]
    BY <1>0, <2>1, <2>5 DEF TypeOK, Stages
  <2>7. /\ held'["tracked"] + held'["owned"] = held["tracked"] + held["owned"] + 1
        /\ held'["tracked"] \in Nat /\ held'["owned"] \in Nat /\ held["tracked"] \in Nat /\ held["owned"] \in Nat
        /\ held["used"] \in Nat /\ held["uncount"] \in Nat /\ held["free"] \in Nat /\ Dropping \in Nat
        /\ held'["used"] = held["used"] /\ held'["uncount"] = held["uncount"] /\ held'["free"] = held["free"]
    BY <1>0, <2>5, <2>6, SumTypes DEF Stages
  <2>8. Dropping' = Dropping
    BY <2>6 DEF Dropping, Stages
  <2>9. SlotsInv' /\ ExtantInv' /\ ClaimInv'
    <3>1. SlotsInv'
      BY <1>0, <1>n, <2>1, <2>2, <2>7, <2>8 DEF SlotsInv
    <3>2. ExtantInv'
      BY <1>0, <1>n, <2>1, <2>7, <2>8 DEF ExtantInv
    <3>3. ClaimInv'
      <4>1. unused_claimants = Sum("count") + held["tracked"] + Dropping + held["owned"]
        BY <1>0 DEF ClaimInv
      <4>2. unused_claimants = Sum("count")' + held'["tracked"] + Dropping' + held'["owned"]
        <5>1. /\ Sum("count")' = Sum("count") - 1 /\ Dropping' = Dropping
              /\ held'["tracked"] + held'["owned"] = held["tracked"] + held["owned"] + 1
          BY <2>2, <2>7, <2>8
        <5>2. /\ Sum("count") \in Nat /\ Dropping \in Nat
              /\ held'["tracked"] \in Nat /\ held'["owned"] \in Nat
              /\ held["tracked"] \in Nat /\ held["owned"] \in Nat
          BY <1>n, <2>7
        <5> QED
          BY <4>1, <5>1, <5>2
      <4> QED
        BY <4>2, <2>1 DEF ClaimInv
    <3> QED
      BY <3>1, <3>2, <3>3
  <2>10. OutstandingInv'
    BY <1>0, <1>n, <2>1, <2>4, <2>6, <2>7 DEF OutstandingInv, TriesOut
  <2>11. LimitInv'
    <3>1. Sum("reserve") \in Nat /\ AllTasks \in Nat
      BY <1>0, SumTypes DEF Points
    <3> QED
      BY <1>0, <1>n, <2>1, <2>2, <3>1, DealerAssumption DEF LimitInv, AllTasks
  <2> QED
    BY <1>n, <2>1, <2>3, <2>6, <2>9, <2>10, <2>11, Assemble, CloseKept
<1>7. CASE LoadCloseRequested
  <2>1. \E q \in {"idle", "add"} : Move("closable", "load", q)
    BY <1>7 DEF LoadCloseRequested
  <2>2. PICK q \in {"idle", "add"} : Move("closable", "load", q)
    BY <2>1
  <2>3. LimitInv'
    BY <1>7, <2>2, MoveLimit DEF LoadCloseRequested, Points, Via
  <2> QED
    BY <1>7, <2>2, <2>3, PlainMove DEF LoadCloseRequested, Points, InTry, Via
<1>8. CASE AddOutstanding
  <2>1. Move("closable", "add", "check") /\ outstanding_permits' = outstanding_permits + 1
        /\ UNCHANGED <<held, used_slots, unused_claimants, extant_permits, closeVars>>
    BY <1>8 DEF AddOutstanding
  <2>2. Sum("claim")' = Sum("claim") /\ Sum("count")' = Sum("count")
    BY <1>0, <2>1, MoveSums DEF Points, Via
  <2>3. TriesOut' = TriesOut + 1
    BY <1>0, <2>1, MoveTries DEF Points, InTry, Via
  <2>4. LimitInv'
    BY <2>1, MoveLimit DEF Points, Via
  <2> QED
    BY <1>n, <2>1, <2>2, <2>3, <2>4, MoveInv, CloseKept DEF Points, Via
<1>9. CASE SubOutstanding
  <2>1. Move("closable", "sub", "idle") /\ outstanding_permits' = outstanding_permits - 1
        /\ UNCHANGED <<held, used_slots, unused_claimants, extant_permits>>
    BY <1>9 DEF SubOutstanding
  <2>2. Sum("claim")' = Sum("claim") /\ Sum("count")' = Sum("count")
    BY <1>0, <2>1, MoveSums DEF Points, Via
  <2>3. TriesOut' = TriesOut + (-1)
    BY <1>0, <2>1, MoveTries DEF Points, InTry, Via
  <2>4. LimitInv'
    BY <2>1, MoveLimit DEF Points, Via
  <2>5. CloseTypes'
    BY <1>0, <1>9, Zenon DEF SubOutstanding, TypeOK, CloseTypes
  <2> QED
    BY <1>n, <2>5, <2>1, <2>2, <2>3, <2>4, MoveInv DEF Points, Via
<1>10. CASE CancelAcquire
  <2>1. PICK p \in {"check", "reserve"} : Move("acquire", p, "idle")
    BY <1>10 DEF CancelAcquire
  <2>2. LimitInv'
    BY <1>10, <2>1, MoveLimit DEF CancelAcquire, Points, Via
  <2> QED
    BY <1>10, <2>1, <2>2, PlainMove DEF CancelAcquire, Points, Via
<1> QED
  BY <1>1, <1>2, <1>3, <1>4, <1>5, <1>6, <1>7, <1>8, <1>9, <1>10 DEF AcquireStep, ClosableStep

\* A permit changes stage: the equations need only the stages it leaves and
\* enters.  Dropping counts it while on_drop runs and until it is unclaimed.
LEMMA TurnInv ==
  ASSUME Inv, held' \in [Stages -> Nat], UNCHANGED at, CloseTypes',
         used_slots' = used_slots +
           (Dropping' + held'["tracked"] + held'["owned"] + held'["used"] + held'["uncount"] + held'["free"]
            - (Dropping + held["tracked"] + held["owned"] + held["used"] + held["uncount"] + held["free"])),
         extant_permits' = extant_permits +
           (Dropping' + held'["tracked"] + held'["owned"] + held'["used"] + held'["uncount"]
            - (Dropping + held["tracked"] + held["owned"] + held["used"] + held["uncount"])),
         unused_claimants' = unused_claimants +
           (Dropping' + held'["tracked"] + held'["owned"] - (Dropping + held["tracked"] + held["owned"])),
         outstanding_permits' = outstanding_permits + (held'["tracked"] - held["tracked"]),
         used_slots' <= used_slots, extant_permits' <= extant_permits
  PROVE  Inv'
<1>0. TypeOK /\ TasksInv /\ LimitInv /\ SlotsInv /\ ExtantInv /\ ClaimInv /\ OutstandingInv
  BY DEF Inv
<1>1. /\ Sum("claim") \in Nat /\ Sum("count") \in Nat /\ Sum("reserve") \in Nat /\ TriesOut \in Nat
      /\ used_slots \in 0..Slots /\ unused_claimants \in Nat /\ outstanding_permits \in Nat
      /\ extant_permits \in Nat /\ Slots \in Nat /\ AllTasks \in Nat /\ Dropping \in Nat
  BY <1>0, SumTypes, DealerAssumption DEF Points, TypeOK
<1>2. /\ \A p \in Points : Sum(p)' = Sum(p)
      /\ TriesOut' = TriesOut
      /\ at' \in [Via -> [Points -> Nat]]
      /\ TasksInv'
  BY <1>0 DEF Sum, TriesOut, TasksInv, TypeOK
<1>3. \A t \in Stages : held[t] \in Nat /\ held'[t] \in Nat
  BY <1>0 DEF TypeOK
<1>4. Dropping' \in Nat
  BY <1>3 DEF Dropping, Stages
<1>5. Sum("claim")' = Sum("claim") /\ Sum("count")' = Sum("count") /\ Sum("reserve")' = Sum("reserve")
  BY <1>2 DEF Points
<1>6. SlotsInv'
  BY <1>0, <1>1, <1>3, <1>4, <1>5 DEF SlotsInv, Stages
<1>7. ExtantInv'
  BY <1>0, <1>1, <1>3, <1>4 DEF ExtantInv, Stages
<1>8. ClaimInv'
  BY <1>0, <1>1, <1>3, <1>4, <1>5 DEF ClaimInv, Stages
<1>9. OutstandingInv'
  BY <1>0, <1>1, <1>2, <1>3 DEF OutstandingInv, TriesOut, Stages
<1>10. extant_permits' \in Nat /\ used_slots' \in 0..Slots
  BY <1>1, <1>3, <1>4, <1>5, <1>6, <1>7 DEF SlotsInv, ExtantInv, Stages
<1>11. LimitInv'
  BY <1>0, <1>1, <1>5, <1>10, DealerAssumption DEF LimitInv, AllTasks
<1> QED
  BY <1>2, <1>6, <1>7, <1>8, <1>9, <1>10, <1>11, Assemble

\* Every step in the life of a permit keeps Inv, but for the one that may
\* cancel the token.
LEMMA PermitInv ==
  ASSUME Inv,
         \/ Use \/ DropStep
         \/ \E f \in Fates : Untrack(f) \/ OnDropLoadsClose(f)
  PROVE  Inv'
<1>0. TypeOK
  BY DEF Inv
<1>1. /\ used_slots \in Nat /\ unused_claimants \in Nat /\ outstanding_permits \in Nat
      /\ extant_permits \in Nat /\ \A t \in Stages : held[t] \in Nat
  BY <1>0, DealerAssumption DEF TypeOK
<1>s. /\ Dropping \in Nat /\ held["tracked"] \in Nat /\ held["owned"] \in Nat
      /\ held["used"] \in Nat /\ held["uncount"] \in Nat /\ held["free"] \in Nat
  BY <1>0, SumTypes DEF Stages
<1>k. Use \/ DropStep \/ (\E f \in Fates : Untrack(f)) => CloseTypes'
  <2>1. Use \/ DropStep \/ (\E f \in Fates : Untrack(f)) => UNCHANGED closeVars
    BY DEF Use, DropStep, DropOwned, Uncount, FreeSlot, Untrack
  <2> QED
    BY <2>1, CloseKept
<1> DEFINE Deltas(d, tr, ow, us, un, fr) ==
      /\ held' \in [Stages -> Nat]
      /\ Dropping' = Dropping + d
      /\ held'["tracked"] = held["tracked"] + tr
      /\ held'["owned"] = held["owned"] + ow
      /\ held'["used"] = held["used"] + us
      /\ held'["uncount"] = held["uncount"] + un
      /\ held'["free"] = held["free"] + fr
<1>2. CASE Use
  <2>k. CloseTypes'
    BY <1>k, <1>2 DEF DropStep
  <2>1. Deltas(0, 0, -1, 1, 0, 0)
    BY <1>0, <1>1, <1>2, TurnFacts DEF Use, Stages, Dropping
  <2> QED
    BY <1>1, <1>2, <2>1, <1>s, <2>k, TurnInv DEF Use
<1>3. CASE DropOwned
  <2>k. CloseTypes'
    BY <1>k, <1>3 DEF DropStep
  <2>u. UNCHANGED <<at, used_slots, extant_permits, outstanding_permits>>
    BY <1>3 DEF DropOwned
  <2>1. CASE Turn("owned", "uncount") /\ unused_claimants' = unused_claimants - 1
    <3>1. Deltas(0, 0, -1, 0, 1, 0)
      BY <1>0, <1>1, <2>1, TurnFacts DEF Stages, Dropping
    <3> QED
      BY <1>1, <2>1, <2>u, <3>1, <1>s, <2>k, TurnInv
  <2>2. CASE Turn("unclaim", "uncount") /\ unused_claimants' = unused_claimants - 1
    <3>1. Deltas(-1, 0, 0, 0, 1, 0)
      BY <1>0, <1>1, <2>2, TurnFacts DEF Stages, Dropping
    <3> QED
      BY <1>1, <2>2, <2>u, <3>1, <1>s, <2>k, TurnInv
  <2>3. CASE Turn("used", "uncount") /\ UNCHANGED unused_claimants
    <3>1. Deltas(0, 0, 0, -1, 1, 0)
      BY <1>0, <1>1, <2>3, TurnFacts DEF Stages, Dropping
    <3> QED
      BY <1>1, <2>3, <2>u, <3>1, <1>s, <2>k, TurnInv
  <2> QED
    BY <1>3, <2>1, <2>2, <2>3 DEF DropOwned
<1>4. CASE Uncount
  <2>k. CloseTypes'
    BY <1>k, <1>4 DEF DropStep
  <2>1. Deltas(0, 0, 0, 0, -1, 1)
    BY <1>0, <1>1, <1>4, TurnFacts DEF Uncount, Stages, Dropping
  <2> QED
    BY <1>1, <1>4, <2>1, <1>s, <2>k, TurnInv DEF Uncount
<1>5. CASE FreeSlot
  <2>k. CloseTypes'
    BY <1>k, <1>5 DEF DropStep
  <2>1. Deltas(0, 0, 0, 0, 0, -1)
    BY <1>0, <1>1, <1>5 DEF FreeSlot, Stages, Dropping, TypeOK
  <2> QED
    BY <1>1, <1>5, <2>1, <1>s, <2>k, TurnInv DEF FreeSlot
<1>6. ASSUME NEW f \in Fates, Untrack(f) PROVE Inv'
  <2>k. CloseTypes'
    BY <1>k, <1>6 DEF DropStep
  <2>1. Turn("tracked", "requested_keep") \/ Turn("tracked", "requested_drop")
    BY <1>6 DEF Untrack, Requested
  <2>2. Deltas(1, -1, 0, 0, 0, 0)
    BY <1>0, <1>1, <2>1, TurnFacts DEF Stages, Dropping
  <2> QED
    BY <1>1, <1>6, <2>2, <1>s, <2>k, TurnInv DEF Untrack
<1>7. ASSUME NEW f \in Fates, OnDropLoadsClose(f) PROVE Inv'
  <2>0. UNCHANGED <<at, used_slots, unused_claimants, extant_permits, outstanding_permits>>
    BY <1>7 DEF OnDropLoadsClose
  <2>a. CloseTypes'
    BY <1>0, <1>7, Zenon DEF OnDropLoadsClose, TypeOK, CloseTypes
  <2>1. \/ Turn("requested_keep", "zero_keep") \/ Turn("requested_drop", "zero_drop")
        \/ Turn("requested_drop", "unclaim") \/ Turn("requested_keep", "owned")
    BY <1>7 DEF OnDropLoadsClose, Requested, Zero, After, Fates
  <2>2. Dropping \in Nat /\ \A t \in Stages : held[t] \in Nat
    BY <1>0, SumTypes
  <2>3. ASSUME NEW o \in {0, 1}, Deltas(-o, 0, o, 0, 0, 0) PROVE Inv'
    <3>1. /\ held["tracked"] \in Nat /\ held["owned"] \in Nat /\ held["used"] \in Nat
          /\ held["uncount"] \in Nat /\ held["free"] \in Nat
      BY <2>2 DEF Stages
    <3>2. /\ held'["tracked"] = held["tracked"] /\ held'["used"] = held["used"]
          /\ held'["uncount"] = held["uncount"] /\ held'["free"] = held["free"]
          /\ Dropping' + held'["tracked"] + held'["owned"] = Dropping + held["tracked"] + held["owned"]
          /\ Dropping' \in Int /\ held'["owned"] \in Int
      BY <2>2, <2>3, <3>1
    <3> HIDE DEF Deltas
    <3>3. held' \in [Stages -> Nat]
      BY <2>3 DEF Deltas
    <3> QED
      BY <1>1, <2>0, <2>a, <2>2, <3>1, <3>2, <3>3, TurnInv
  <2>4. CASE Turn("requested_keep", "owned")
    <3>1. Deltas(-1, 0, 1, 0, 0, 0)
      BY <1>0, <1>1, <2>4, TurnFacts DEF Stages, Dropping
    <3> QED
      BY <2>3, <3>1
  <2>5. CASE Turn("requested_keep", "zero_keep")
    <3>1. Deltas(-0, 0, 0, 0, 0, 0)
      BY <1>0, <1>1, <2>5, TurnFacts DEF Stages, Dropping
    <3> QED
      BY <2>3, <3>1
  <2>6. CASE Turn("requested_drop", "zero_drop")
    <3>1. Deltas(-0, 0, 0, 0, 0, 0)
      BY <1>0, <1>1, <2>6, TurnFacts DEF Stages, Dropping
    <3> QED
      BY <2>3, <3>1
  <2>7. CASE Turn("requested_drop", "unclaim")
    <3>1. Deltas(-0, 0, 0, 0, 0, 0)
      <4>1. /\ held' \in [Stages -> Nat]
            /\ held'["requested_drop"] = held["requested_drop"] - 1
            /\ held'["unclaim"] = held["unclaim"] + 1
            /\ \A r \in Stages \ {"requested_drop", "unclaim"} : held'[r] = held[r]
        BY <1>0, <2>7, TurnFacts DEF Stages
      <4>2. Dropping' = Dropping
        BY <1>1, <4>1 DEF Stages, Dropping
      <4> QED
        BY <1>1, <2>2, <4>1, <4>2 DEF Stages
    <3> QED
      BY <2>3, <3>1
  <2> QED
    BY <2>1, <2>4, <2>5, <2>6, <2>7
<1> QED
  BY <1>2, <1>3, <1>4, <1>5, <1>6, <1>7 DEF DropStep

\* The steps that only concern close(): the flag, its visibility, the token.
LEMMA CloseInv ==
  ASSUME Inv, CloseStore \/ CloseVisible \/ CloseLoadsCount
  PROVE  Inv'
<1>0. TypeOK /\ TasksInv /\ LimitInv /\ SlotsInv /\ ExtantInv /\ ClaimInv /\ OutstandingInv
  BY DEF Inv
<1>1. UNCHANGED <<at, held, used_slots, unused_claimants, extant_permits, outstanding_permits>>
  BY DEF CloseStore, CloseVisible, CloseLoadsCount
<1>2. /\ close_stored' \in BOOLEAN /\ close_requested' \in BOOLEAN /\ close_complete' \in BOOLEAN
      /\ closer' \in {"open", "check", "done"} /\ missed' \in BOOLEAN
  <2>1. close_stored' \in BOOLEAN
    BY <1>0, Zenon DEF CloseStore, CloseVisible, CloseLoadsCount, TypeOK
  <2>2. close_requested' \in BOOLEAN
    BY <1>0, DealerAssumption, Zenon DEF CloseStore, CloseVisible, CloseLoadsCount, TypeOK
  <2>3. close_complete' \in BOOLEAN
    BY <1>0, Zenon DEF CloseStore, CloseVisible, CloseLoadsCount, TypeOK
  <2>4. closer' \in {"open", "check", "done"}
    BY <1>0, Zenon DEF CloseStore, CloseVisible, CloseLoadsCount, TypeOK
  <2>5. missed' \in BOOLEAN
    BY <1>0, Zenon DEF CloseStore, CloseVisible, CloseLoadsCount, TypeOK
  <2> QED
    BY <2>1, <2>2, <2>3, <2>4, <2>5
<1>3. TypeOK'
  BY <1>0, <1>1, <1>2 DEF TypeOK
<1>4. SlotsInv' /\ ExtantInv' /\ ClaimInv' /\ OutstandingInv' /\ TasksInv' /\ LimitInv'
  BY <1>0, <1>1 DEF SlotsInv, ExtantInv, ClaimInv, OutstandingInv, TasksInv, LimitInv, Sum, Dropping, AllTasks
<1> QED
  BY <1>3, <1>4 DEF Inv

\* The last step of on_drop: a permit is passed on and the token may be
\* cancelled.
LEMMA OnDropInv ==
  ASSUME Inv, NEW f \in Fates, OnDropLoadsCount(f)
  PROVE  Inv'
<1>0. TypeOK /\ TasksInv /\ LimitInv /\ SlotsInv /\ ExtantInv /\ ClaimInv /\ OutstandingInv
  BY DEF Inv
<1>1. UNCHANGED <<at, used_slots, unused_claimants, extant_permits, outstanding_permits,
                  close_stored, close_requested, closer, missed>>
  BY DEF OnDropLoadsCount
<1>2. close_complete' \in BOOLEAN
  BY <1>0, Zenon DEF OnDropLoadsCount, TypeOK
<1>3. Turn("zero_keep", "owned") \/ Turn("zero_drop", "unclaim")
  BY DEF OnDropLoadsCount, Zero, After, Fates
<1>4. \A t \in Stages : held[t] \in Nat
  BY <1>0 DEF TypeOK
<1>5. /\ held' \in [Stages -> Nat]
      /\ Dropping' + held'["owned"] = Dropping + held["owned"]
      /\ Dropping' \in Int /\ held'["owned"] \in Int
      /\ held'["tracked"] = held["tracked"] /\ held'["used"] = held["used"]
      /\ held'["uncount"] = held["uncount"] /\ held'["free"] = held["free"]
  <2>1. CASE Turn("zero_keep", "owned")
    BY <1>0, <1>4, <2>1, TurnFacts DEF Stages, Dropping
  <2>2. CASE Turn("zero_drop", "unclaim")
    BY <1>0, <1>4, <2>2, TurnFacts DEF Stages, Dropping
  <2> QED
    BY <1>3, <2>1, <2>2
<1>6. TypeOK'
  BY <1>0, <1>1, <1>2, <1>5 DEF TypeOK
<1>7. /\ Sum("claim") \in Nat /\ Sum("count") \in Nat /\ Dropping \in Nat
      /\ held["tracked"] \in Nat /\ held["owned"] \in Nat /\ held["used"] \in Nat
      /\ held["uncount"] \in Nat /\ held["free"] \in Nat
  BY <1>0, SumTypes DEF Points, Stages
<1>8. Sum("claim")' = Sum("claim") /\ Sum("count")' = Sum("count")
  BY <1>1 DEF Sum
<1>9. SlotsInv'
  BY <1>0, <1>1, <1>5, <1>7, <1>8 DEF SlotsInv
<1>10. ExtantInv'
  BY <1>0, <1>1, <1>5, <1>7 DEF ExtantInv
<1>11. ClaimInv'
  BY <1>0, <1>1, <1>5, <1>7, <1>8 DEF ClaimInv
<1>12. OutstandingInv' /\ TasksInv' /\ LimitInv'
  BY <1>0, <1>1, <1>5 DEF OutstandingInv, TasksInv, LimitInv, Sum, AllTasks
<1> QED
  BY <1>6, <1>9, <1>10, <1>11, <1>12 DEF Inv

\* The counters are tied to what they count in every reachable state.
LEMMA SpecInv == Spec => []Inv
<1>1. Inv /\ [Next]_vars => Inv'
  <2> SUFFICES ASSUME Inv, [Next]_vars PROVE Inv'
    OBVIOUS
  <2>1. CASE UNCHANGED vars
    BY <2>1 DEF vars, closeVars, Inv, TypeOK, SlotsInv, ExtantInv, ClaimInv, OutstandingInv, TasksInv,
                LimitInv, Sum, Dropping, AllTasks
  <2>2. CASE Next
    BY <2>2, AcquireInv, PermitInv, CloseInv, OnDropInv DEF Next, OnDropStep
  <2> QED
    BY <2>1, <2>2
<1> QED
  BY <1>1, InitInv, PTL DEF Spec

\* TypeOK holds for any numbers of tasks and slots: no counter ever wraps.
THEOREM DealerTypeCorrect == Spec => []TypeOK
<1>1. Inv => TypeOK
  BY DEF Inv
<1> QED
  BY <1>1, SpecInv, PTL

\* When no dealer operation is in progress the four counters say exactly which
\* permits are out: no sequence of acquisitions, refusals, cancellations, uses
\* and drops leaks a slot.
THEOREM CountersAlwaysAgree == Spec => []CountersAgree
<1>1. Inv => CountersAgree
  <2> SUFFICES ASSUME Inv, Quiet PROVE
        /\ used_slots = held["tracked"] + held["owned"] + held["used"]
        /\ extant_permits = used_slots
        /\ unused_claimants = held["tracked"] + held["owned"]
        /\ outstanding_permits = held["tracked"]
    BY DEF CountersAgree
  <2>0. TypeOK /\ TasksInv /\ SlotsInv /\ ExtantInv /\ ClaimInv /\ OutstandingInv
    BY DEF Inv
  <2>1. \A v \in Via : \A p \in Points : at[v][p] \in Nat
    BY <2>0 DEF TypeOK
  <2>2. ASSUME NEW v \in Via
        PROVE  /\ at[v]["check"] = 0 /\ at[v]["reserve"] = 0 /\ at[v]["claim"] = 0
               /\ at[v]["count"] = 0 /\ at[v]["sub"] = 0
    <3> DEFINE f == at[v]
    <3>1. f \in [Points -> Nat]
      BY <2>0 DEF TypeOK
    <3>2. f["idle"] = Total(f)
      BY <2>0 DEF TasksInv, Quiet, Total
    <3> HIDE DEF f
    <3>3. /\ f["check"] = 0 /\ f["reserve"] = 0 /\ f["claim"] = 0
          /\ f["count"] = 0 /\ f["sub"] = 0
      <4>1. PICK a \in Nat, b \in Nat, c \in Nat, d \in Nat :
              f["idle"] = a /\ f["load"] = b /\ f["add"] = c /\ f["check"] = d
        BY <3>1 DEF Points
      <4>2. PICK e \in Nat, g \in Nat, h \in Nat, k \in Nat :
              f["reserve"] = e /\ f["claim"] = g /\ f["count"] = h /\ f["sub"] = k
        BY <3>1 DEF Points
      <4>3. a = a + b + c + d + e + g + h + k
        BY <3>2, <4>1, <4>2, Zenon DEF Total
      <4>4. d = 0 /\ e = 0 /\ g = 0 /\ h = 0 /\ k = 0
        BY <4>3
      <4> QED
        BY <4>1, <4>2, <4>4
    <3> QED
      BY <3>3 DEF f
  <2>3. Sum("claim") = 0 /\ Sum("count") = 0 /\ TriesOut = 0
    BY <2>2 DEF Sum, TriesOut, Via
  <2>4. Dropping = 0 /\ held["uncount"] = 0 /\ held["free"] = 0
    BY DEF Quiet, Stages, Dropping
  <2>5. held["tracked"] \in Nat /\ held["owned"] \in Nat /\ held["used"] \in Nat
    BY <2>0 DEF TypeOK, Stages
  <2> QED
    BY <2>0, <2>3, <2>4, <2>5 DEF SlotsInv, ExtantInv, ClaimInv, OutstandingInv, TriesOut
<1> QED
  BY <1>1, SpecInv, PTL

\* The number of issued slots never exceeds the supplier's size.
THEOREM IssuedWithinSupply == Spec => []WithinSupply
<1>1. Inv => WithinSupply
  <2> SUFFICES ASSUME Inv PROVE extant_permits <= Slots
    BY DEF WithinSupply
  <2>0. TypeOK /\ SlotsInv /\ ExtantInv
    BY DEF Inv
  <2>1. /\ Sum("claim") \in Nat /\ Sum("count") \in Nat /\ Dropping \in Nat
        /\ held["tracked"] \in Nat /\ held["owned"] \in Nat /\ held["used"] \in Nat
        /\ held["uncount"] \in Nat /\ held["free"] \in Nat
    BY <2>0, SumTypes DEF Points, Stages
  <2> QED
    BY <2>0, <2>1, DealerAssumption DEF SlotsInv, ExtantInv, TypeOK
<1> QED
  BY <1>1, SpecInv, PTL

\* max_permits is exceeded by at most the number of concurrent tasks less one.
THEOREM OvershootIsBounded == Spec => []OvershootBounded
<1>1. Inv => OvershootBounded
  <2> SUFFICES ASSUME Inv, MaxPermits > 0 PROVE extant_permits < MaxPermits + AllTasks
    BY DEF OvershootBounded
  <2>0. TypeOK /\ LimitInv
    BY DEF Inv
  <2>1. /\ Sum("reserve") \in Nat /\ Sum("claim") \in Nat /\ Sum("count") \in Nat
        /\ AllTasks \in Nat /\ extant_permits \in Nat
    BY <2>0, SumTypes DEF Points, TypeOK
  <2> QED
    BY <2>0, <2>1, DealerAssumption DEF LimitInv
<1> QED
  BY <1>1, SpecInv, PTL

\* When the token is cancelled, no tracked permit is out.
THEOREM CompletionIsSound == Spec => CompletesWhenReturned
<1>1. ASSUME Inv, [Next]_vars, ~close_complete, close_complete'
      PROVE  held["tracked"] = 0
  <2>1. outstanding_permits = 0
    <3>1. CASE UNCHANGED close_complete
      BY <1>1, <3>1, Zenon
    <3>2. CASE CloseLoadsCount \/ \E f \in Fates : OnDropLoadsCount(f)
      BY <1>1, <3>2, Zenon DEF CloseLoadsCount, OnDropLoadsCount
    <3> QED
      BY <1>1, <3>1, <3>2, Zenon
      DEF Next, AcquireStep, ClosableStep, DropStep, OnDropStep, vars, closeVars, Begin, CheckMax, Reserve,
          TryFails, Claim, Count, LoadCloseRequested, AddOutstanding, SubOutstanding, CancelAcquire, Use,
          DropOwned, Uncount, FreeSlot, Untrack, OnDropLoadsClose, CloseStore, CloseVisible
  <2>2. OutstandingInv /\ TypeOK
    BY <1>1 DEF Inv
  <2>3. TriesOut \in Nat /\ held["tracked"] \in Nat
    BY <2>2, SumTypes DEF Stages
  <2> QED
    BY <2>1, <2>2, <2>3 DEF OutstandingInv, TriesOut
<1>2. Inv /\ [Next]_vars => (~close_complete /\ close_complete' => held["tracked"] = 0)
  BY <1>1
<1>3. Inv /\ [Next]_vars => [~close_complete /\ close_complete' => held["tracked"] = 0]_vars
  BY <1>2
<1> QED
  BY <1>3, SpecInv, PTL DEF Spec, CompletesWhenReturned

Held(f) == held[Requested(f)] > 0 \/ held[Zero(f)] > 0

\* A step of the acquiring side hides nobody who looks: it leaves close() and
\* the permits in on_drop alone and lowers no count, but for the failed try.
LEMMA LookKept ==
  ASSUME Inv, CompletionInHand, UNCHANGED <<close_complete, closer, missed>>,
         outstanding_permits' \in Nat, outstanding_permits' >= outstanding_permits,
         \A f \in Fates : held'[Requested(f)] >= held[Requested(f)] /\ held'[Zero(f)] >= held[Zero(f)],
         held' \in [Stages -> Nat]
  PROVE  CompletionInHand'
<1>1. outstanding_permits \in Nat
  BY DEF Inv, TypeOK
<1>2. \A f \in Fates : /\ held[Requested(f)] \in Nat /\ held[Zero(f)] \in Nat
                       /\ held'[Requested(f)] \in Nat /\ held'[Zero(f)] \in Nat
  BY DEF Inv, TypeOK, Requested, Zero, Stages
<1>3. Looking => Looking'
  <2>1. outstanding_permits > 0 => outstanding_permits' > 0
    BY <1>1
  <2>2. \A f \in Fates : Held(f) => Held(f)'
    BY <1>2 DEF Held, Requested, Zero
  <2> QED
    BY <2>1, <2>2 DEF Looking, Held
<1> QED
  BY <1>3 DEF CompletionInHand

\* Once closed, the dealer has completed or somebody will still look at the
\* counter, but for the two ways of the code to miss it.
THEOREM CompletionStaysInHand == Spec => []CompletionInHand
<1>1. Init => CompletionInHand
  BY DEF Init, CompletionInHand, Looking
<1>2. ASSUME Inv, Inv', CompletionInHand, [Next]_vars PROVE CompletionInHand'
  <2>0. /\ outstanding_permits \in Nat /\ outstanding_permits' \in Nat
        /\ held \in [Stages -> Nat] /\ held' \in [Stages -> Nat]
        /\ closer \in {"open", "check", "done"}
    BY <1>2 DEF Inv, TypeOK
  <2>a. \A f \in Fates : Requested(f) \in Stages /\ Zero(f) \in Stages
    BY DEF Requested, Zero, Stages
  <2>k. ASSUME UNCHANGED <<close_complete, closer, missed>>,
               outstanding_permits' >= outstanding_permits,
               \A f \in Fates : held'[Requested(f)] >= held[Requested(f)] /\ held'[Zero(f)] >= held[Zero(f)]
        PROVE  CompletionInHand'
    BY <1>2, <2>0, <2>k, LookKept
  <2>m. ASSUME UNCHANGED <<closeVars, held>>, outstanding_permits' >= outstanding_permits
        PROVE  CompletionInHand'
    <3>1. \A f \in Fates : held'[Requested(f)] >= held[Requested(f)] /\ held'[Zero(f)] >= held[Zero(f)]
      BY <2>0, <2>a, <2>m
    <3> QED
      BY <2>k, <2>m, <3>1 DEF closeVars
  <2>t. ASSUME NEW s \in {"owned", "unclaim", "used", "uncount"}, NEW t \in Stages, s # t, Turn(s, t),
               UNCHANGED <<closeVars, outstanding_permits>>
        PROVE  CompletionInHand'
    <3>1. \A f \in Fates : held'[Requested(f)] >= held[Requested(f)] /\ held'[Zero(f)] >= held[Zero(f)]
      BY <1>2, <2>0, <2>a, <2>t, TurnFacts DEF Inv, Requested, Zero, Stages
    <3> QED
      BY <2>0, <2>k, <2>t, <3>1 DEF closeVars
  <2>1. ASSUME NEW v \in Via, Begin(v) \/ CheckMax(v) \/ Reserve(v) \/ TryFails(v) \/ Claim(v)
        PROVE  CompletionInHand'
    <3>1. UNCHANGED <<closeVars, held, outstanding_permits>>
      BY <2>1 DEF Begin, CheckMax, Reserve, TryFails, Claim
    <3> QED
      BY <2>0, <2>m, <3>1
  <2>2. ASSUME NEW v \in Via, Count(v) PROVE CompletionInHand'
    <3>1. \A f \in Fates : held'[Requested(f)] >= held[Requested(f)] /\ held'[Zero(f)] >= held[Zero(f)]
      BY <2>0, <2>a, <2>2 DEF Count, Requested, Zero, Stages
    <3>2. UNCHANGED <<closeVars, outstanding_permits>>
      BY <2>2 DEF Count
    <3> QED
      BY <2>0, <2>k, <3>1, <3>2 DEF closeVars
  <2>3. CASE LoadCloseRequested \/ AddOutstanding \/ CancelAcquire
    <3>1. UNCHANGED <<closeVars, held>> /\ outstanding_permits' >= outstanding_permits
      BY <2>0, <2>3 DEF LoadCloseRequested, AddOutstanding, CancelAcquire
    <3> QED
      BY <2>m, <3>1
  <2>4. CASE SubOutstanding
    <3>1. /\ outstanding_permits' = outstanding_permits - 1 /\ UNCHANGED <<held, closer, close_complete>>
          /\ missed' = (missed \/ (closer = "done" /\ outstanding_permits = 1))
      BY <2>4 DEF SubOutstanding
    <3>2. CASE outstanding_permits = 1 /\ closer = "done"
      BY <3>1, <3>2, Zenon DEF CompletionInHand
    <3>3. CASE closer # "done"
      <4>1. closer' \in {"open", "check"}
        BY <2>0, <3>1, <3>3, Zenon
      <4> QED
        BY <4>1, Zenon DEF CompletionInHand, Looking
    <3>4. CASE outstanding_permits # 1 /\ closer = "done"
      <4>1. outstanding_permits' > 0
        BY <2>0, <3>1, <3>4
      <4> QED
        BY <4>1, Zenon DEF CompletionInHand, Looking
    <3> QED
      BY <3>2, <3>3, <3>4
  <2>5. CASE Use \/ DropOwned \/ Uncount
    BY <2>t, <2>5 DEF Use, DropOwned, Uncount, Stages
  <2>6. CASE FreeSlot
    <3>1. \A f \in Fates : held'[Requested(f)] >= held[Requested(f)] /\ held'[Zero(f)] >= held[Zero(f)]
      BY <2>0, <2>a, <2>6 DEF FreeSlot, Requested, Zero, Stages
    <3>2. UNCHANGED <<closeVars, outstanding_permits>>
      BY <2>6 DEF FreeSlot
    <3> QED
      BY <2>0, <2>k, <3>1, <3>2 DEF closeVars
  <2>7. ASSUME NEW f \in Fates, Untrack(f) PROVE CompletionInHand'
    <3>1. held'[Requested(f)] = held[Requested(f)] + 1
      BY <1>2, <2>0, <2>a, <2>7, TurnFacts DEF Untrack, Inv, Requested, Stages
    <3>2. held'[Requested(f)] > 0
      BY <2>0, <2>a, <3>1
    <3>3. \E g \in Fates : Held(g)'
      BY <3>2 DEF Held, Requested
    <3> QED
      BY <3>3 DEF CompletionInHand, Looking, Held
  <2>8. ASSUME NEW f \in Fates, OnDropLoadsClose(f) PROVE CompletionInHand'
    <3>1. /\ Turn(Requested(f), IF close_requested THEN Zero(f) ELSE After(f))
          /\ UNCHANGED <<closer, close_complete, outstanding_permits>>
          /\ missed' = (missed \/ (closer = "done" /\ ~close_requested))
      BY <2>8 DEF OnDropLoadsClose
    <3>2. CASE close_requested
      <4>0. Turn(Requested(f), Zero(f)) /\ Requested(f) # Zero(f)
        BY <3>1, <3>2 DEF Requested, Zero
      <4>1. held'[Zero(f)] = held[Zero(f)] + 1
        BY <1>2, <2>a, <4>0, TurnFacts DEF Inv
      <4>2. held'[Zero(f)] > 0
        BY <2>0, <2>a, <4>1
      <4>3. \E g \in Fates : Held(g)'
        BY <4>2 DEF Held, Zero
      <4> QED
        BY <4>3 DEF CompletionInHand, Looking, Held
    <3>3. CASE ~close_requested /\ closer = "done"
      BY <3>1, <3>3, Zenon DEF CompletionInHand
    <3>4. CASE closer # "done"
      <4>1. closer' \in {"open", "check"}
        BY <2>0, <3>1, <3>4, Zenon
      <4> QED
        BY <4>1, Zenon DEF CompletionInHand, Looking
    <3> QED
      BY <3>2, <3>3, <3>4
  <2>9. ASSUME NEW f \in Fates, OnDropLoadsCount(f) PROVE CompletionInHand'
    <3>1. close_complete' = (close_complete \/ outstanding_permits = 0) /\ UNCHANGED outstanding_permits
      BY <2>9 DEF OnDropLoadsCount
    <3>2. CASE outstanding_permits = 0
      BY <3>1, <3>2, Zenon DEF CompletionInHand
    <3>3. CASE outstanding_permits # 0
      <4>1. outstanding_permits' > 0
        BY <2>0, <3>1, <3>3
      <4> QED
        BY <4>1, Zenon DEF CompletionInHand, Looking
    <3> QED
      BY <3>2, <3>3
  <2>10. CASE CloseStore
    BY <2>10, Zenon DEF CloseStore, CompletionInHand, Looking
  <2>11. CASE CloseVisible \/ UNCHANGED vars
    <3>1. UNCHANGED <<held, outstanding_permits, closer, close_complete, missed>>
      BY <2>11, Zenon DEF CloseVisible, vars, closeVars
    <3>2. \A f \in Fates : held'[Requested(f)] >= held[Requested(f)] /\ held'[Zero(f)] >= held[Zero(f)]
      BY <2>0, <2>a, <3>1
    <3> QED
      BY <2>0, <2>k, <3>1, <3>2
  <2>12. CASE CloseLoadsCount
    <3>1. close_complete' = (close_complete \/ outstanding_permits = 0) /\ UNCHANGED outstanding_permits
      BY <2>12 DEF CloseLoadsCount
    <3>2. CASE outstanding_permits = 0
      BY <3>1, <3>2, Zenon DEF CompletionInHand
    <3>3. CASE outstanding_permits # 0
      <4>1. outstanding_permits' > 0
        BY <2>0, <3>1, <3>3
      <4> QED
        BY <4>1, Zenon DEF CompletionInHand, Looking
    <3> QED
      BY <3>2, <3>3
  <2> QED
    BY <1>2, <2>1, <2>2, <2>3, <2>4, <2>5, <2>6, <2>7, <2>8, <2>9, <2>10, <2>11, <2>12, Zenon
    DEF Next, AcquireStep, ClosableStep, DropStep, OnDropStep
<1>3. Inv /\ Inv' /\ CompletionInHand /\ [Next]_vars => CompletionInHand'
  BY <1>2
<1> QED
  BY <1>1, <1>3, SpecInv, PTL DEF Spec

\* The counters of the dealer are right, for any number of tasks and slots.
THEOREM DealerIsSafe == Spec => []DealerSafe
<1>1. TypeOK /\ CountersAgree /\ WithinSupply /\ OvershootBounded => DealerSafe
  BY DEF DealerSafe
<1> QED BY <1>1, DealerTypeCorrect, CountersAlwaysAgree, IssuedWithinSupply, OvershootIsBounded, PTL
=============================================================================
