-------------------------- MODULE NexusTasksProofs --------------------------
(***************************************************************************)
(* Proof that the pollers and the Nexus manager keep PollingSafe, for any  *)
(* number of slots, any bounds of the scaler, any set of task tokens and   *)
(* every configuration of the queues.                                      *)
(*                                                                         *)
(* Slots are conserved because what one buffer holds changes by as much as *)
(* the free slots do.  That a queue never takes every slot is decided      *)
(* several steps before the poll is opened: the loop that waits for a slot *)
(* or for the scaler remembers what wait_if_needed has seen (Guarded).     *)
(* That no task is lost rests on a loop that ends with no poll of its own  *)
(* left; that cancels reach lang on no task coming after the stream's end. *)
(***************************************************************************)
EXTENDS NexusTasks, SequenceTheorems, FiniteSetTheorems, TLAPS

----------------------------------------------------------------------------
(* How many members of a kind are in a queue.  The lemmas say what each    *)
(* change does to the count: conservation is then arithmetic.              *)

\* The positions of q that hold a member of S, and how many there are.
Where(q, S) == {i \in DOMAIN q : q[i] \in S}
Count(q, S) == Cardinality(Where(q, S))

\* The positions are finitely many: their number is a natural number.
LEMMA CountType ==
  ASSUME NEW T, NEW S, NEW q \in Seq(T)
  PROVE  IsFiniteSet(Where(q, S)) /\ Count(q, S) \in Nat
<1>1. IsFiniteSet(1..Len(q))
  BY FS_Interval
<1>2. Where(q, S) \in SUBSET (1..Len(q))
  BY DEF Where
<1>3. IsFiniteSet(Where(q, S))
  BY <1>1, <1>2, FS_Subset, Zenon
<1> QED
  BY <1>3, FS_CardinalityType DEF Count

\* An empty queue holds nothing.
LEMMA CountEmpty ==
  ASSUME NEW S
  PROVE  Where(<<>>, S) = {} /\ Count(<<>>, S) = 0
<1>1. Where(<<>>, S) = {}
  BY DEF Where
<1> QED
  BY <1>1, FS_EmptySet DEF Count

\* A message at the tail adds one when it is of the kind.
LEMMA CountAppend ==
  ASSUME NEW T, NEW S, NEW q \in Seq(T), NEW e \in T
  PROVE  Count(Append(q, e), S) = Count(q, S) + (IF e \in S THEN 1 ELSE 0)
<1> DEFINE n == Len(q) + 1
<1>1. IsFiniteSet(Where(q, S)) /\ Count(q, S) \in Nat
  BY CountType
<1>2. n \notin Where(q, S)
  BY DEF Where
<1>3. Where(Append(q, e), S) = Where(q, S) \cup (IF e \in S THEN {n} ELSE {})
  BY AppendProperties DEF Where
<1>4. CASE e \in S
  <2>1. Where(Append(q, e), S) = Where(q, S) \cup {n}
    BY <1>3, <1>4
  <2>2. Cardinality(Where(q, S) \cup {n}) = Cardinality(Where(q, S)) + 1
    BY <1>1, <1>2, FS_AddElement, Zenon
  <2> QED
    BY <1>4, <2>1, <2>2 DEF Count
<1>5. CASE e \notin S
  <2>1. Where(Append(q, e), S) = Where(q, S)
    BY <1>3, <1>5
  <2> QED
    BY <1>1, <1>5, <2>1 DEF Count
<1> QED
  BY <1>4, <1>5

\* The message taken from the head takes one off when it is of the kind.
LEMMA CountTail ==
  ASSUME NEW T, NEW S, NEW q \in Seq(T), q # <<>>
  PROVE  Count(q, S) = Count(Tail(q), S) + (IF Head(q) \in S THEN 1 ELSE 0)
<1> DEFINE A == Where(Tail(q), S)
           B == Where(q, S) \ {1}
           f == [i \in A |-> i + 1]
<1>1. Tail(q) \in Seq(T) /\ Len(Tail(q)) = Len(q) - 1
      /\ \A i \in 1..Len(Tail(q)) : Tail(q)[i] = q[i + 1]
  BY HeadTailProperties
<1>2. Head(q) = q[1] /\ Len(q) \in Nat /\ Len(q) > 0 /\ DOMAIN q = 1..Len(q)
  BY HeadTailProperties, EmptySeq, LenProperties
<1>3. A \subseteq 1..(Len(q) - 1) /\ DOMAIN Tail(q) = 1..(Len(q) - 1)
  BY <1>1 DEF Where
<1>4. f \in [A -> B]
  <2>1. ASSUME NEW i \in A PROVE i + 1 \in B
    BY <1>1, <1>2, <1>3 DEF Where
  <2> QED
    BY <2>1
<1>5. \A i, j \in A : f[i] = f[j] => i = j
  BY <1>3
<1>6. ASSUME NEW j \in B PROVE \E i \in A : f[i] = j
  <2>1. j \in 2..Len(q) /\ q[j] \in S
    BY <1>2 DEF Where
  <2>2. j - 1 \in 1..(Len(q) - 1) /\ Tail(q)[j - 1] = q[j]
    BY <1>1, <1>2, <2>1
  <2>3. j - 1 \in A
    BY <1>3, <2>1, <2>2 DEF Where
  <2> QED
    BY <1>2, <2>1, <2>3
<1>7. f \in Bijection(A, B)
  <2> HIDE DEF A, B, f
  <2> QED
    BY <1>4, <1>5, <1>6, Zenon DEF Bijection, Injection, Surjection, IsInjective
<1>8. IsFiniteSet(A) /\ Cardinality(A) \in Nat
  BY <1>1, CountType DEF Count
<1>9. Cardinality(B) = Cardinality(A)
  BY <1>7, <1>8, FS_Bijection, Zenon DEF ExistsBijection
<1>10. IsFiniteSet(Where(q, S)) /\ Cardinality(Where(q, S)) \in Nat
  BY CountType DEF Count
<1>11. Cardinality(B) = IF 1 \in Where(q, S) THEN Cardinality(Where(q, S)) - 1
                                             ELSE Cardinality(Where(q, S))
  BY <1>10, FS_RemoveElement
<1>12. 1 \in Where(q, S) <=> Head(q) \in S
  BY <1>2 DEF Where
<1> QED
  BY <1>8, <1>9, <1>10, <1>11, <1>12 DEF Count

----------------------------------------------------------------------------
Loops == {"idle", "top", "delay", "acquire", "reserve", "allow", "drain", "ended"}
Items == {"task", "empty", "invalid", "error"}

\* A buffer with its loop and its scaler.
Buf == [loop : Loops, woken : BOOLEAN, polling : Nat, returned : Nat, queue : Seq(Items),
        target : Nat, saw : BOOLEAN, up : BOOLEAN]

Past == [lost : Nat, backlogged : BOOLEAN, missed : BOOLEAN]

\* Slots that a buffer holds, and all buffers together.
InRec(r) == (IF r.loop = "allow" THEN 1 ELSE 0) + r.polling + r.returned + Held(r.queue)
Total == InAll([b \in Buffers |-> InBuffer(b)])

\* Queues that must leave a slot to the other one.
Guarded(b) ==
    /\ Shared /\ setup.slots > 1
    /\ b = "normal" \/ (b = "sticky" /\ ~past.backlogged)

BufInv(b, r) ==
    /\ r.target \in setup.min .. setup.max /\ r.polling <= setup.max
    /\ r.loop \in {"idle", "ended"} => r.polling = 0 /\ r.returned = 0
    /\ stream = "over" => r.loop = "ended"
    /\ Guarded(b) => /\ r.polling < setup.slots
                     /\ r.loop \in {"acquire", "reserve", "allow"} => r.polling + 1 < setup.slots

PollersType ==
    /\ setup \in Setups /\ buf \in [Buffers -> Buf]
    /\ free \in Nat /\ out \in Nat /\ backlog \in Nat /\ shutdown \in BOOLEAN
    /\ stream \in {"idle", "open", "closing", "over"} /\ past \in Past

\* Where a buffer has come to its end, nothing comes into it any more.
Drained(r) == r.loop = "ended" /\ r.queue = <<>>

StreamInv ==
    /\ stream = "over" => shutdown
    /\ stream = "closing" => \E b \in Buffers : Drained(buf[b])
    /\ backlog > 1 => past.backlogged
    /\ past.lost > 0 => Shared /\ shutdown

BufsInv == \A b \in Buffers : BufInv(b, buf[b])

PollersInv == PollersType /\ BufsInv /\ StreamInv

ManagerInv ==
    /\ map \subseteq Tokens /\ IsFiniteSet(map) /\ IsFiniteSet(sending) /\ map \cap sending = {}
    /\ cancels \in Seq(Tokens)
    /\ grace # "off" => stream = "over"
    /\ grace = "fired" => map \subseteq told \cup ToSet(cancels)
    /\ ending = "over" => map = {}
    /\ ended => ending = "over"

Taken == out + Cardinality(map \cup sending)
Slots == free + Taken + Total = setup.slots

Inv == PollersInv /\ ManagerInv /\ Slots

-----------------------------------------------------------------------------
(* Operators. *)

\* The worker's buffers, and when there are two of them.
LEMMA BuffersAre ==
  ASSUME setup \in Setups
  PROVE  /\ setup.slots \in Nat \ {0} /\ setup.min \in Nat /\ setup.max \in Nat
         /\ setup.initial \in setup.min .. setup.max /\ 1 <= setup.min
         /\ Buffers \in {{"normal"}, {"normal", "sticky"}, {"nexus"}}
         /\ Shared <=> Buffers = {"normal", "sticky"}
         /\ setup.kind = "nexus" => Buffers = {"nexus"}
<1>1. Buffers \in {{"normal"}, {"normal", "sticky"}, {"nexus"}}
      /\ (setup.kind = "nexus" => Buffers = {"nexus"})
  BY SetupsAssumption DEF Buffers
<1>2. Cardinality({"normal"}) = 1 /\ Cardinality({"nexus"}) = 1
  BY FS_Singleton
<1>3. Cardinality({"normal", "sticky"}) = 2
  <2>1. {"normal", "sticky"} = {"normal"} \cup {"sticky"} /\ "sticky" \notin {"normal"}
    OBVIOUS
  <2>2. IsFiniteSet({"normal"})
    BY FS_Singleton
  <2> QED
    BY <1>2, <2>1, <2>2, FS_AddElement
<1>4. Shared <=> Buffers = {"normal", "sticky"}
  BY <1>1, <1>2, <1>3 DEF Shared
<1> QED
  BY <1>1, <1>4, SetupsAssumption

\* What a queue holds, in terms of Count.
LEMMA HeldIsCount ==
  ASSUME NEW q
  PROVE  /\ Held(q) = Count(q, {"task", "empty", "invalid"})
         /\ InQueue(q, {"task"}) = Count(q, {"task"})
BY DEF Held, InQueue, Count, Where

\* A queue holds finitely many slots.
LEMMA HeldType ==
  ASSUME NEW q \in Seq(Items)
  PROVE  Held(q) \in Nat /\ InQueue(q, {"task"}) \in Nat
<1>1. Count(q, {"task", "empty", "invalid"}) \in Nat /\ Count(q, {"task"}) \in Nat
  BY CountType
<1> QED
  BY <1>1, HeldIsCount

\* An empty queue holds no slot and no task.
LEMMA HeldEmpty == <<>> \in Seq(Items) /\ Held(<<>>) = 0 /\ InQueue(<<>>, {"task"}) = 0
<1>1. Count(<<>>, {"task", "empty", "invalid"}) = 0 /\ Count(<<>>, {"task"}) = 0
  BY CountEmpty
<1>2. Held(<<>>) = Count(<<>>, {"task", "empty", "invalid"})
      /\ InQueue(<<>>, {"task"}) = Count(<<>>, {"task"})
  BY HeldIsCount
<1> QED
  BY <1>1, <1>2

\* An answer put at the end of a queue brings its slot, unless it is an error.
LEMMA HeldAppend ==
  ASSUME NEW q \in Seq(Items), NEW e \in Items
  PROVE  Append(q, e) \in Seq(Items) /\ Held(Append(q, e)) = Held(q) + (IF e = "error" THEN 0 ELSE 1)
<1>1. Count(Append(q, e), {"task", "empty", "invalid"})
        = Count(q, {"task", "empty", "invalid"}) + (IF e \in {"task", "empty", "invalid"} THEN 1 ELSE 0)
  BY CountAppend
<1> QED
  BY <1>1, HeldIsCount DEF Items

\* What is taken from a queue takes its slot along.
LEMMA HeldTail ==
  ASSUME NEW q \in Seq(Items), q # <<>>
  PROVE  Tail(q) \in Seq(Items) /\ Held(q) = Held(Tail(q)) + (IF Head(q) = "error" THEN 0 ELSE 1)
<1>1. Count(q, {"task", "empty", "invalid"})
        = Count(Tail(q), {"task", "empty", "invalid"}) + (IF Head(q) \in {"task", "empty", "invalid"} THEN 1 ELSE 0)
  BY CountTail
<1>2. Head(q) \in Items /\ Tail(q) \in Seq(Items)
  BY HeadTailProperties
<1> QED
  BY <1>1, <1>2, HeldIsCount DEF Items

\* A buffer holds finitely many slots.
LEMMA InRecType ==
  ASSUME NEW r \in Buf
  PROVE  InRec(r) \in Nat /\ Held(r.queue) \in Nat /\ InQueue(r.queue, {"task"}) \in Nat
<1>1. r.queue \in Seq(Items) /\ r.polling \in Nat /\ r.returned \in Nat
  BY DEF Buf
<1>2. Held(r.queue) \in Nat /\ InQueue(r.queue, {"task"}) \in Nat
  BY <1>1, HeldType
<1> QED
  BY <1>1, <1>2 DEF InRec

\* change_target keeps the target within the configured bounds.
LEMMA ClampIn ==
  ASSUME setup \in Setups, NEW n \in Int
  PROVE  Clamp(n) \in setup.min .. setup.max
<1>1. setup.min \in Nat /\ setup.max \in Nat /\ setup.min <= setup.max
  BY BuffersAre
<1>2. PICK m \in {setup.min, n} : m = Max({setup.min, n}) /\ m >= setup.min
  <2>1. \E x \in {setup.min, n} : \A y \in {setup.min, n} : x >= y
    BY <1>1
  <2>2. PICK m \in {setup.min, n} : m = Max({setup.min, n}) /\ \A y \in {setup.min, n} : m >= y
    BY <2>1, Zenon DEF Max
  <2> QED
    BY <2>2
<1>3. PICK k \in {setup.max, m} : k = Min({setup.max, m}) /\ k <= setup.max
  <2>1. \E x \in {setup.max, m} : \A y \in {setup.max, m} : x =< y
    BY <1>1
  <2>2. PICK k \in {setup.max, m} : k = Min({setup.max, m}) /\ \A y \in {setup.max, m} : k =< y
    BY <2>1, Zenon DEF Min
  <2> QED
    BY <2>2
<1>4. Clamp(n) = k
  BY <1>2, <1>3 DEF Clamp
<1> QED
  BY <1>1, <1>2, <1>3, <1>4

\* SetToSeq lists every member of a finite set.
LEMMA SetToSeqLists ==
  ASSUME NEW S, IsFiniteSet(S)
  PROVE  SetToSeq(S) \in Seq(S) /\ ToSet(SetToSeq(S)) = S
<1> DEFINE n == Cardinality(S)
<1>1. n \in Nat /\ ExistsBijection(1 .. n, S)
  BY FS_CardinalityType
<1>2. \E f \in [1 .. n -> S] : IsInjective(f)
  BY <1>1 DEF ExistsBijection, Bijection, Injection
<1>3. SetToSeq(S) \in [1 .. n -> S] /\ IsInjective(SetToSeq(S))
  BY <1>2, Zenon DEF SetToSeq
<1>4. SetToSeq(S) \in Injection(1 .. n, S)
  BY <1>3, Zenon DEF Injection
<1>5. Cardinality(1 .. n) = n
  BY <1>1, FS_Interval
<1>6. SetToSeq(S) \in Surjection(1 .. n, S)
  BY <1>4, <1>5, FS_Injection, Zenon
<1>7. SetToSeq(S) \in Seq(S)
  BY <1>1, <1>3
<1>8. ToSet(SetToSeq(S)) = S
  BY <1>3, <1>6 DEF Surjection, ToSet
<1> QED
  BY <1>7, <1>8
-----------------------------------------------------------------------------
(* One buffer changes. *)

\* What one of the three possible buffers holds.
Part(b) == IF b \in Buffers THEN InRec(buf[b]) ELSE 0

\* All buffers together hold the sum of the parts.
LEMMA TotalIs == Total = Part("normal") + Part("sticky") + Part("nexus")
<1>1. \A b \in Buffers : InBuffer(b) = InRec(buf[b])
  BY DEF InBuffer, InRec
<1> QED
  BY <1>1 DEF Total, InAll, Part

\* The parts are numbers.
LEMMA PartType ==
  ASSUME PollersType, NEW b
  PROVE  Part(b) \in Nat
<1>1. CASE b \in Buffers
  <2>1. buf[b] \in Buf
    BY <1>1 DEF PollersType
  <2> QED
    BY <1>1, <2>1, InRecType DEF Part
<1>2. CASE b \notin Buffers
  BY <1>2 DEF Part
<1> QED
  BY <1>1, <1>2

\* When one buffer changes, the sum changes by as much.
LEMMA TotalChanges ==
  ASSUME PollersType, NEW b \in Buffers, NEW r \in Buf,
         setup' = setup, buf' = [buf EXCEPT ![b] = r]
  PROVE  /\ Buffers' = Buffers /\ Shared' = Shared
         /\ buf' \in [Buffers -> Buf] /\ buf'[b] = r
         /\ \A k \in Buffers : k # b => buf'[k] = buf[k]
         /\ Total' \in Nat /\ Total \in Nat /\ Total' + InRec(buf[b]) = Total + InRec(r)
<1>1. Buffers' = Buffers /\ Shared' = Shared
  BY DEF Buffers, Shared
<1>2. buf' \in [Buffers -> Buf] /\ buf'[b] = r /\ \A k \in Buffers : k # b => buf'[k] = buf[k]
  BY DEF PollersType
<1>3. Part(b)' = InRec(r) /\ Part(b) = InRec(buf[b])
  BY <1>1, <1>2 DEF Part
<1>4. \A k : k # b => Part(k)' = Part(k)
  BY <1>1, <1>2 DEF Part
<1>5. InRec(r) \in Nat /\ Part("normal") \in Nat /\ Part("sticky") \in Nat /\ Part("nexus") \in Nat
  BY PartType, InRecType
<1>6. b \in {"normal", "sticky", "nexus"}
  BY BuffersAre DEF PollersType
<1>7. (Total = Part("normal") + Part("sticky") + Part("nexus"))'
  BY TotalIs, PTL
<1> HIDE DEF Total, Part, InRec
<1>8. CASE b = "normal"
  <2>1. Part("normal")' = InRec(r) /\ Part("normal") = InRec(buf[b])
        /\ Part("sticky")' = Part("sticky") /\ Part("nexus")' = Part("nexus")
    BY <1>3, <1>4, <1>8
  <2> QED
    BY <1>1, <1>2, <1>5, <1>7, <2>1, TotalIs
<1>9. CASE b = "sticky"
  <2>1. Part("sticky")' = InRec(r) /\ Part("sticky") = InRec(buf[b])
        /\ Part("normal")' = Part("normal") /\ Part("nexus")' = Part("nexus")
    BY <1>3, <1>4, <1>9
  <2> QED
    BY <1>1, <1>2, <1>5, <1>7, <2>1, TotalIs
<1>10. CASE b = "nexus"
  <2>1. Part("nexus")' = InRec(r) /\ Part("nexus") = InRec(buf[b])
        /\ Part("sticky")' = Part("sticky") /\ Part("normal")' = Part("normal")
    BY <1>3, <1>4, <1>10
  <2> QED
    BY <1>1, <1>2, <1>5, <1>7, <2>1, TotalIs
<1> QED
  BY <1>6, <1>8, <1>9, <1>10

\* What a step on one buffer b, which becomes r, has to observe.
Keeps(b, r) ==
    /\ r \in Buf /\ buf' = [buf EXCEPT ![b] = r] /\ BufInv(b, r)'
    /\ setup' = setup /\ stream' = stream
    /\ shutdown' \in BOOLEAN /\ (shutdown => shutdown')
    /\ free' \in Nat /\ out' \in Nat /\ backlog' \in Nat
    /\ past' \in Past /\ past'.lost = past.lost
    /\ (past.backlogged => past'.backlogged) /\ (backlog' > 1 => past'.backlogged)
    /\ Drained(buf[b]) => Drained(r)

\* Such a step keeps the pollers' part of the invariant.
LEMMA KeepsPollers ==
  ASSUME PollersInv, NEW b \in Buffers, NEW r, Keeps(b, r)
  PROVE  /\ PollersInv' /\ Total' \in Nat /\ Total \in Nat
         /\ Total' + InRec(buf[b]) = Total + InRec(r)
<1>1. /\ r \in Buf /\ setup' = setup /\ buf' = [buf EXCEPT ![b] = r]
      /\ BufInv(b, r)'
      /\ stream' = stream /\ shutdown' \in BOOLEAN /\ (shutdown => shutdown')
      /\ past' \in Past /\ past'.lost = past.lost /\ (past.backlogged => past'.backlogged)
      /\ (backlog' > 1 => past'.backlogged) /\ (Drained(buf[b]) => Drained(r))
  BY DEF Keeps
<1>2. PollersType /\ BufsInv /\ StreamInv
  BY DEF PollersInv
<1>3. /\ Buffers' = Buffers /\ Shared' = Shared
      /\ buf' \in [Buffers -> Buf] /\ buf'[b] = r
      /\ \A k \in Buffers : k # b => buf'[k] = buf[k]
      /\ Total' \in Nat /\ Total \in Nat /\ Total' + InRec(buf[b]) = Total + InRec(r)
  BY <1>1, <1>2, TotalChanges
<1>4. PollersType'
  BY <1>2, <1>3 DEF Keeps, PollersType
<1>5. BufsInv'
  <2> SUFFICES ASSUME NEW k \in Buffers PROVE BufInv(k, buf[k])'
    BY <1>3 DEF BufsInv
  <2>1. CASE k = b
    <3>1. buf'[k] = r
      BY <1>3, <2>1
    <3> QED
      BY <1>1, <2>1, <3>1 DEF BufInv, Guarded
  <2>2. CASE k # b
    <3>1. buf'[k] = buf[k] /\ BufInv(k, buf[k])
      BY <1>2, <1>3, <2>2 DEF BufsInv
    <3>2. Guarded(k)' => Guarded(k)
      BY <1>1, <1>3 DEF Guarded
    <3> QED
      BY <1>1, <3>1, <3>2 DEF BufInv
  <2> QED
    BY <2>1, <2>2
<1>6. StreamInv'
  <2>1. stream' = "over" => shutdown'
    BY <1>1, <1>2 DEF StreamInv
  <2>2. stream' = "closing" => \E k \in Buffers' : Drained(buf'[k])
    <3> SUFFICES ASSUME stream' = "closing" PROVE \E k \in Buffers' : Drained(buf'[k])
      OBVIOUS
    <3>1. PICK k \in Buffers : Drained(buf[k])
      BY <1>1, <1>2 DEF StreamInv
    <3>2. Drained(buf'[k])
      BY <1>1, <1>3, <3>1
    <3> QED
      BY <1>3, <3>1, <3>2
  <2>3. past'.lost > 0 => Shared' /\ shutdown'
    BY <1>1, <1>2, <1>3 DEF StreamInv
  <2> QED
    BY <1>1, <2>1, <2>2, <2>3 DEF StreamInv, Drained
<1> QED
  BY <1>3, <1>4, <1>5, <1>6 DEF PollersInv
\* A step of a buffer that leaves the manager alone keeps the invariant when
\* the slots it frees are the ones that the buffer no longer holds.
LEMMA BufferKeeps ==
  ASSUME Inv, NEW b \in Buffers, NEW r, Keeps(b, r), UNCHANGED manager,
         free' + out' + InRec(r) = free + out + InRec(buf[b])
  PROVE  Inv'
<1>1. PollersInv' /\ Total' \in Nat /\ Total \in Nat /\ Total' + InRec(buf[b]) = Total + InRec(r)
  BY KeepsPollers DEF Inv
<1>2. ManagerInv'
  BY DEF Inv, ManagerInv, Keeps, manager
<1>3. Slots'
  <2>1. r \in Buf /\ buf[b] \in Buf /\ free \in Nat /\ out \in Nat
    BY DEF Inv, PollersInv, PollersType, Keeps
  <2>2. InRec(r) \in Nat /\ InRec(buf[b]) \in Nat
    BY <2>1, InRecType
  <2>3. PICK c \in Nat : c = Cardinality(map \cup sending) /\ Cardinality(map \cup sending)' = c
    <3>1. IsFiniteSet(map \cup sending)
      BY FS_Union DEF Inv, ManagerInv
    <3> QED
      BY <3>1, FS_CardinalityType DEF manager
  <2>4. free + (out + c) + Total = setup.slots
    BY <2>3 DEF Inv, Slots, Taken
  <2>5. free' \in Nat /\ out' \in Nat /\ setup' = setup /\ setup.slots \in Nat
    BY BuffersAre DEF Keeps, Inv, PollersInv, PollersType
  <2>6. free' + (out' + c) + Total' = setup'.slots
    BY <1>1, <2>1, <2>2, <2>4, <2>5
  <2> QED
    BY <2>3, <2>6 DEF Slots, Taken
<1> QED
  BY <1>1, <1>2, <1>3 DEF Inv

\* A step of a loop or of a poll, which changes its buffer and the free slots.
LEMMA LoopKeeps ==
  ASSUME Inv, NEW b \in Buffers, NEW r \in Buf, buf' = [buf EXCEPT ![b] = r],
         UNCHANGED <<setup, backlog, shutdown, stream, out, past>>, UNCHANGED manager,
         BufInv(b, r), Drained(buf[b]) => Drained(r),
         free' \in Nat, free' + InRec(r) = free + InRec(buf[b])
  PROVE  Inv'
<1>1. BufInv(b, r)'
  BY DEF BufInv, Guarded, Shared, Buffers
<1>2. out \in Nat /\ backlog \in Nat /\ shutdown \in BOOLEAN /\ past \in Past
      /\ (backlog > 1 => past.backlogged) /\ free \in Nat /\ buf[b] \in Buf
  BY DEF Inv, PollersInv, PollersType, StreamInv
<1>3. Keeps(b, r)
  BY <1>1, <1>2 DEF Keeps
<1>4. InRec(r) \in Nat /\ InRec(buf[b]) \in Nat
  BY <1>2, InRecType
<1>5. free' + out' + InRec(r) = free + out + InRec(buf[b])
  BY <1>2, <1>4
<1> QED
  BY <1>3, <1>5, BufferKeeps

-----------------------------------------------------------------------------
(* The loop. *)

\* What the invariant says of one buffer.
LEMMA BufferIs ==
  ASSUME Inv, NEW b \in Buffers
  PROVE  /\ setup \in Setups /\ free \in Nat /\ buf[b] \in Buf /\ BufInv(b, buf[b])
         /\ buf[b].polling \in Nat /\ buf[b].returned \in Nat /\ buf[b].loop \in Loops
         /\ Held(buf[b].queue) \in Nat /\ buf[b].queue \in Seq(Items)
<1>1. setup \in Setups /\ free \in Nat /\ buf[b] \in Buf /\ BufInv(b, buf[b])
  BY DEF Inv, PollersInv, PollersType, BufsInv
<1> QED
  BY <1>1, InRecType DEF Buf

\* The loop starts, goes round, and gets past wait_if_needed.
LEMMA LoopGoesInv ==
  ASSUME Inv, NEW b \in Buffers, LoopStarts(b) \/ LoopTop(b) \/ LoopDelay(b), UNCHANGED manager
  PROVE  Inv'
<1> USE BufferIs
<1>1. UNCHANGED <<setup, backlog, shutdown, stream, out, past>> /\ free' = free
  BY DEF LoopStarts, LoopTop, LoopDelay, Loop
<1>2. PICK l \in {"top", "delay", "acquire"} :
        /\ buf' = [buf EXCEPT ![b].loop = l]
        /\ buf[b].loop \in {"idle", "top", "delay"}
        /\ l = "acquire" => Allowed(b)
        /\ stream = "over" => FALSE
  <2>1. stream = "over" => buf[b].loop = "ended"
    BY DEF BufInv
  <2>2. CASE LoopStarts(b)
    BY <2>1, <2>2 DEF LoopStarts, Loop
  <2>3. CASE LoopTop(b)
    BY <2>1, <2>3 DEF LoopTop, Loop
  <2>4. CASE LoopDelay(b)
    BY <2>1, <2>4 DEF LoopDelay, Loop
  <2> QED
    BY <2>2, <2>3, <2>4
<1>3. PICK r : r = [buf[b] EXCEPT !.loop = l]
  OBVIOUS
<1>4. r \in Buf /\ r.loop = l /\ r.polling = buf[b].polling /\ r.returned = buf[b].returned
      /\ r.queue = buf[b].queue /\ r.target = buf[b].target
  BY <1>2, <1>3 DEF Buf, Loops
<1>5. buf' = [buf EXCEPT ![b] = r]
  BY <1>2, <1>3
<1>6. Guarded(b) /\ l = "acquire" => r.polling + 1 < setup.slots
  <2> SUFFICES ASSUME Guarded(b), l = "acquire" PROVE buf[b].polling + 1 < setup.slots
    BY <1>4
  <2>1. Allowed(b) /\ Shared /\ setup.slots > 1 /\ setup.slots \in Nat
        /\ Buffers = {"normal", "sticky"}
    BY <1>2, BuffersAre DEF Guarded
  <2>2. buf["normal"].polling \in Nat /\ buf["sticky"].polling \in Nat
    BY <2>1
  <2>3. b = "sticky" => ~PreferSticky
    BY DEF Inv, PollersInv, StreamInv, Guarded, PreferSticky
  <2>4. CASE b = "normal"
    BY <2>1, <2>2, <2>4 DEF Allowed, KeepsOneFor, SlotsLeft
  <2>5. CASE b = "sticky"
    BY <2>1, <2>2, <2>3, <2>5 DEF Allowed, KeepsOneFor, SlotsLeft
  <2> QED
    BY <2>4, <2>5 DEF Guarded
<1>7. BufInv(b, r)
  BY <1>2, <1>4, <1>6 DEF BufInv
<1>8. InRec(r) = InRec(buf[b])
  BY <1>2, <1>4 DEF InRec
<1> QED
  BY <1>1, <1>2, <1>4, <1>5, <1>7, <1>8, LoopKeeps DEF Drained

\* The loop gets past the wait for a permit.
LEMMA LoopPermitInv ==
  ASSUME Inv, NEW b \in Buffers, LoopPermit(b), UNCHANGED manager
  PROVE  Inv'
<1> USE BufferIs
<1>1. /\ UNCHANGED <<setup, backlog, shutdown, stream, out, past>>
      /\ free' = free /\ buf[b].loop = "acquire"
      /\ buf' = [buf EXCEPT ![b].loop = "reserve"]
  BY DEF LoopPermit, Loop
<1>2. PICK r : r = [buf[b] EXCEPT !.loop = "reserve"]
  OBVIOUS
<1>3. r \in Buf /\ r.loop = "reserve" /\ r.polling = buf[b].polling /\ r.returned = buf[b].returned
      /\ r.queue = buf[b].queue /\ r.target = buf[b].target
  BY <1>2 DEF Buf, Loops
<1>4. buf' = [buf EXCEPT ![b] = r]
  BY <1>1, <1>2
<1>5. BufInv(b, r)
  BY <1>1, <1>3 DEF BufInv
<1>6. InRec(r) = InRec(buf[b])
  BY <1>1, <1>3 DEF InRec
<1> QED
  BY <1>1, <1>3, <1>4, <1>5, <1>6, LoopKeeps DEF Drained

\* A slot goes from the supplier to the loop.
LEMMA LoopAcquireInv ==
  ASSUME Inv, NEW b \in Buffers, LoopAcquire(b), UNCHANGED manager
  PROVE  Inv'
<1> USE BufferIs
<1>1. /\ UNCHANGED <<setup, backlog, shutdown, stream, out, past>>
      /\ free > 0 /\ free' = free - 1 /\ buf[b].loop = "reserve"
      /\ buf' = [buf EXCEPT ![b].loop = "allow", ![b].woken = TRUE]
  BY DEF LoopAcquire, Loop
<1>2. PICK r : r = [buf[b] EXCEPT !.loop = "allow", !.woken = TRUE]
  OBVIOUS
<1>3. r \in Buf /\ r.loop = "allow" /\ r.polling = buf[b].polling /\ r.returned = buf[b].returned
      /\ r.queue = buf[b].queue /\ r.target = buf[b].target
  BY <1>2 DEF Buf, Loops
<1>4. buf' = [buf EXCEPT ![b] = r]
  BY <1>1, <1>2
<1>5. BufInv(b, r)
  BY <1>1, <1>3 DEF BufInv
<1>6. InRec(r) = InRec(buf[b]) + 1
  BY <1>1, <1>3 DEF InRec
<1>7. free' \in Nat /\ free' + InRec(r) = free + InRec(buf[b])
  <2>1. InRec(buf[b]) \in Nat
    BY InRecType
  <2> QED
    BY <1>1, <1>6, <2>1
<1> QED
  BY <1>1, <1>3, <1>4, <1>5, <1>7, LoopKeeps DEF Drained

\* The slot goes from the loop to a poll, if the scaler allows one more.
LEMMA LoopAllowInv ==
  ASSUME Inv, NEW b \in Buffers, LoopAllow(b), UNCHANGED manager
  PROVE  Inv'
<1> USE BufferIs
<1>1. /\ UNCHANGED <<setup, backlog, shutdown, stream, out, past>>
      /\ free' = free /\ buf[b].loop = "allow"
  BY DEF LoopAllow, Loop
<1>2. CASE buf[b].polling < setup.max /\ buf[b].polling < buf[b].target
  <2>0. PICK n \in Nat : n = buf[b].polling + 1
    OBVIOUS
  <2>1. PICK r : r = [buf[b] EXCEPT !.loop = "top", !.polling = n, !.woken = FALSE]
    OBVIOUS
  <2>2. r \in Buf /\ r.loop = "top" /\ r.polling = buf[b].polling + 1 /\ r.returned = buf[b].returned
        /\ r.queue = buf[b].queue /\ r.target = buf[b].target
    BY <2>0, <2>1 DEF Buf, Loops
  <2>3. buf' = [buf EXCEPT ![b].loop = "top", ![b].polling = n, ![b].woken = FALSE]
    BY <1>2, <2>0 DEF LoopAllow
  <2>4. buf' = [buf EXCEPT ![b] = r]
    BY <2>1, <2>3
  <2>5. BufInv(b, r)
    <3>1. setup.max \in Nat
      BY BuffersAre
    <3> QED
      BY <1>1, <1>2, <2>2, <3>1 DEF BufInv
  <2>6. InRec(r) = InRec(buf[b])
    BY <1>1, <2>2 DEF InRec
  <2> QED
    BY <1>1, <2>2, <2>4, <2>5, <2>6, LoopKeeps DEF Drained
<1>3. CASE ~(buf[b].polling < setup.max /\ buf[b].polling < buf[b].target)
  <2>1. PICK r : r = [buf[b] EXCEPT !.woken = FALSE]
    OBVIOUS
  <2>2. r \in Buf /\ r.loop = buf[b].loop /\ r.polling = buf[b].polling /\ r.returned = buf[b].returned
        /\ r.queue = buf[b].queue /\ r.target = buf[b].target
    BY <2>1 DEF Buf, Loops
  <2>3. buf' = [buf EXCEPT ![b].woken = FALSE]
    BY <1>3 DEF LoopAllow
  <2>4. buf' = [buf EXCEPT ![b] = r]
    BY <2>1, <2>3
  <2>5. BufInv(b, r)
    BY <1>1, <2>2 DEF BufInv
  <2>6. InRec(r) = InRec(buf[b])
    BY <1>1, <2>2 DEF InRec
  <2> QED
    BY <1>1, <2>2, <2>4, <2>5, <2>6, LoopKeeps DEF Drained
<1> QED
  BY <1>2, <1>3

\* Shutdown ends the loop: a slot it has acquired goes back.
LEMMA LoopBreaksInv ==
  ASSUME Inv, NEW b \in Buffers, LoopBreaks(b), UNCHANGED manager
  PROVE  Inv'
<1> USE BufferIs
<1>1. /\ UNCHANGED <<setup, backlog, shutdown, stream, out, past>>
      /\ buf[b].loop \in {"idle", "top", "delay", "acquire", "reserve", "allow"}
      /\ free' = free + (IF buf[b].loop = "allow" THEN 1 ELSE 0)
  BY DEF LoopBreaks, Loop
<1>2. PICK l : l = IF buf[b].loop = "idle" THEN "ended" ELSE "drain"
  OBVIOUS
<1>3. PICK r : r = [buf[b] EXCEPT !.loop = l]
  OBVIOUS
<1>4. r \in Buf /\ r.loop = l /\ r.polling = buf[b].polling /\ r.returned = buf[b].returned
      /\ r.queue = buf[b].queue /\ r.target = buf[b].target
  BY <1>2, <1>3 DEF Buf, Loops
<1>5. buf' = [buf EXCEPT ![b] = r]
  BY <1>2, <1>3 DEF LoopBreaks
<1>6. BufInv(b, r)
  BY <1>1, <1>2, <1>4 DEF BufInv
<1>7. InRec(r) + (IF buf[b].loop = "allow" THEN 1 ELSE 0) = InRec(buf[b])
  BY <1>1, <1>2, <1>4 DEF InRec
<1>8. free' \in Nat /\ free' + InRec(r) = free + InRec(buf[b])
  <2>1. InRec(r) \in Nat
    BY <1>4, InRecType
  <2> QED
    BY <1>1, <1>7, <2>1
<1> QED
  BY <1>1, <1>4, <1>5, <1>6, <1>8, LoopKeeps DEF Drained

\* The loop ends when the polls it has spawned have.
LEMMA LoopEndsInv ==
  ASSUME Inv, NEW b \in Buffers, LoopEnds(b), UNCHANGED manager
  PROVE  Inv'
<1> USE BufferIs
<1>1. /\ UNCHANGED <<setup, backlog, shutdown, stream, out, past>>
      /\ free' = free /\ buf[b].loop = "drain" /\ buf[b].polling = 0 /\ buf[b].returned = 0
      /\ buf' = [buf EXCEPT ![b].loop = "ended"]
  BY DEF LoopEnds, Loop
<1>2. PICK r : r = [buf[b] EXCEPT !.loop = "ended"]
  OBVIOUS
<1>3. r \in Buf /\ r.loop = "ended" /\ r.polling = buf[b].polling /\ r.returned = buf[b].returned
      /\ r.queue = buf[b].queue /\ r.target = buf[b].target
  BY <1>2 DEF Buf, Loops
<1>4. buf' = [buf EXCEPT ![b] = r]
  BY <1>1, <1>2
<1>5. BufInv(b, r)
  BY <1>1, <1>3 DEF BufInv
<1>6. InRec(r) = InRec(buf[b])
  BY <1>1, <1>3 DEF InRec
<1> QED
  BY <1>1, <1>3, <1>4, <1>5, <1>6, LoopKeeps DEF Drained

\* A poll ends: it keeps its slot with the answer, or gives it back at shutdown.
LEMMA PollEndsInv ==
  ASSUME Inv, NEW b \in Buffers, PollReturns(b) \/ PollDropped(b), UNCHANGED manager
  PROVE  Inv'
<1> USE BufferIs
<1>1. UNCHANGED <<setup, backlog, shutdown, stream, out, past>> /\ buf[b].polling > 0
  BY DEF PollReturns, PollDropped
<1>2. buf[b].loop \notin {"idle", "ended"}
  BY <1>1 DEF BufInv
<1>3. CASE PollReturns(b)
  <2>0. PICK n \in Nat : n + 1 = buf[b].polling /\ n = buf[b].polling - 1
    BY <1>1
  <2>m. PICK m \in Nat : m = buf[b].returned + 1
    OBVIOUS
  <2>1. PICK r : r = [buf[b] EXCEPT !.polling = n, !.woken = TRUE, !.returned = m]
    OBVIOUS
  <2>2. r \in Buf /\ r.loop = buf[b].loop /\ r.polling = buf[b].polling - 1
        /\ r.returned = buf[b].returned + 1 /\ r.queue = buf[b].queue /\ r.target = buf[b].target
    BY <2>0, <2>m, <2>1 DEF Buf
  <2>3. buf' = [buf EXCEPT ![b] = r] /\ free' = free
    BY <1>3, <2>0, <2>m, <2>1 DEF PollReturns
  <2>4. BufInv(b, r)
    <3>1. setup.max \in Nat /\ setup.slots \in Nat
      BY BuffersAre
    <3> QED
      BY <1>2, <2>2, <3>1 DEF BufInv
  <2>5. InRec(r) = InRec(buf[b])
    <3>1. PICK a \in Nat : a = IF buf[b].loop = "allow" THEN 1 ELSE 0
      OBVIOUS
    <3>2. PICK h \in Nat : h = Held(buf[b].queue)
      OBVIOUS
    <3>3. InRec(buf[b]) = a + (n + 1) + buf[b].returned + h
      BY <2>0, <3>1, <3>2 DEF InRec
    <3>4. InRec(r) = a + n + r.returned + h
      BY <2>0, <2>2, <3>1, <3>2 DEF InRec
    <3> QED
      BY <2>2, <3>3, <3>4
  <2> QED
    BY <1>1, <1>2, <2>2, <2>3, <2>4, <2>5, LoopKeeps DEF Drained
<1>4. CASE PollDropped(b)
  <2>0. PICK n \in Nat : n + 1 = buf[b].polling /\ n = buf[b].polling - 1
    BY <1>1
  <2>1. PICK r : r = [buf[b] EXCEPT !.polling = n, !.woken = TRUE]
    OBVIOUS
  <2>2. r \in Buf /\ r.loop = buf[b].loop /\ r.polling = buf[b].polling - 1
        /\ r.returned = buf[b].returned /\ r.queue = buf[b].queue /\ r.target = buf[b].target
    BY <2>0, <2>1 DEF Buf
  <2>3. buf' = [buf EXCEPT ![b] = r] /\ free' = free + 1
    BY <1>4, <2>0, <2>1 DEF PollDropped
  <2>4. BufInv(b, r)
    <3>1. setup.max \in Nat /\ setup.slots \in Nat
      BY BuffersAre
    <3> QED
      BY <1>2, <2>2, <3>1 DEF BufInv
  <2>5. InRec(r) + 1 = InRec(buf[b])
    <3>1. PICK a \in Nat : a = IF buf[b].loop = "allow" THEN 1 ELSE 0
      OBVIOUS
    <3>2. PICK h \in Nat : h = Held(buf[b].queue)
      OBVIOUS
    <3>3. InRec(buf[b]) = a + (n + 1) + buf[b].returned + h
      BY <2>0, <3>1, <3>2 DEF InRec
    <3>4. InRec(r) = a + n + r.returned + h
      BY <2>0, <2>2, <3>1, <3>2 DEF InRec
    <3> QED
      BY <2>2, <3>3, <3>4
  <2>6. InRec(r) \in Nat
    BY <2>2, InRecType
  <2>7. free' \in Nat /\ free' + InRec(r) = free + InRec(buf[b])
    BY <2>3, <2>5, <2>6
  <2> QED
    BY <1>1, <1>2, <2>2, <2>3, <2>4, <2>7, LoopKeeps DEF Drained
<1> QED
  BY <1>3, <1>4

\* The ingestor looks at the rate of tasks.
LEMMA TickInv ==
  ASSUME Inv, NEW b \in Buffers, Tick(b), UNCHANGED manager
  PROVE  Inv'
<1> USE BufferIs
<1>1. UNCHANGED <<setup, backlog, shutdown, stream, out, past>> /\ free' = free
  BY DEF Tick
<1>2. PICK up \in BOOLEAN : buf' = [buf EXCEPT ![b].up = up]
  BY DEF Tick
<1>3. PICK r : r = [buf[b] EXCEPT !.up = up]
  OBVIOUS
<1>4. r \in Buf /\ r.loop = buf[b].loop /\ r.polling = buf[b].polling
      /\ r.returned = buf[b].returned /\ r.queue = buf[b].queue /\ r.target = buf[b].target
  BY <1>2, <1>3 DEF Buf
<1>5. buf' = [buf EXCEPT ![b] = r]
  BY <1>2, <1>3
<1>6. BufInv(b, r)
  BY <1>4 DEF BufInv
<1>7. InRec(r) = InRec(buf[b])
  BY <1>4 DEF InRec
<1> QED
  BY <1>1, <1>4, <1>5, <1>6, <1>7, LoopKeeps DEF Drained
-----------------------------------------------------------------------------
(* Answers. *)

\* The next target, whatever the answer, is within the bounds.
LEMMA NewTargetIn ==
  ASSUME Inv, NEW b \in Buffers, NEW a \in Answers
  PROVE  NewTarget(b, a) \in setup.min .. setup.max
<1>1. setup \in Setups /\ buf[b].target \in setup.min .. setup.max
  BY BufferIs DEF BufInv
<1>2. setup.min \in Nat /\ setup.max \in Nat
  BY <1>1, BuffersAre
<1>3. PICK t \in Int : t = buf[b].target
  BY <1>1, <1>2
<1>4. /\ Clamp(t - 1) \in setup.min .. setup.max
      /\ Clamp(t + 1) \in setup.min .. setup.max
      /\ Clamp(t \div 2) \in setup.min .. setup.max
  <2>1. t - 1 \in Int /\ t + 1 \in Int /\ t \div 2 \in Int
    BY <1>3
  <2> QED
    BY <1>1, <2>1, ClampIn
<1>5. a.advice \in {"none", "down", "up"}
  BY DEF Answers
<1> HIDE DEF Clamp
<1> QED
  BY <1>1, <1>3, <1>4, <1>5 DEF NewTarget

\* An answer goes to the scaler and into the queue; an error frees its slot.
LEMMA ReportInv ==
  ASSUME Inv, NEW b \in Buffers, NEW a \in Answers, NEW hint \in {0, 2}, Report(b, a, hint),
         UNCHANGED manager
  PROVE  Inv'
<1> USE BufferIs
<1>1. /\ UNCHANGED <<setup, shutdown, stream, out>> /\ buf[b].returned > 0
  BY DEF Report
<1>2. buf[b].loop \notin {"idle", "ended"} /\ stream # "over"
  BY <1>1 DEF BufInv
<1>3. PICK n \in Nat : n + 1 = buf[b].returned /\ n = buf[b].returned - 1
  BY <1>1
<1>4. PICK t : t = NewTarget(b, a) /\ t \in setup.min .. setup.max /\ t \in Nat
  <2>1. setup.min \in Nat /\ setup.max \in Nat
    BY BuffersAre
  <2> QED
    BY <2>1, NewTargetIn
<1>5. PICK saw \in BOOLEAN : saw = (buf[b].saw \/ (setup.auto /\ a.advice # "none"))
  OBVIOUS
<1>6. PICK e \in Items : e = (IF IsError(a) THEN "error" ELSE a.what) /\ (e = "error" <=> IsError(a))
  BY DEF Answers, IsError, Items
<1>7. PICK q : q = IF ~PassedOn(b, a) THEN buf[b].queue ELSE Append(buf[b].queue, e)
  OBVIOUS
<1>8. q \in Seq(Items) /\ Held(q) = Held(buf[b].queue) + (IF IsError(a) THEN 0 ELSE 1)
  <2>1. CASE PassedOn(b, a)
    BY <1>6, <1>7, <2>1, HeldAppend
  <2>2. CASE ~PassedOn(b, a)
    <3>1. IsError(a)
      BY <2>2 DEF PassedOn
    <3> QED
      BY <1>7, <2>2, <3>1
  <2> QED
    BY <2>1, <2>2
<1>9. PICK r : r = [buf[b] EXCEPT !.returned = n, !.target = t, !.saw = saw, !.queue = q]
  OBVIOUS
<1>10. r \in Buf /\ r.loop = buf[b].loop /\ r.polling = buf[b].polling /\ r.returned = n
       /\ r.queue = q /\ r.target = t
  BY <1>4, <1>8, <1>9 DEF Buf
<1>11. buf' = [buf EXCEPT ![b] = r]
  <2>1. buf' = [buf EXCEPT ![b].returned = @ - 1, ![b].target = NewTarget(b, a),
                           ![b].saw = @ \/ (setup.auto /\ a.advice # "none"),
                           ![b].queue = IF ~PassedOn(b, a) THEN @
                                        ELSE Append(@, IF IsError(a) THEN "error" ELSE a.what)]
    BY <1>2 DEF Report
  <2>2. buf' = [buf EXCEPT ![b].returned = n, ![b].target = t, ![b].saw = saw, ![b].queue = q]
    BY <1>3, <1>4, <1>5, <1>6, <1>7, <2>1
  <2> QED
    BY <1>9, <2>2
<1>12. /\ backlog' \in Nat /\ past' \in Past /\ past'.lost = past.lost
       /\ (past.backlogged => past'.backlogged) /\ (backlog' > 1 => past'.backlogged)
  <2>1. backlog' \in Nat
    BY DEF Report, Inv, PollersInv, PollersType
  <2>2. past' = [past EXCEPT !.backlogged = @ \/ backlog' > 1, !.lost = @ + 0]
    BY <1>2 DEF Report
  <2>3. past \in Past
    BY DEF Inv, PollersInv, PollersType
  <2>4. PICK v \in BOOLEAN : v = (past.backlogged \/ backlog' > 1)
    OBVIOUS
  <2>5. past' = [past EXCEPT !.backlogged = v, !.lost = past.lost]
    <3>1. past.lost + 0 = past.lost
      BY <2>3 DEF Past
    <3>2. past' = [past EXCEPT !.backlogged = v, !.lost = past.lost + 0]
      BY <2>2, <2>4
    <3> QED
      BY <3>1, <3>2
  <2>6. past' \in Past /\ past'.lost = past.lost /\ past'.backlogged = v
    BY <2>3, <2>5 DEF Past
  <2> QED
    BY <2>1, <2>4, <2>6
<1>13. BufInv(b, r)'
  <2>1. Guarded(b)' => Guarded(b)
    BY <1>1, <1>12 DEF Guarded, Shared, Buffers
  <2> QED
    BY <1>1, <1>2, <1>4, <1>10, <2>1 DEF BufInv
<1>14. free' = free + (IF IsError(a) THEN 1 ELSE 0)
  BY <1>2 DEF Report
<1>15. shutdown \in BOOLEAN /\ out \in Nat
  BY DEF Inv, PollersInv, PollersType
<1>16. Keeps(b, r)
  BY <1>1, <1>2, <1>10, <1>11, <1>12, <1>13, <1>14, <1>15 DEF Keeps, Drained
<1>17. free' + out' + InRec(r) = free + out + InRec(buf[b])
  <2>1. PICK k \in Nat : k = IF buf[b].loop = "allow" THEN 1 ELSE 0
    OBVIOUS
  <2>2. PICK h \in Nat : h = Held(buf[b].queue)
    OBVIOUS
  <2>3. PICK p \in Nat : p = buf[b].polling
    OBVIOUS
  <2>4. InRec(buf[b]) = k + p + (n + 1) + h
    BY <1>3, <2>1, <2>2, <2>3 DEF InRec
  <2>5. PICK d \in {0, 1} : d = IF IsError(a) THEN 0 ELSE 1
    OBVIOUS
  <2>6. InRec(r) = k + p + n + (h + d)
    BY <1>8, <1>10, <2>1, <2>2, <2>3, <2>5 DEF InRec
  <2>7. free' = free + (1 - d) /\ free \in Nat /\ out' = out /\ out \in Nat
    BY <1>1, <1>14, <1>15, <2>5
  <2> QED
    <3>1. CASE d = 0
      BY <2>4, <2>6, <2>7, <3>1
    <3>2. CASE d = 1
      BY <2>4, <2>6, <2>7, <3>2
    <3> QED
      BY <3>1, <3>2
<1> QED
  BY <1>16, <1>17, BufferKeeps

-----------------------------------------------------------------------------
(* What the stream takes. *)

\* The head of a queue leaves it with its slot, if it has one.
LEMMA PopIs ==
  ASSUME Inv, NEW b \in Buffers, Head1(b), buf' = Popped(b)
  PROVE  \E r \in Buf :
           /\ buf' = [buf EXCEPT ![b] = r] /\ BufInv(b, r)
           /\ InRec(r) \in Nat
           /\ InRec(buf[b]) = InRec(r) + (IF Head(buf[b].queue) = "error" THEN 0 ELSE 1)
           /\ Drained(buf[b]) => Drained(r)
<1> USE BufferIs
<1>1. PICK q : q = Tail(buf[b].queue)
  OBVIOUS
<1>2. q \in Seq(Items) /\ Held(buf[b].queue) = Held(q) + (IF Head(buf[b].queue) = "error" THEN 0 ELSE 1)
  BY <1>1, HeldTail DEF Head1
<1>3. PICK r : r = [buf[b] EXCEPT !.queue = q]
  OBVIOUS
<1>4. r \in Buf /\ r.loop = buf[b].loop /\ r.polling = buf[b].polling
      /\ r.returned = buf[b].returned /\ r.queue = q /\ r.target = buf[b].target
  BY <1>2, <1>3 DEF Buf
<1>5. buf' = [buf EXCEPT ![b] = r]
  BY <1>1, <1>3 DEF Popped
<1>6. BufInv(b, r)
  BY <1>4 DEF BufInv
<1>7. InRec(r) \in Nat /\ Held(q) \in Nat
  BY <1>2, <1>4, InRecType, HeldType
<1>8. InRec(buf[b]) = InRec(r) + (IF Head(buf[b].queue) = "error" THEN 0 ELSE 1)
  <2> DEFINE n == IF Head(buf[b].queue) = "error" THEN 0 ELSE 1
             m == (IF r.loop = "allow" THEN 1 ELSE 0) + r.polling + r.returned
  <2>1. n \in Nat /\ m \in Nat
    BY <1>4 DEF Buf
  <2>2. InRec(r) = m + Held(q) /\ InRec(buf[b]) = m + Held(buf[b].queue)
    BY <1>4 DEF InRec
  <2>3. Held(buf[b].queue) = Held(q) + n
    BY <1>2
  <2> HIDE DEF n, m
  <2>4. InRec(buf[b]) = InRec(r) + n
    BY ONLY <2>1, <2>2, <2>3, <1>7
  <2> QED
    BY <2>4 DEF n
<1> QED
  BY <1>4, <1>5, <1>6, <1>7, <1>8 DEF Drained, Head1

\* An empty or invalid answer gives back its slot.
LEMMA TakeNothingInv ==
  ASSUME Inv, NEW b \in Buffers, TakeEmpty(b) \/ TakeInvalid(b), UNCHANGED manager
  PROVE  Inv'
<1>1. /\ UNCHANGED <<setup, backlog, shutdown, stream, out, past>> /\ free' = free + 1
      /\ Head1(b) /\ buf' = Popped(b) /\ Head(buf[b].queue) # "error"
  BY DEF TakeEmpty, TakeInvalid
<1>2. PICK r \in Buf :
        /\ buf' = [buf EXCEPT ![b] = r] /\ BufInv(b, r) /\ InRec(r) \in Nat
        /\ InRec(buf[b]) = InRec(r) + 1 /\ (Drained(buf[b]) => Drained(r))
  BY <1>1, PopIs
<1>3. free' \in Nat /\ free' + InRec(r) = free + InRec(buf[b])
  BY <1>1, <1>2, BufferIs
<1> QED
  BY <1>1, <1>2, <1>3, LoopKeeps

\* An error holds no slot; for workflow tasks it begins the shutdown.
LEMMA TakeErrorInv ==
  ASSUME Inv, NEW b \in Buffers, TakeError(b), UNCHANGED manager
  PROVE  Inv'
<1>1. /\ UNCHANGED <<setup, free, backlog, stream, out, past>> /\ (shutdown => shutdown')
      /\ Head1(b) /\ buf' = Popped(b) /\ Head(buf[b].queue) = "error"
  BY DEF TakeError
<1>2. PICK r \in Buf :
        /\ buf' = [buf EXCEPT ![b] = r] /\ BufInv(b, r) /\ InRec(r) \in Nat
        /\ InRec(buf[b]) = InRec(r) /\ (Drained(buf[b]) => Drained(r))
  BY <1>1, PopIs
<1>3. shutdown' \in BOOLEAN
  BY DEF TakeError
<1>4. BufInv(b, r)'
  BY <1>1, <1>2 DEF BufInv, Guarded, Shared, Buffers
<1>5. out \in Nat /\ backlog \in Nat /\ past \in Past /\ (backlog > 1 => past.backlogged) /\ free \in Nat
  BY DEF Inv, PollersInv, PollersType, StreamInv
<1>6. Keeps(b, r)
  BY <1>1, <1>2, <1>3, <1>4, <1>5 DEF Keeps
<1> QED
  BY <1>1, <1>2, <1>6, BufferKeeps

\* A task takes its slot out of the buffer.
LEMMA TakeTaskKeeps ==
  ASSUME Inv, NEW b \in Buffers, TakeTask(b), out' \in Nat
  PROVE  \E r : Keeps(b, r) /\ InRec(r) \in Nat /\ InRec(buf[b]) = InRec(r) + 1
<1>1. /\ UNCHANGED <<setup, free, backlog, shutdown, stream, past>>
      /\ Head1(b) /\ buf' = Popped(b) /\ Head(buf[b].queue) = "task"
  BY DEF TakeTask
<1>2. PICK r \in Buf :
        /\ buf' = [buf EXCEPT ![b] = r] /\ BufInv(b, r) /\ InRec(r) \in Nat
        /\ InRec(buf[b]) = InRec(r) + 1 /\ (Drained(buf[b]) => Drained(r))
  BY <1>1, PopIs
<1>3. BufInv(b, r)'
  BY <1>1, <1>2 DEF BufInv, Guarded, Shared, Buffers
<1>4. shutdown \in BOOLEAN /\ backlog \in Nat /\ past \in Past /\ (backlog > 1 => past.backlogged) /\ free \in Nat
  BY DEF Inv, PollersInv, PollersType, StreamInv
<1>5. Keeps(b, r)
  BY <1>1, <1>2, <1>3, <1>4 DEF Keeps
<1> QED
  BY <1>2, <1>5

\* A workflow task keeps its slot with the run that it is for.
LEMMA TakeWorkflowTaskInv ==
  ASSUME Inv, NEW b \in Buffers, TakeWorkflowTask(b), UNCHANGED manager
  PROVE  Inv'
<1>1. TakeTask(b) /\ out' = out + 1 /\ out \in Nat /\ free' = free /\ free \in Nat
  BY DEF TakeWorkflowTask, TakeTask, Inv, PollersInv, PollersType
<1>2. PICK r : Keeps(b, r) /\ InRec(r) \in Nat /\ InRec(buf[b]) = InRec(r) + 1
  BY <1>1, TakeTaskKeeps
<1>3. free' + out' + InRec(r) = free + out + InRec(buf[b])
  BY <1>1, <1>2
<1> QED
  BY <1>2, <1>3, BufferKeeps
-----------------------------------------------------------------------------
(* The stream. *)

\* While no buffer changes, they hold what they did.
LEMMA SameBuffers ==
  ASSUME Inv, setup' = setup, buf' = buf
  PROVE  /\ Buffers' = Buffers /\ Shared' = Shared /\ Total' = Total /\ Total \in Nat
         /\ free \in Nat /\ out \in Nat /\ setup.slots \in Nat
         /\ IsFiniteSet(map) /\ IsFiniteSet(sending) /\ IsFiniteSet(map \cup sending)
         /\ Cardinality(map \cup sending) \in Nat
         /\ free + (out + Cardinality(map \cup sending)) + Total = setup.slots
<1>1. Buffers' = Buffers /\ Shared' = Shared
  BY DEF Buffers, Shared
<1>2. Total' = Total
  BY DEF Total, InAll, InBuffer, Buffers
<1>3. PollersType
  BY DEF Inv, PollersInv
<1>4. Total \in Nat
  <2>1. Part("normal") \in Nat /\ Part("sticky") \in Nat /\ Part("nexus") \in Nat
    BY <1>3, PartType
  <2> QED
    BY <2>1, TotalIs
<1>5. free \in Nat /\ out \in Nat /\ setup.slots \in Nat
  BY <1>3, BuffersAre DEF PollersType
<1>6. IsFiniteSet(map) /\ IsFiniteSet(sending) /\ IsFiniteSet(map \cup sending)
  BY FS_Union DEF Inv, ManagerInv
<1> QED
  BY <1>1, <1>2, <1>4, <1>5, <1>6, FS_CardinalityType DEF Inv, Slots, Taken

\* Sums: a slot that goes from one summand to the other.
LEMMA Regroup ==
  ASSUME NEW f \in Nat, NEW o \in Nat, NEW g \in Nat, NEW p \in Nat, NEW c \in Nat, NEW t \in Nat,
         f + o = g + p
  PROVE  f + (o + c) + t = g + (p + c) + t
OBVIOUS

\* The stream opens or begins to end, shutdown begins, a workflow task ends.
LEMMA StreamGoesInv ==
  ASSUME Inv, Poll \/ StreamEnds \/ InitiateShutdown \/ WorkflowTaskDone, UNCHANGED manager
  PROVE  Inv'
<1>1. /\ UNCHANGED <<setup, buf, backlog, past>> /\ (shutdown => shutdown') /\ shutdown' \in BOOLEAN
      /\ stream' \in {stream, "open", "closing"} /\ (stream' = "over" <=> stream = "over")
      /\ stream' = "closing" => \E b \in Buffers : Drained(buf[b])
  <2>1. shutdown \in BOOLEAN /\ (stream = "closing" => \E b \in Buffers : Drained(buf[b]))
    BY DEF Inv, PollersInv, PollersType, StreamInv
  <2>2. CASE Poll
    BY <2>1, <2>2 DEF Poll
  <2>3. CASE StreamEnds
    BY <2>1, <2>3 DEF StreamEnds, Drained
  <2>4. CASE InitiateShutdown
    BY <2>1, <2>4 DEF InitiateShutdown
  <2>5. CASE WorkflowTaskDone
    BY <2>1, <2>5 DEF WorkflowTaskDone
  <2> QED
    BY <2>2, <2>3, <2>4, <2>5
<1>2. free' \in Nat /\ out' \in Nat /\ free' + out' = free + out
  <2>1. free \in Nat /\ out \in Nat
    BY DEF Inv, PollersInv, PollersType
  <2> QED
    BY <2>1 DEF Poll, StreamEnds, InitiateShutdown, WorkflowTaskDone
<1>3. /\ Buffers' = Buffers /\ Shared' = Shared /\ Total' = Total /\ Total \in Nat
      /\ free \in Nat /\ out \in Nat /\ setup.slots \in Nat
      /\ Cardinality(map \cup sending) \in Nat
      /\ free + (out + Cardinality(map \cup sending)) + Total = setup.slots
  BY <1>1, SameBuffers
<1>4. PollersType'
  BY <1>1, <1>2, <1>3 DEF Inv, PollersInv, PollersType
<1>5. BufsInv'
  <2> SUFFICES ASSUME NEW b \in Buffers PROVE BufInv(b, buf[b])'
    BY <1>3 DEF BufsInv
  <2>1. BufInv(b, buf[b])
    BY DEF Inv, PollersInv, BufsInv
  <2>2. Guarded(b)' = Guarded(b)
    BY <1>1, <1>3 DEF Guarded
  <2> QED
    BY <1>1, <2>1, <2>2 DEF BufInv
<1>6. StreamInv'
  <2>1. StreamInv
    BY DEF Inv, PollersInv
  <2> QED
    BY <1>1, <1>3, <2>1 DEF StreamInv, Drained
<1>7. ManagerInv'
  BY <1>1 DEF Inv, ManagerInv, manager
<1>8. Slots'
  <2>1. Cardinality(map \cup sending)' = Cardinality(map \cup sending)
    BY DEF manager
  <2>2. PICK c \in Nat : c = Cardinality(map \cup sending)
    BY <1>3
  <2>3. free' + (out' + c) + Total = setup.slots
    <3>1. free + (out + c) + Total = setup.slots
      BY <1>3, <2>2
    <3>2. free \in Nat /\ out \in Nat /\ Total \in Nat
      BY <1>3
    <3>3. PICK f : f = free'
      OBVIOUS
    <3>4. PICK o : o = out'
      OBVIOUS
    <3>5. f \in Nat /\ o \in Nat /\ f + o = free + out
      BY <1>2, <3>3, <3>4
    <3>6. c \in Nat
      BY <2>2
    <3>7. f + (o + c) + Total = free + (out + c) + Total
      BY <3>2, <3>5, <3>6, Regroup
    <3> QED
      BY <3>1, <3>3, <3>4, <3>7
  <2> QED
    BY <1>1, <1>3, <2>1, <2>2, <2>3 DEF Slots, Taken
<1> QED
  BY <1>4, <1>5, <1>6, <1>7, <1>8 DEF Inv, PollersInv

\* The end of the stream: every buffer gives back the slots of what it still
\* holds, and only where there are two of them was a task among it.
LEMMA StreamOverInv ==
  ASSUME Inv, StreamOver, UNCHANGED manager
  PROVE  Inv'
<1>1. /\ UNCHANGED <<setup, backlog, out>> /\ stream = "closing" /\ stream' = "over" /\ shutdown' = TRUE
      /\ \A b \in Buffers : buf[b].loop = "ended"
      /\ free' = free + InAll([b \in Buffers |-> Held(buf[b].queue)])
      /\ buf' = [b \in Buffers |-> [buf[b] EXCEPT !.queue = <<>>]]
  BY DEF StreamOver
<1>2. /\ PollersType /\ StreamInv /\ setup \in Setups /\ past \in Past
      /\ Buffers' = Buffers /\ Shared' = Shared
  BY <1>1 DEF Inv, PollersInv, PollersType, Buffers, Shared
<1>3. ASSUME NEW b \in Buffers
      PROVE  /\ buf[b] \in Buf /\ BufInv(b, buf[b]) /\ buf[b].loop = "ended"
             /\ buf[b].polling = 0 /\ buf[b].returned = 0 /\ Held(buf[b].queue) \in Nat
             /\ buf'[b] = [buf[b] EXCEPT !.queue = <<>>]
  BY <1>1, BufferIs DEF BufInv
<1>4. ASSUME NEW b \in Buffers
      PROVE  /\ buf'[b] \in Buf /\ buf'[b].loop = "ended" /\ buf'[b].polling = 0 /\ buf'[b].returned = 0
             /\ buf'[b].queue = <<>> /\ buf'[b].target = buf[b].target
  <2>1. PICK r : r = buf'[b]
    OBVIOUS
  <2>2. r = [buf[b] EXCEPT !.queue = <<>>]
    BY <1>3, <2>1
  <2>3. r \in Buf /\ r.loop = "ended" /\ r.polling = 0 /\ r.returned = 0
        /\ r.queue = <<>> /\ r.target = buf[b].target
    BY <1>3, <2>2, HeldEmpty DEF Buf
  <2> QED
    BY <2>1, <2>3
<1>5. Total = InAll([b \in Buffers |-> Held(buf[b].queue)])
  <2>1. ASSUME NEW b \in Buffers PROVE InBuffer(b) = Held(buf[b].queue)
    <3>1. InBuffer(b) = 0 + 0 + 0 + Held(buf[b].queue) /\ Held(buf[b].queue) \in Nat
      BY <1>3 DEF InBuffer
    <3> QED
      BY <3>1
  <2>2. [b \in Buffers |-> InBuffer(b)] = [b \in Buffers |-> Held(buf[b].queue)]
    BY <2>1
  <2> QED
    BY <2>2 DEF Total
<1>6. Total' = 0
  <2>1. ASSUME NEW b PROVE Part(b)' = 0
    <3>1. Held(<<>>) = 0
      BY HeldEmpty
    <3> QED
      BY <1>2, <1>4, <3>1 DEF Part, InRec
  <2>2. (Total = Part("normal") + Part("sticky") + Part("nexus"))'
    BY TotalIs, PTL
  <2>3. Part("normal")' = 0 /\ Part("sticky")' = 0 /\ Part("nexus")' = 0
    BY <2>1
  <2> QED
    BY <2>2, <2>3
<1>7. Total \in Nat /\ free \in Nat /\ out \in Nat /\ free' = free + Total
  <2>1. Part("normal") \in Nat /\ Part("sticky") \in Nat /\ Part("nexus") \in Nat
    BY <1>2, PartType
  <2> QED
    BY <1>1, <1>2, <1>5, <2>1, TotalIs DEF PollersType
<1>8. /\ past' \in Past /\ past'.backlogged = past.backlogged
      /\ past'.lost > 0 => past.lost > 0 \/ Shared
  <2> DEFINE At(b) == IF b \in Buffers THEN InQueue(buf[b].queue, {"task"}) ELSE 0
  <2>1. PICK n : n = InAll([b \in Buffers |-> InQueue(buf[b].queue, {"task"})])
    OBVIOUS
  <2>2. n = At("normal") + At("sticky") + At("nexus")
    BY <2>1 DEF InAll
  <2>3. ASSUME NEW b PROVE At(b) \in Nat
    BY <1>3, InRecType
  <2>4. n \in Nat
    <3>1. At("normal") \in Nat /\ At("sticky") \in Nat /\ At("nexus") \in Nat
      BY <2>3
    <3> HIDE DEF At
    <3> QED
      BY <2>2, <3>1
  <2>5. ~Shared => n = 0
    <3> SUFFICES ASSUME ~Shared PROVE n = 0
      OBVIOUS
    <3>1. PICK x \in Buffers : Drained(buf[x])
      BY <1>1, <1>2 DEF StreamInv
    <3>2. Buffers = {x}
      BY <1>2, <3>1, BuffersAre
    <3>3. ASSUME NEW b PROVE At(b) = 0
      BY <3>1, <3>2, HeldEmpty DEF Drained
    <3>4. At("normal") = 0 /\ At("sticky") = 0 /\ At("nexus") = 0
      BY <3>3
    <3> HIDE DEF At
    <3> QED
      BY <2>2, <3>4
  <2>6. past' = [past EXCEPT !.lost = @ + n]
    BY <2>1 DEF StreamOver
  <2>7. PICK m \in Nat : m = past.lost + n
    BY <1>2, <2>4 DEF Past
  <2>8. past' \in Past /\ past'.backlogged = past.backlogged /\ past'.lost = m
    BY <1>2, <2>6, <2>7 DEF Past
  <2>9. past.lost \in Nat
    BY <1>2 DEF Past
  <2> QED
    BY <2>4, <2>5, <2>7, <2>8, <2>9
<1>9. PollersType'
  BY <1>1, <1>2, <1>4, <1>7, <1>8 DEF PollersType
<1>10. BufsInv'
  <2> SUFFICES ASSUME NEW b \in Buffers PROVE BufInv(b, buf[b])'
    BY <1>2 DEF BufsInv
  <2>1. Guarded(b)' = Guarded(b)
    BY <1>1, <1>2, <1>8 DEF Guarded
  <2>2. setup' = setup /\ setup.max \in Nat /\ setup.slots \in Nat
    BY <1>1, <1>2, BuffersAre
  <2> QED
    BY <1>1, <1>3, <1>4, <2>1, <2>2 DEF BufInv
<1>11. StreamInv'
  BY <1>1, <1>2, <1>8 DEF StreamInv
<1>12. ManagerInv'
  BY <1>1 DEF Inv, ManagerInv, manager
<1>13. Slots'
  <2>1. Cardinality(map \cup sending)' = Cardinality(map \cup sending)
    BY DEF manager
  <2>2. PICK c \in Nat : c = Cardinality(map \cup sending)
    <3>1. IsFiniteSet(map \cup sending)
      BY FS_Union DEF Inv, ManagerInv
    <3> QED
      BY <3>1, FS_CardinalityType
  <2>3. free + (out + c) + Total = setup.slots
    BY <2>2 DEF Inv, Slots, Taken
  <2>4. free' + (out + c) + 0 = setup.slots
    BY <1>7, <2>2, <2>3
  <2> QED
    BY <1>1, <1>6, <2>1, <2>2, <2>4 DEF Slots, Taken
<1> QED
  BY <1>9, <1>10, <1>11, <1>12, <1>13 DEF Inv, PollersInv
-----------------------------------------------------------------------------
(* The Nexus manager. *)

\* What a step of the manager may do to the pollers: give back a slot.
LEMMA ManagerKeepsPollers ==
  ASSUME Inv, UNCHANGED <<setup, buf, backlog, shutdown, stream, out>>, free' \in Nat,
         past' \in Past, past'.lost = past.lost, past'.backlogged = past.backlogged
  PROVE  PollersInv'
<1>1. Buffers' = Buffers /\ Shared' = Shared
  BY DEF Buffers, Shared
<1>2. PollersType /\ BufsInv /\ StreamInv
  BY DEF Inv, PollersInv
<1>3. PollersType'
  BY <1>1, <1>2 DEF PollersType
<1>4. BufsInv'
  <2> SUFFICES ASSUME NEW b \in Buffers PROVE BufInv(b, buf[b])'
    BY <1>1 DEF BufsInv
  <2>1. BufInv(b, buf[b])
    BY <1>2 DEF BufsInv
  <2>2. Guarded(b)' = Guarded(b)
    BY <1>1 DEF Guarded
  <2> QED
    BY <2>1, <2>2 DEF BufInv
<1>5. StreamInv'
  BY <1>1, <1>2 DEF StreamInv, Drained
<1> QED
  BY <1>3, <1>4, <1>5 DEF PollersInv

\* The manager's steps that neither take nor complete a task hold no slot.
LEMMA QuietKeeps ==
  ASSUME Inv, UNCHANGED pollers, map' = map, sending' = sending, ManagerInv'
  PROVE  Inv'
<1>1. UNCHANGED <<setup, buf, free, backlog, shutdown, stream, out, past>>
  BY DEF pollers
<1>2. PollersInv'
  <2>1. free \in Nat /\ past \in Past
    BY DEF Inv, PollersInv, PollersType
  <2> QED
    BY <1>1, <2>1, ManagerKeepsPollers
<1>3. Slots'
  <2>1. Total' = Total
    BY <1>1, SameBuffers
  <2>2. Slots
    BY DEF Inv
  <2> QED
    BY <1>1, <2>1, <2>2 DEF Slots, Taken
<1> QED
  BY <1>2, <1>3 DEF Inv

\* What the manager's invariant says, with its parts named.
LEMMA ManagerIs ==
  ASSUME Inv
  PROVE  /\ map \subseteq Tokens /\ IsFiniteSet(map) /\ IsFiniteSet(sending) /\ map \cap sending = {}
         /\ cancels \in Seq(Tokens)
         /\ grace # "off" => stream = "over"
         /\ grace = "fired" => map \subseteq told \cup ToSet(cancels)
         /\ ending = "over" => map = {}
         /\ ended => ending = "over"
BY DEF Inv, ManagerInv

\* A queue loses its head only, and an entry put at its end is in it.
LEMMA ToSetQueue ==
  ASSUME NEW T, NEW q \in Seq(T)
  PROVE  /\ q # <<>> => Tail(q) \in Seq(T) /\ ToSet(q) = {Head(q)} \cup ToSet(Tail(q))
         /\ \A e \in T : Append(q, e) \in Seq(T) /\ ToSet(q) \subseteq ToSet(Append(q, e))
<1>1. ASSUME q # <<>> PROVE Tail(q) \in Seq(T) /\ ToSet(q) = {Head(q)} \cup ToSet(Tail(q))
  <2>1. /\ Len(q) \in Nat /\ Len(q) >= 1 /\ DOMAIN q = 1 .. Len(q) /\ Head(q) = q[1]
        /\ Tail(q) \in Seq(T) /\ DOMAIN Tail(q) = 1 .. (Len(q) - 1)
        /\ \A i \in 1 .. (Len(q) - 1) : Tail(q)[i] = q[i + 1]
    BY <1>1, HeadTailProperties, EmptySeq, LenProperties
  <2>2. ASSUME NEW x \in ToSet(q) PROVE x \in {Head(q)} \cup ToSet(Tail(q))
    <3>1. PICK i \in 1 .. Len(q) : x = q[i]
      BY <2>1 DEF ToSet
    <3>2. CASE i = 1
      BY <2>1, <3>1, <3>2
    <3>3. CASE i # 1
      <4>1. i - 1 \in 1 .. (Len(q) - 1) /\ (i - 1) + 1 = i
        BY <2>1, <3>1, <3>3
      <4>2. Tail(q)[i - 1] = x
        BY <2>1, <3>1, <4>1
      <4> QED
        BY <2>1, <4>1, <4>2 DEF ToSet
    <3> QED
      BY <3>2, <3>3
  <2>3. ASSUME NEW x \in {Head(q)} \cup ToSet(Tail(q)) PROVE x \in ToSet(q)
    <3>1. CASE x = Head(q)
      BY <2>1, <3>1 DEF ToSet
    <3>2. CASE x \in ToSet(Tail(q))
      <4>1. PICK i \in 1 .. (Len(q) - 1) : x = Tail(q)[i]
        BY <2>1, <3>2 DEF ToSet
      <4>2. i + 1 \in 1 .. Len(q) /\ x = q[i + 1]
        BY <2>1, <4>1
      <4> QED
        BY <2>1, <4>2 DEF ToSet
    <3> QED
      BY <3>1, <3>2
  <2> QED
    BY <2>1, <2>2, <2>3
<1>2. ASSUME NEW e \in T PROVE Append(q, e) \in Seq(T) /\ ToSet(q) \subseteq ToSet(Append(q, e))
  BY AppendProperties DEF ToSet
<1> QED
  BY <1>1, <1>2

\* lang is handed a cancel, or the stream's end goes on.
LEMMA ManagerStepInv ==
  ASSUME Inv, ManagerStep
  PROVE  Inv'
<1> USE ManagerIs
<1>1. UNCHANGED pollers /\ map' = map /\ sending' = sending /\ stream' = stream
  BY DEF ManagerStep, NextCancel, SourceDone, EndingChecks, EndingRegisters, GraceEnds, PollShutDown, pollers
<1>2. CASE NextCancel
  <2>1. cancels' = Tail(cancels) /\ cancels # <<>> /\ told' = told \cup ({Head(cancels)} \cap map)
        /\ UNCHANGED <<ending, grace, ended>>
    BY <1>2 DEF NextCancel
  <2>2. Tail(cancels) \in Seq(Tokens) /\ ToSet(cancels) = {Head(cancels)} \cup ToSet(Tail(cancels))
    BY <2>1, ToSetQueue
  <2>3. grace' = "fired" => map' \subseteq told' \cup ToSet(cancels')
    BY <1>1, <2>1, <2>2
  <2>4. ManagerInv'
    BY <1>1, <2>1, <2>2, <2>3 DEF ManagerInv
  <2> QED
    BY <1>1, <2>4, QuietKeeps
<1>3. CASE SourceDone
  <2>1. /\ stream = "over" /\ ending = "not yet" /\ ending' = "check"
        /\ grace' \in {"sleeping", "off"} /\ UNCHANGED <<cancels, told, ended>>
    BY <1>3 DEF SourceDone
  <2>2. ManagerInv'
    BY <1>1, <2>1 DEF ManagerInv
  <2> QED
    BY <1>1, <2>2, QuietKeeps
<1>4. CASE EndingChecks
  <2>1. /\ ending = "check" /\ (ending' = "over" => map = {}) /\ grace' \in {grace, "off"}
        /\ UNCHANGED <<cancels, told, ended>>
    BY <1>4, TokensAssumption DEF EndingChecks
  <2>2. ManagerInv'
    BY <1>1, <2>1 DEF ManagerInv
  <2> QED
    BY <1>1, <2>2, QuietKeeps
<1>5. CASE EndingRegisters
  <2>1. ending = "register" /\ ending' = "waits" /\ UNCHANGED <<cancels, grace, told, ended>>
    BY <1>5 DEF EndingRegisters
  <2>2. ManagerInv'
    BY <1>1, <2>1 DEF ManagerInv
  <2> QED
    BY <1>1, <2>2, QuietKeeps
<1>6. CASE GraceEnds
  <2>1. /\ grace = "sleeping" /\ grace' = "fired" /\ cancels' = cancels \o SetToSeq(map)
        /\ UNCHANGED <<ending, told, ended>>
    BY <1>6 DEF GraceEnds
  <2>2. PICK s : s = SetToSeq(map)
    OBVIOUS
  <2>3. s \in Seq(map) /\ ToSet(s) = map
    BY <2>2, SetToSeqLists
  <2>4. s \in Seq(Tokens)
    BY <2>3, SeqMonotonic
  <2>5. cancels' \in Seq(Tokens) /\ ToSet(s) \subseteq ToSet(cancels')
    <3>1. cancels' = cancels \o s
      BY <2>1, <2>2
    <3>2. /\ cancels \o s \in Seq(Tokens) /\ Len(cancels \o s) = Len(cancels) + Len(s)
          /\ \A i \in 1 .. Len(cancels) + Len(s) :
               (cancels \o s)[i] = IF i <= Len(cancels) THEN cancels[i] ELSE s[i - Len(cancels)]
      BY <2>4, ConcatProperties
    <3>3. ASSUME NEW x \in ToSet(s) PROVE x \in ToSet(cancels \o s)
      <4>1. PICK i \in 1 .. Len(s) : x = s[i]
        BY <2>4 DEF ToSet
      <4>2. PICK j \in 1 .. Len(cancels) + Len(s) : j = i + Len(cancels) /\ ~(j <= Len(cancels)) /\ j - Len(cancels) = i
        BY <2>4, <4>1, LenProperties
      <4>3. (cancels \o s)[j] = x
        BY <3>2, <4>1, <4>2
      <4>4. j \in DOMAIN (cancels \o s)
        BY <3>2, <4>2, LenProperties
      <4> QED
        BY <4>3, <4>4 DEF ToSet
    <3> QED
      BY <3>1, <3>2, <3>3
  <2>6. ManagerInv'
    BY <1>1, <2>1, <2>3, <2>5 DEF ManagerInv
  <2> QED
    BY <1>1, <2>6, QuietKeeps
<1>7. CASE PollShutDown
  <2>1. ending = "over" /\ ended' = TRUE /\ UNCHANGED <<cancels, ending, grace, told>>
    BY <1>7 DEF PollShutDown
  <2>2. ManagerInv'
    BY <1>1, <2>1 DEF ManagerInv
  <2> QED
    BY <1>1, <2>2, QuietKeeps
<1> QED
  BY <1>2, <1>3, <1>4, <1>5, <1>6, <1>7 DEF ManagerStep

\* A timeout puts a cancel into the channel.
LEMMA TimesOutInv ==
  ASSUME Inv, NEW tt \in Tokens, TimesOut(tt)
  PROVE  Inv'
<1> USE ManagerIs
<1>1. /\ UNCHANGED pollers /\ cancels' = Append(cancels, tt)
      /\ UNCHANGED <<map, sending, ending, grace, told, ended>>
  BY DEF TimesOut
<1>2. cancels' \in Seq(Tokens) /\ ToSet(cancels) \subseteq ToSet(cancels')
  BY <1>1, ToSetQueue
<1>3. ManagerInv'
  BY <1>1, <1>2 DEF ManagerInv, pollers
<1> QED
  BY <1>1, <1>3, QuietKeeps
\* A completion is sent: the slot stays with it.
LEMMA CompleteInv ==
  ASSUME Inv, NEW tt \in Tokens, Complete(tt)
  PROVE  Inv'
<1> USE ManagerIs
<1>1. /\ UNCHANGED pollers /\ UNCHANGED <<cancels, ending, grace, ended>>
      /\ tt \in map /\ map' = map \ {tt} /\ told' = told \ {tt} /\ sending' = sending \cup {tt}
  BY DEF Complete, Removed
<1>2. UNCHANGED <<setup, buf, free, backlog, shutdown, stream, out, past>>
  BY <1>1 DEF pollers
<1>3. PollersInv'
  <2>1. free \in Nat /\ past \in Past
    BY DEF Inv, PollersInv, PollersType
  <2> QED
    BY <1>2, <2>1, ManagerKeepsPollers
<1>4. ManagerInv'
  <2>1. IsFiniteSet(map') /\ IsFiniteSet(sending')
    BY <1>1, FS_AddElement, FS_RemoveElement
  <2> QED
    BY <1>1, <1>2, <2>1 DEF ManagerInv
<1>5. Slots'
  <2>1. map' \cup sending' = map \cup sending
    BY <1>1
  <2>2. Total' = Total
    BY <1>2, SameBuffers
  <2> QED
    BY <1>2, <2>1, <2>2 DEF Inv, Slots, Taken
<1> QED
  BY <1>3, <1>4, <1>5 DEF Inv

\* A task that holds no slot any more gives it back.
LEMMA SlotGoesBack ==
  ASSUME Inv, UNCHANGED <<setup, buf, out>>, free' = free + 1, NEW tt, tt \in map \cup sending,
         map' \cup sending' = (map \cup sending) \ {tt}
  PROVE  free' \in Nat /\ Slots'
<1>1. /\ Total' = Total /\ Total \in Nat /\ free \in Nat /\ out \in Nat
      /\ IsFiniteSet(map \cup sending) /\ Cardinality(map \cup sending) \in Nat
      /\ free + (out + Cardinality(map \cup sending)) + Total = setup.slots
  BY SameBuffers
<1>2. Cardinality((map \cup sending) \ {tt}) = Cardinality(map \cup sending) - 1
      /\ IsFiniteSet((map \cup sending) \ {tt})
  BY <1>1, FS_RemoveElement
<1>3. PICK c \in Nat : c = Cardinality((map \cup sending) \ {tt})
  BY <1>2, FS_CardinalityType
<1>4. Cardinality(map \cup sending) = c + 1
  BY <1>1, <1>2, <1>3
<1>5. (free + 1) + (out + c) + Total = setup.slots
  BY <1>1, <1>3, <1>4
<1>6. Cardinality(map' \cup sending') = c
  BY <1>3
<1>7. free' + (out' + c) + Total' = setup'.slots /\ free' \in Nat
  BY <1>1, <1>5
<1> QED
  BY <1>6, <1>7 DEF Slots, Taken

\* A malformed completion gives back the slot at once.
LEMMA CompleteMalformedInv ==
  ASSUME Inv, NEW tt \in Tokens, CompleteMalformed(tt)
  PROVE  Inv'
<1> USE ManagerIs
<1>1. /\ UNCHANGED <<setup, buf, backlog, shutdown, stream, out, sending, cancels, ending, grace, ended>>
      /\ tt \in map /\ map' = map \ {tt} /\ told' = told \ {tt} /\ free' = free + 1
  BY DEF CompleteMalformed, Removed
<1>2. PICK v \in BOOLEAN : past' = [past EXCEPT !.missed = v]
  <2>1. PICK w \in BOOLEAN : w = (past.missed \/ (map' = {} /\ ending \in {"register", "waits"}))
    OBVIOUS
  <2> QED
    BY <2>1 DEF CompleteMalformed
<1>3. past' \in Past /\ past'.lost = past.lost /\ past'.backlogged = past.backlogged
  <2>1. past \in Past
    BY DEF Inv, PollersInv, PollersType
  <2> QED
    BY <1>2, <2>1 DEF Past
<1>4. free' \in Nat /\ Slots'
  <2>1. map' \cup sending' = (map \cup sending) \ {tt} /\ tt \in map \cup sending
    BY <1>1
  <2> QED
    BY <1>1, <2>1, SlotGoesBack
<1>5. PollersInv'
  BY <1>1, <1>3, <1>4, ManagerKeepsPollers
<1>6. ManagerInv'
  <2>1. IsFiniteSet(map')
    BY <1>1, FS_RemoveElement
  <2> QED
    BY <1>1, <2>1 DEF ManagerInv
<1> QED
  BY <1>4, <1>5, <1>6 DEF Inv

\* The answer has been sent: its slot is free, and the stream's end is woken.
LEMMA CompleteReturnsInv ==
  ASSUME Inv, NEW tt \in Tokens, CompleteReturns(tt)
  PROVE  Inv'
<1> USE ManagerIs
<1>1. /\ UNCHANGED <<setup, buf, backlog, shutdown, stream, out, map, cancels, grace, told, ended>>
      /\ tt \in sending /\ sending' = sending \ {tt} /\ free' = free + 1 /\ ending' = Notified
  BY DEF CompleteReturns
<1>2. PICK v \in BOOLEAN : past' = [past EXCEPT !.missed = v]
  <2>1. PICK w \in BOOLEAN : w = (past.missed \/ (map = {} /\ ending = "register"))
    OBVIOUS
  <2> QED
    BY <2>1 DEF CompleteReturns
<1>3. past' \in Past /\ past'.lost = past.lost /\ past'.backlogged = past.backlogged
  <2>1. past \in Past
    BY DEF Inv, PollersInv, PollersType
  <2> QED
    BY <1>2, <2>1 DEF Past
<1>4. free' \in Nat /\ Slots'
  <2>1. map' \cup sending' = (map \cup sending) \ {tt} /\ tt \in map \cup sending
    BY <1>1
  <2> QED
    BY <1>1, <2>1, SlotGoesBack
<1>5. PollersInv'
  BY <1>1, <1>3, <1>4, ManagerKeepsPollers
<1>6. ManagerInv'
  <2>1. IsFiniteSet(sending')
    BY <1>1, FS_RemoveElement
  <2>2. ending' = "over" <=> ending = "over"
    BY <1>1 DEF Notified
  <2> QED
    BY <1>1, <2>1, <2>2 DEF ManagerInv
<1> QED
  BY <1>4, <1>5, <1>6 DEF Inv

\* A Nexus task takes its slot from the buffer into the map.
LEMMA NextTaskInv ==
  ASSUME Inv, NEW tt \in Tokens, NextTask(tt)
  PROVE  Inv'
<1> USE ManagerIs
<1>1. /\ ending # "over" /\ tt \notin map \cup sending /\ map' = map \cup {tt}
      /\ UNCHANGED <<out, sending, cancels, ending, grace, told, ended>>
  BY DEF NextTask, Streaming, Fresh
<1>2. PICK b \in Buffers : TakeTask(b)
  BY DEF NextTask
<1>3. stream = "open" /\ UNCHANGED <<setup, free, stream>>
  BY <1>2 DEF TakeTask, Head1
<1>4. PICK r : Keeps(b, r) /\ InRec(r) \in Nat /\ InRec(buf[b]) = InRec(r) + 1
  <2>1. out' \in Nat
    BY <1>1 DEF Inv, PollersInv, PollersType
  <2> QED
    BY <1>2, <2>1, TakeTaskKeeps
<1>5. /\ PollersInv' /\ Total' \in Nat /\ Total \in Nat
      /\ Total' + InRec(buf[b]) = Total + InRec(r)
  BY <1>4, KeepsPollers DEF Inv
<1>6. Total = Total' + 1
  <2>1. PICK t : t = Total'
    OBVIOUS
  <2>2. PICK k : k = InRec(r)
    OBVIOUS
  <2>3. t \in Nat /\ k \in Nat /\ Total \in Nat /\ t + (k + 1) = Total + k
    BY <1>4, <1>5, <2>1, <2>2
  <2>4. t + 1 = Total
    BY <2>3
  <2> QED
    BY <2>1, <2>4
<1>7. ManagerInv'
  <2>1. IsFiniteSet(map')
    BY <1>1, FS_AddElement
  <2> QED
    BY <1>1, <1>3, <2>1 DEF ManagerInv
<1>8. Slots'
  <2>1. IsFiniteSet(map \cup sending)
    BY FS_Union
  <2>2. map' \cup sending' = (map \cup sending) \cup {tt}
    BY <1>1
  <2>3. PICK c \in Nat : c = Cardinality(map \cup sending)
    BY <2>1, FS_CardinalityType
  <2>4. Cardinality((map \cup sending) \cup {tt}) = c + 1
    BY <1>1, <2>1, <2>3, FS_AddElement
  <2>5. free + (out + c) + Total = setup.slots /\ free \in Nat /\ out \in Nat
    BY <2>3 DEF Inv, Slots, Taken, PollersInv, PollersType
  <2>6. PICK t \in Nat : t = Total' /\ Total = t + 1
    BY <1>5, <1>6
  <2>7. free + (out + (c + 1)) + t = setup.slots
    BY <2>3, <2>5, <2>6
  <2> QED
    BY <1>1, <1>3, <2>2, <2>4, <2>6, <2>7 DEF Slots, Taken
<1> QED
  BY <1>5, <1>7, <1>8 DEF Inv

-----------------------------------------------------------------------------
(* The theorems. *)

\* The first state satisfies the invariant.
LEMMA InitInv == Init => Inv
<1> SUFFICES ASSUME Init PROVE Inv
  OBVIOUS
<1>1. /\ setup \in Setups /\ buf = [b \in Buffers |-> NewBuffer(setup)]
      /\ free = setup.slots /\ backlog = 0 /\ shutdown = FALSE /\ stream = "idle" /\ out = 0
      /\ past = [lost |-> 0, backlogged |-> FALSE, missed |-> FALSE]
      /\ map = {} /\ sending = {} /\ cancels = <<>> /\ ending = "not yet" /\ grace = "off" /\ ended = FALSE
  BY DEF Init, PollersInit
<1>2. /\ setup.slots \in Nat \ {0} /\ setup.min \in Nat /\ setup.max \in Nat
      /\ setup.initial \in setup.min .. setup.max /\ 1 <= setup.min
  BY <1>1, BuffersAre
<1>3. ASSUME NEW b \in Buffers
      PROVE  /\ buf[b] \in Buf /\ buf[b].loop = "idle" /\ buf[b].polling = 0 /\ buf[b].returned = 0
             /\ buf[b].queue = <<>> /\ buf[b].target = setup.initial
  <2>1. buf[b] = NewBuffer(setup)
    BY <1>1
  <2>2. setup.initial \in Nat
    BY <1>2
  <2> QED
    BY <2>1, <2>2, HeldEmpty DEF NewBuffer, Buf, Loops
<1>4. PollersType
  <2>1. buf \in [Buffers -> Buf]
    BY <1>1, <1>3
  <2> QED
    BY <1>1, <1>2, <2>1 DEF PollersType, Past
<1>5. BufsInv
  <2> SUFFICES ASSUME NEW b \in Buffers PROVE BufInv(b, buf[b])
    BY DEF BufsInv
  <2>1. stream # "over"
    BY <1>1
  <2>2. 0 <= setup.max /\ 0 < setup.slots
    BY <1>2
  <2> QED
    BY <1>2, <1>3, <2>1, <2>2 DEF BufInv
<1>6. StreamInv
  <2>1. stream = "idle" /\ backlog = 0 /\ past.lost = 0
    BY <1>1
  <2> QED
    BY <2>1 DEF StreamInv
<1>7. ManagerInv
  <2>1. map = {} /\ sending = {} /\ cancels = <<>> /\ grace = "off" /\ ~ended
    BY <1>1
  <2> QED
    BY <2>1, FS_EmptySet DEF ManagerInv
<1>8. Slots
  <2>1. ASSUME NEW b PROVE Part(b) = 0
    BY <1>3, HeldEmpty DEF Part, InRec
  <2>2. Part("normal") = 0 /\ Part("sticky") = 0 /\ Part("nexus") = 0
    BY <2>1
  <2>3. Total = 0
    BY <2>2, TotalIs
  <2>4. map \cup sending = {} /\ Cardinality({}) = 0
    BY <1>1, FS_EmptySet
  <2>5. free = setup.slots /\ out = 0 /\ free \in Nat
    BY <1>1, <1>2
  <2>6. Cardinality(map \cup sending) = 0
    BY <2>4
  <2>7. Taken = 0 /\ free + 0 + 0 = setup.slots
    BY <2>5, <2>6 DEF Taken
  <2> QED
    BY <2>3, <2>7 DEF Slots
<1> QED
  BY <1>4, <1>5, <1>6, <1>7, <1>8 DEF Inv, PollersInv

\* Every step keeps the invariant.
LEMMA NextInv == Inv /\ [Next]_vars => Inv'
<1> SUFFICES ASSUME Inv, [Next]_vars PROVE Inv'
  OBVIOUS
<1>1. ASSUME NEW b \in Buffers, Workflow(b) PROVE Inv'
  <2>1. UNCHANGED manager
    BY <1>1 DEF Workflow
  <2>2. CASE BufferStep(b)
    BY <2>1, <2>2, LoopGoesInv, LoopPermitInv, LoopAcquireInv, LoopAllowInv, LoopBreaksInv, LoopEndsInv,
       PollEndsInv, TickInv, ReportInv, TakeNothingInv, TakeErrorInv DEF BufferStep
  <2>3. CASE TakeWorkflowTask(b)
    BY <2>1, <2>3, TakeWorkflowTaskInv
  <2> QED
    BY <1>1, <2>2, <2>3 DEF Workflow
<1>2. CASE (StreamStep \/ WorkflowTaskDone) /\ UNCHANGED manager
  BY <1>2, StreamGoesInv, StreamOverInv DEF StreamStep
<1>3. CASE ManagerStep
  BY <1>3, ManagerStepInv
<1>4. ASSUME NEW tt \in Tokens,
             NextTask(tt) \/ TimesOut(tt) \/ Complete(tt) \/ CompleteMalformed(tt) \/ CompleteReturns(tt)
      PROVE  Inv'
  BY <1>4, NextTaskInv, TimesOutInv, CompleteInv, CompleteMalformedInv, CompleteReturnsInv
<1>5. CASE UNCHANGED vars
  <2>1. UNCHANGED pollers /\ UNCHANGED manager
    BY <1>5 DEF vars
  <2>2. ManagerInv'
    BY <2>1 DEF Inv, ManagerInv, manager, pollers
  <2> QED
    BY <2>1, <2>2, QuietKeeps DEF manager
<1> QED
  BY <1>1, <1>2, <1>3, <1>4, <1>5 DEF Next, Stopped

\* The inductive invariant of the pollers and the Nexus manager.
THEOREM PollersInvariant == Spec => []Inv
BY InitInv, NextInv, PTL DEF Spec

\* PollingSafe holds in every state: slots are conserved on every path of a
\* poll, an answer and a task through LongPollBuffer, the streams and
\* NexusManager; the scaler stays within its bounds; neither queue of a worker
\* takes every slot, but the sticky one after a backlog; a received task is
\* only lost with two buffers at shutdown; and after the grace period every
\* outstanding Nexus task has been or will be told of its cancellation.
THEOREM PollingIsSafe == Spec => []PollingSafe
<1>1. Inv => PollingSafe
  <2> SUFFICES ASSUME Inv PROVE PollingSafe
    OBVIOUS
  <2>1. SlotsConserved(out + Cardinality(map \cup sending))
    BY DEF Inv, Slots, Taken, SlotsConserved, Total
  <2>2. ScalesWithin
    BY DEF Inv, PollersInv, BufsInv, BufInv, ScalesWithin
  <2>3. BothKindsPoll
    <3> SUFFICES ASSUME Shared, setup.slots > 1
                 PROVE  /\ buf["normal"].polling < setup.slots
                        /\ buf["sticky"].polling < setup.slots \/ past.backlogged
      BY DEF BothKindsPoll
    <3>1. "normal" \in Buffers /\ "sticky" \in Buffers
      BY BuffersAre DEF Inv, PollersInv, PollersType
    <3>2. BufInv("normal", buf["normal"]) /\ BufInv("sticky", buf["sticky"])
      BY <3>1 DEF Inv, PollersInv, BufsInv
    <3> QED
      BY <3>2 DEF BufInv, Guarded
  <2>4. NoTaskLost
    BY DEF Inv, PollersInv, StreamInv, NoTaskLost
  <2>5. CancelsReachLang
    BY ManagerIs DEF CancelsReachLang
  <2> QED
    BY <2>1, <2>2, <2>3, <2>4, <2>5 DEF PollingSafe
<1> QED
  BY <1>1, PollersInvariant, PTL
=============================================================================
