----------------------- MODULE LocalActivitiesProofs -----------------------
(***************************************************************************)
(* Proofs about LocalActivities, for any set of activities, any retry      *)
(* policies and timeouts and any number of slots.  Inv counts the copies   *)
(* of each activity (queued, backing off, outstanding) and ties them to    *)
(* its entry in la_info.                                                   *)
(***************************************************************************)
EXTENDS LocalActivities, SequenceTheorems, FiniteSetTheorems, TLAPS

----------------------------------------------------------------------------
(* How many members of a kind are in a queue or in a set.  The lemmas say  *)
(* what each change does to the count: conservation is then arithmetic.    *)

\* The positions of q that hold a member of S, and how many there are.
Where(q, S) == {i \in DOMAIN q : q[i] \in S}
Count(q, S) == Cardinality(Where(q, S))

\* The positions are finitely many: their number is a natural number.
LEMMA CountType ==
  ASSUME NEW T, NEW S, NEW q \in Seq(T)
  PROVE  IsFiniteSet(Where(q, S)) /\ Count(q, S) \in Nat
<1>1. IsFiniteSet(1..Len(q))
  BY FS_Interval
<1>2. Where(q, S) \in SUBSET (1..Len(q))
  BY DEF Where
<1>3. IsFiniteSet(Where(q, S))
  BY <1>1, <1>2, FS_Subset, Zenon
<1> QED
  BY <1>3, FS_CardinalityType DEF Count

\* An empty queue holds nothing.
LEMMA CountEmpty ==
  ASSUME NEW S
  PROVE  Where(<<>>, S) = {} /\ Count(<<>>, S) = 0
<1>1. Where(<<>>, S) = {}
  BY DEF Where
<1> QED
  BY <1>1, FS_EmptySet DEF Count

\* A message at the tail adds one when it is of the kind.
LEMMA CountAppend ==
  ASSUME NEW T, NEW S, NEW q \in Seq(T), NEW e \in T
  PROVE  Count(Append(q, e), S) = Count(q, S) + (IF e \in S THEN 1 ELSE 0)
<1> DEFINE n == Len(q) + 1
<1>1. IsFiniteSet(Where(q, S)) /\ Count(q, S) \in Nat
  BY CountType
<1>2. n \notin Where(q, S)
  BY DEF Where
<1>3. Where(Append(q, e), S) = Where(q, S) \cup (IF e \in S THEN {n} ELSE {})
  BY AppendProperties DEF Where
<1>4. CASE e \in S
  <2>1. Where(Append(q, e), S) = Where(q, S) \cup {n}
    BY <1>3, <1>4
  <2>2. Cardinality(Where(q, S) \cup {n}) = Cardinality(Where(q, S)) + 1
    BY <1>1, <1>2, FS_AddElement, Zenon
  <2> QED
    BY <1>4, <2>1, <2>2 DEF Count
<1>5. CASE e \notin S
  <2>1. Where(Append(q, e), S) = Where(q, S)
    BY <1>3, <1>5
  <2> QED
    BY <1>1, <1>5, <2>1 DEF Count
<1> QED
  BY <1>4, <1>5

\* The message taken from the head takes one off when it is of the kind.
LEMMA CountTail ==
  ASSUME NEW T, NEW S, NEW q \in Seq(T), q # <<>>
  PROVE  Count(q, S) = Count(Tail(q), S) + (IF Head(q) \in S THEN 1 ELSE 0)
<1> DEFINE A == Where(Tail(q), S)
           B == Where(q, S) \ {1}
           f == [i \in A |-> i + 1]
<1>1. Tail(q) \in Seq(T) /\ Len(Tail(q)) = Len(q) - 1
      /\ \A i \in 1..Len(Tail(q)) : Tail(q)[i] = q[i + 1]
  BY HeadTailProperties
<1>2. Head(q) = q[1] /\ Len(q) \in Nat /\ Len(q) > 0 /\ DOMAIN q = 1..Len(q)
  BY HeadTailProperties, EmptySeq, LenProperties
<1>3. A \subseteq 1..(Len(q) - 1) /\ DOMAIN Tail(q) = 1..(Len(q) - 1)
  BY <1>1 DEF Where
<1>4. f \in [A -> B]
  <2>1. ASSUME NEW i \in A PROVE i + 1 \in B
    BY <1>1, <1>2, <1>3 DEF Where
  <2> QED
    BY <2>1
<1>5. \A i, j \in A : f[i] = f[j] => i = j
  BY <1>3
<1>6. ASSUME NEW j \in B PROVE \E i \in A : f[i] = j
  <2>1. j \in 2..Len(q) /\ q[j] \in S
    BY <1>2 DEF Where
  <2>2. j - 1 \in 1..(Len(q) - 1) /\ Tail(q)[j - 1] = q[j]
    BY <1>1, <1>2, <2>1
  <2>3. j - 1 \in A
    BY <1>3, <2>1, <2>2 DEF Where
  <2> QED
    BY <1>2, <2>1, <2>3
<1>7. f \in Bijection(A, B)
  <2> HIDE DEF A, B, f
  <2> QED
    BY <1>4, <1>5, <1>6, Zenon DEF Bijection, Injection, Surjection, IsInjective
<1>8. IsFiniteSet(A) /\ Cardinality(A) \in Nat
  BY <1>1, CountType DEF Count
<1>9. Cardinality(B) = Cardinality(A)
  BY <1>7, <1>8, FS_Bijection, Zenon DEF ExistsBijection
<1>10. IsFiniteSet(Where(q, S)) /\ Cardinality(Where(q, S)) \in Nat
  BY CountType DEF Count
<1>11. Cardinality(B) = IF 1 \in Where(q, S) THEN Cardinality(Where(q, S)) - 1
                                             ELSE Cardinality(Where(q, S))
  BY <1>10, FS_RemoveElement
<1>12. 1 \in Where(q, S) <=> Head(q) \in S
  BY <1>2 DEF Where
<1> QED
  BY <1>8, <1>9, <1>10, <1>11, <1>12 DEF Count

\* The number of members of S that are of the kind K.
SetCount(S, K) == Cardinality(S \cap K)

\* It is a natural number, zero when no member is of the kind.
LEMMA SetCountType ==
  ASSUME NEW S, IsFiniteSet(S), NEW K
  PROVE  /\ IsFiniteSet(S \cap K) /\ SetCount(S, K) \in Nat
         /\ SetCount(S, K) = 0 <=> \A x \in S : x \notin K
<1>1. IsFiniteSet(S \cap K)
  BY FS_Intersection
<1>2. SetCount(S, K) = 0 <=> S \cap K = {}
  BY <1>1, FS_EmptySet DEF SetCount
<1> QED
  BY <1>1, <1>2, FS_CardinalityType DEF SetCount

\* A new member adds one when it is of the kind.
LEMMA SetCountAdd ==
  ASSUME NEW S, IsFiniteSet(S), NEW K, NEW x, x \notin S
  PROVE  /\ IsFiniteSet(S \cup {x})
         /\ SetCount(S \cup {x}, K) = SetCount(S, K) + (IF x \in K THEN 1 ELSE 0)
<1>1. IsFiniteSet(S \cap K) /\ SetCount(S, K) \in Nat
  BY SetCountType
<1>2. CASE x \in K
  <2>1. (S \cup {x}) \cap K = (S \cap K) \cup {x}
    BY <1>2
  <2> QED
    BY <1>1, <1>2, <2>1, FS_AddElement DEF SetCount
<1>3. CASE x \notin K
  <2>1. (S \cup {x}) \cap K = S \cap K
    BY <1>3
  <2>2. IsFiniteSet(S \cup {x})
    BY FS_AddElement
  <2>3. SetCount(S \cup {x}, K) = SetCount(S, K)
    BY <2>1 DEF SetCount
  <2> QED
    BY <1>1, <1>3, <2>2, <2>3
<1> QED
  BY <1>2, <1>3

\* A member that leaves takes one off when it is of the kind.
LEMMA SetCountRemove ==
  ASSUME NEW S, IsFiniteSet(S), NEW K, NEW x \in S
  PROVE  /\ IsFiniteSet(S \ {x})
         /\ SetCount(S, K) = SetCount(S \ {x}, K) + (IF x \in K THEN 1 ELSE 0)
<1>1. IsFiniteSet(S \ {x})
  BY FS_RemoveElement
<1>2. (S \ {x}) \cup {x} = S
  OBVIOUS
<1>3. SetCount((S \ {x}) \cup {x}, K) = SetCount(S \ {x}, K) + (IF x \in K THEN 1 ELSE 0)
  BY <1>1, SetCountAdd
<1> QED
  BY <1>1, <1>2, <1>3

----------------------------------------------------------------------------
TokenSet == LAs \X Nat
Attempts == {b \in LAs \X Nat : b[2] \in 1 .. MaxAttempts[b[1]]}
Tasks == {t \in TokenSet \X Nat : t[2] \in 1 .. MaxAttempts[t[1][1]]}
TimeoutTypes == {"ScheduleToClose", "StartToClose"}
CancelReqs == ({"cancel"} \X TokenSet) \cup ({"timeout"} \X LAs \X TimeoutTypes)
Polls == {<<"out">>, <<"in">>} \cup ({"timedout"} \X TokenSet \X TimeoutTypes)
Infos == [on : BOOLEAN, tt : Nat, back : BOOLEAN, s2c : BOOLEAN, stc : BOOLEAN]
PastType == [reported : SUBSET LAs, ignored : SUBSET LAs, quiet : BOOLEAN,
             panics : SUBSET STRING, evictions : Nat]

\* The shape of the state: what TypeOK says of tokens, requests and tasks, and
\* what it leaves to the code, that the messages are well formed.
Shape ==
  /\ wf \in [LAs -> {"never", "idle", "waiting", "cancelling", "done"}]
  /\ info \in [LAs -> Infos]
  /\ gen \in [LAs -> Nat] /\ stale \in [LAs -> Nat]
  /\ outstanding \subseteq Tasks /\ IsFiniteSet(outstanding)
  /\ backoffs \subseteq Attempts /\ IsFiniteSet(backoffs)
  /\ queue \in Seq(Attempts) /\ cancels \in Seq(CancelReqs)
  /\ poll \in Polls
  /\ free \in Nat /\ held \in 0 .. 1
  /\ flags \subseteq {"initiated", "workflows", "complete", "polled out"}
  /\ waiter \in {"none", "look", "asleep", "lock", "finished"}
  /\ notified \in BOOLEAN
  /\ past \in PastType

Slots == free + held + Cardinality(outstanding) = Permits

\* The copies of an activity in the queue, backing off and outstanding.
AttemptsOf(la) == {b \in Attempts : b[1] = la}
TasksOf(la) == {t \in Tasks : t[1][1] = la}
NrQueued(la) == Count(queue, AttemptsOf(la))
NrBackoffs(la) == SetCount(backoffs, AttemptsOf(la))
NrOut(la) == SetCount(outstanding, TasksOf(la))
Nr(la) == NrQueued(la) + NrBackoffs(la) + NrOut(la)

\* An activity without an entry has no copy, one with an entry at most one; the
\* copy of one that backs off is not outstanding; what is reported has no copy
\* and what is waited for has one.
EntryInv(la) ==
  /\ Nr(la) <= IF info[la].on THEN 1 ELSE 0
  /\ info[la].back => NrOut(la) = 0
  /\ la \in past.reported => Nr(la) = 0
  /\ Waiting(la) /\ waiter # "finished" => Nr(la) = 1 \/ la \in past.ignored

\* What is outstanding carries the token of its entry.
TokensInv == \A t \in outstanding : info[t[1][1]].tt = t[1][2]

Inv ==
  /\ Shape
  /\ Slots
  /\ \A la \in LAs : EntryInv(la)
  /\ TokensInv
  /\ past.panics = {}

----------------------------------------------------------------------------
(* What the elementary changes do to the counts.                           *)

\* Counts are natural numbers.
LEMMA NrType ==
  ASSUME Shape, NEW la \in LAs
  PROVE  NrQueued(la) \in Nat /\ NrBackoffs(la) \in Nat /\ NrOut(la) \in Nat /\ Nr(la) \in Nat
<1>1. NrQueued(la) \in Nat
  BY CountType DEF Shape, NrQueued
<1>2. NrBackoffs(la) \in Nat /\ NrOut(la) \in Nat
  BY SetCountType DEF Shape, NrBackoffs, NrOut
<1> QED
  BY <1>1, <1>2 DEF Nr

\* So are the numbers of slots.
LEMMA SlotTypes ==
  ASSUME Shape
  PROVE  free \in Nat /\ held \in Nat /\ held \in 0 .. 1 /\ Cardinality(outstanding) \in Nat
<1>1. free \in Nat /\ held \in 0 .. 1 /\ IsFiniteSet(outstanding)
  BY Zenon DEF Shape
<1> QED
  BY <1>1, FS_CardinalityType

\* The copies the properties count are those of Nr.
LEMMA CopiesIsNr ==
  ASSUME Shape, NEW la \in LAs
  PROVE  Copies(la) = Nr(la)
<1>1. {i \in DOMAIN queue : queue[i][1] = la} = Where(queue, AttemptsOf(la))
  <2>1. queue \in Seq(Attempts)
    BY DEF Shape
  <2>2. \A i \in DOMAIN queue : queue[i] \in Attempts
    BY <2>1
  <2> QED
    BY <2>2 DEF Where, AttemptsOf
<1>2. {b \in backoffs : b[1] = la} = backoffs \cap AttemptsOf(la)
  BY DEF Shape, AttemptsOf
<1>3. {t \in outstanding : t[1][1] = la} = outstanding \cap TasksOf(la)
  BY DEF Shape, TasksOf
<1> QED
  BY <1>1, <1>2, <1>3 DEF Copies, Nr, NrQueued, NrBackoffs, NrOut, Count, SetCount

\* A request that is sent is one more of its activity in the queue, unless the
\* stream is gone.
LEMMA SendFacts ==
  ASSUME Shape, NEW b \in Attempts, queue' = Sent(queue, <<b>>)
  PROVE  /\ queue' \in Seq(Attempts)
         /\ \A la \in LAs : NrQueued(la)' = NrQueued(la)
                              + (IF waiter # "finished" /\ la = b[1] THEN 1 ELSE 0)
<1>1. CASE waiter = "finished"
  <2>1. queue' = queue
    BY <1>1 DEF Sent
  <2>2. \A la \in LAs : NrQueued(la)' = NrQueued(la) /\ NrQueued(la) \in Nat
    BY <2>1, NrType DEF NrQueued, AttemptsOf
  <2>3. queue \in Seq(Attempts)
    BY DEF Shape
  <2> QED
    BY <1>1, <2>1, <2>2, <2>3
<1>2. CASE waiter # "finished"
  <2>1. queue' = Append(queue, b) /\ queue \in Seq(Attempts)
    BY <1>2, AppendIsConcat DEF Sent, Shape
  <2>2. ASSUME NEW la \in LAs
        PROVE  NrQueued(la)' = NrQueued(la) + (IF la = b[1] THEN 1 ELSE 0)
    <3>1. b \in AttemptsOf(la) <=> la = b[1]
      BY DEF AttemptsOf
    <3>2. NrQueued(la)' = Count(queue', AttemptsOf(la))
      BY DEF NrQueued, AttemptsOf
    <3>3. Count(Append(queue, b), AttemptsOf(la))
            = Count(queue, AttemptsOf(la)) + (IF b \in AttemptsOf(la) THEN 1 ELSE 0)
      BY <2>1, CountAppend
    <3> QED
      BY <2>1, <3>1, <3>2, <3>3 DEF NrQueued
  <2> QED
    BY <1>2, <2>1, <2>2, AppendProperties
<1> QED
  BY <1>1, <1>2

\* A request that is taken is one less of its activity in the queue.
LEMMA TakeFacts ==
  ASSUME Shape, queue # <<>>, queue' = Tail(queue)
  PROVE  /\ Head(queue) \in Attempts /\ queue' \in Seq(Attempts)
         /\ \A la \in LAs : NrQueued(la) = NrQueued(la)' + (IF la = Head(queue)[1] THEN 1 ELSE 0)
<1>1. queue \in Seq(Attempts) /\ Head(queue) \in Attempts /\ queue' \in Seq(Attempts)
  BY HeadTailProperties DEF Shape
<1>2. ASSUME NEW la \in LAs
      PROVE  NrQueued(la) = NrQueued(la)' + (IF la = Head(queue)[1] THEN 1 ELSE 0)
  <2>1. Head(queue) \in AttemptsOf(la) <=> la = Head(queue)[1]
    BY <1>1 DEF AttemptsOf
  <2>2. NrQueued(la)' = Count(queue', AttemptsOf(la))
    BY DEF NrQueued, AttemptsOf
  <2> QED
    BY <1>1, <2>1, <2>2, CountTail DEF NrQueued
<1> QED
  BY <1>1, <1>2

\* A backoff that elapses is one less of its activity.
LEMMA BackoffGone ==
  ASSUME Shape, NEW b \in backoffs, backoffs' = backoffs \ {b}
  PROVE  /\ backoffs' \subseteq Attempts /\ IsFiniteSet(backoffs')
         /\ \A la \in LAs : NrBackoffs(la) = NrBackoffs(la)' + (IF la = b[1] THEN 1 ELSE 0)
<1>1. backoffs \subseteq Attempts /\ IsFiniteSet(backoffs)
  BY DEF Shape
<1>2. ASSUME NEW la \in LAs
      PROVE  /\ IsFiniteSet(backoffs')
             /\ NrBackoffs(la) = NrBackoffs(la)' + (IF la = b[1] THEN 1 ELSE 0)
  <2>1. b \in AttemptsOf(la) <=> la = b[1]
    BY <1>1 DEF AttemptsOf
  <2>2. NrBackoffs(la)' = SetCount(backoffs', AttemptsOf(la))
    BY DEF NrBackoffs, AttemptsOf
  <2> QED
    BY <1>1, <2>1, <2>2, SetCountRemove DEF NrBackoffs
<1> QED
  BY <1>1, <1>2, FS_RemoveElement

\* A new backoff is one more of its activity.
LEMMA BackoffNew ==
  ASSUME Shape, NEW b \in Attempts, b \notin backoffs, backoffs' = backoffs \cup {b}
  PROVE  /\ backoffs' \subseteq Attempts /\ IsFiniteSet(backoffs')
         /\ \A la \in LAs : NrBackoffs(la)' = NrBackoffs(la) + (IF la = b[1] THEN 1 ELSE 0)
<1>1. backoffs \subseteq Attempts /\ IsFiniteSet(backoffs)
  BY DEF Shape
<1>2. ASSUME NEW la \in LAs
      PROVE  NrBackoffs(la)' = NrBackoffs(la) + (IF la = b[1] THEN 1 ELSE 0)
  <2>1. b \in AttemptsOf(la) <=> la = b[1]
    BY <1>1 DEF AttemptsOf
  <2>2. NrBackoffs(la)' = SetCount(backoffs', AttemptsOf(la))
    BY DEF NrBackoffs, AttemptsOf
  <2> QED
    BY <1>1, <2>1, <2>2, SetCountAdd DEF NrBackoffs
<1> QED
  BY <1>1, <1>2, FS_AddElement

\* A task that is completed is one less of its activity, and of all.
LEMMA TaskGone ==
  ASSUME Shape, NEW t \in outstanding, outstanding' = outstanding \ {t}
  PROVE  /\ outstanding' \subseteq Tasks /\ IsFiniteSet(outstanding')
         /\ Cardinality(outstanding) \in Nat /\ Cardinality(outstanding) > 0
         /\ Cardinality(outstanding') = Cardinality(outstanding) - 1
         /\ \A la \in LAs : NrOut(la) = NrOut(la)' + (IF la = t[1][1] THEN 1 ELSE 0)
<1>1. outstanding \subseteq Tasks /\ IsFiniteSet(outstanding)
  BY DEF Shape
<1>2. ASSUME NEW la \in LAs
      PROVE  NrOut(la) = NrOut(la)' + (IF la = t[1][1] THEN 1 ELSE 0)
  <2>1. t \in TasksOf(la) <=> la = t[1][1]
    BY <1>1 DEF TasksOf
  <2>2. NrOut(la)' = SetCount(outstanding', TasksOf(la))
    BY DEF NrOut, TasksOf
  <2> QED
    BY <1>1, <2>1, <2>2, SetCountRemove DEF NrOut
<1>3. IsFiniteSet(outstanding') /\ Cardinality(outstanding') = Cardinality(outstanding) - 1
  BY <1>1, FS_RemoveElement
<1>4. Cardinality(outstanding) \in Nat /\ Cardinality(outstanding) # 0
  BY <1>1, FS_CardinalityType, FS_EmptySet
<1> QED
  BY <1>1, <1>2, <1>3, <1>4

\* A task that is dispatched is one more of its activity, and of all.
LEMMA TaskNew ==
  ASSUME Shape, NEW t \in Tasks, t \notin outstanding, outstanding' = outstanding \cup {t}
  PROVE  /\ outstanding' \subseteq Tasks /\ IsFiniteSet(outstanding')
         /\ Cardinality(outstanding) \in Nat
         /\ Cardinality(outstanding') = Cardinality(outstanding) + 1
         /\ \A la \in LAs : NrOut(la)' = NrOut(la) + (IF la = t[1][1] THEN 1 ELSE 0)
<1>1. outstanding \subseteq Tasks /\ IsFiniteSet(outstanding)
  BY DEF Shape
<1>2. ASSUME NEW la \in LAs
      PROVE  NrOut(la)' = NrOut(la) + (IF la = t[1][1] THEN 1 ELSE 0)
  <2>1. t \in TasksOf(la) <=> la = t[1][1]
    BY <1>1 DEF TasksOf
  <2>2. NrOut(la)' = SetCount(outstanding', TasksOf(la))
    BY DEF NrOut, TasksOf
  <2> QED
    BY <1>1, <2>1, <2>2, SetCountAdd DEF NrOut
<1>3. IsFiniteSet(outstanding') /\ Cardinality(outstanding') = Cardinality(outstanding) + 1
  BY <1>1, FS_AddElement
<1>4. Cardinality(outstanding) \in Nat
  BY <1>1, FS_CardinalityType
<1> QED
  BY <1>1, <1>2, <1>3, <1>4

\* Counts of parts of the state that a step leaves alone.
LEMMA SameCounts ==
  /\ queue' = queue => \A la \in LAs : NrQueued(la)' = NrQueued(la)
  /\ backoffs' = backoffs => \A la \in LAs : NrBackoffs(la)' = NrBackoffs(la)
  /\ outstanding' = outstanding => \A la \in LAs : NrOut(la)' = NrOut(la)
BY DEF NrQueued, NrBackoffs, NrOut, AttemptsOf, TasksOf

\* A step that leaves an activity alone keeps its clauses.
LEMMA Frame ==
  ASSUME NEW la \in LAs, EntryInv(la), Nr(la)' = Nr(la), NrOut(la)' = NrOut(la),
         info'[la].on = info[la].on, info'[la].back => info[la].back, wf'[la] = wf[la],
         la \in past'.reported <=> la \in past.reported,
         la \in past'.ignored <=> la \in past.ignored,
         waiter = "finished" => waiter' = "finished"
  PROVE  EntryInv(la)'
BY DEF EntryInv, Waiting

\* A task that is outstanding is counted, so its activity has an entry.
LEMMA TaskCounted ==
  ASSUME Shape, NEW t \in outstanding
  PROVE  t[1][1] \in LAs /\ t[1][2] \in Nat /\ t[2] \in 1 .. MaxAttempts[t[1][1]] /\ NrOut(t[1][1]) # 0
<1>1. t \in Tasks /\ IsFiniteSet(outstanding)
  BY DEF Shape
<1>2. /\ t[1][1] \in LAs /\ t[1][2] \in Nat /\ t[2] \in 1 .. MaxAttempts[t[1][1]]
      /\ t \in TasksOf(t[1][1])
  BY <1>1 DEF Tasks, TokenSet, TasksOf
<1>3. SetCount(outstanding, TasksOf(t[1][1])) = 0
        <=> \A x \in outstanding : x \notin TasksOf(t[1][1])
  BY <1>1, SetCountType
<1> QED
  BY <1>2, <1>3 DEF NrOut

\* A step that concerns neither entries, nor copies, nor slots.
LEMMA QuietInv ==
  ASSUME Inv, Shape', UNCHANGED <<wf, queue, backoffs, outstanding, free, held, past>>,
         \A la \in LAs : /\ info'[la].on = info[la].on /\ info'[la].tt = info[la].tt
                         /\ info'[la].back = info[la].back,
         waiter = "finished" => waiter' = "finished"
  PROVE  Inv'
<1>1. ASSUME NEW la \in LAs PROVE EntryInv(la)'
  <2>1. Nr(la)' = Nr(la) /\ NrOut(la)' = NrOut(la)
    BY SameCounts DEF Nr
  <2> QED
    BY <2>1, Frame DEF Inv
<1>2. TokensInv'
  BY TaskCounted DEF Inv, TokensInv
<1> QED
  BY <1>1, <1>2 DEF Inv, Slots

\* Initially there are no copies.
LEMMA InitInv == Init => Inv
<1> SUFFICES ASSUME Init PROVE Inv
  OBVIOUS
<1>1. Shape
  <2>1. \E work \in Workloads : wf = [la \in LAs |-> IF la \in work THEN "idle" ELSE "never"]
    BY DEF Init
  <2>2. wf \in [LAs -> {"never", "idle", "waiting", "cancelling", "done"}]
    BY <2>1
  <2>3. info \in [LAs -> Infos] /\ past \in PastType
    BY LocalActivitiesAssumption DEF Init, NoInfo, Infos, PastType
  <2>4. IsFiniteSet(outstanding) /\ IsFiniteSet(backoffs)
    BY FS_EmptySet DEF Init
  <2>5. poll \in Polls
    BY DEF Init, Polls, Idle
  <2>6. queue \in Seq(Attempts) /\ cancels \in Seq(CancelReqs)
    BY DEF Init
  <2>7. gen \in [LAs -> Nat] /\ stale \in [LAs -> Nat] /\ free \in Nat
    BY LocalActivitiesAssumption DEF Init
  <2>8. /\ outstanding = {} /\ backoffs = {} /\ held \in 0 .. 1 /\ flags = {}
        /\ waiter = "none"
    BY DEF Init
  <2>9. notified \in BOOLEAN
    BY Zenon DEF Init
  <2> QED
    BY <2>2, <2>3, <2>4, <2>5, <2>6, <2>7, <2>8, <2>9 DEF Shape
<1>2. Cardinality(outstanding) = 0
  BY FS_EmptySet DEF Init
<1>3. Slots
  BY <1>2, LocalActivitiesAssumption DEF Init, Slots
<1>4. ASSUME NEW la \in LAs PROVE EntryInv(la)
  <2>1. NrQueued(la) = 0
    BY CountEmpty DEF Init, NrQueued
  <2>2. NrBackoffs(la) = 0 /\ NrOut(la) = 0
    BY SetCountType, FS_EmptySet DEF Init, NrBackoffs, NrOut
  <2>3. ~Waiting(la) /\ ~info[la].on /\ ~info[la].back /\ past.reported = {}
    BY DEF Init, Waiting, NoInfo
  <2> QED
    BY <2>1, <2>2, <2>3 DEF EntryInv, Nr
<1> QED
  BY <1>1, <1>3, <1>4 DEF Init, Inv, TokensInv

\* enqueue of a new request: only an activity without an entry, which has no
\* copy, is queued.
LEMMA RequestInv == ASSUME Inv, NEW la \in LAs, Request(la) PROVE Inv'
<1>1. PICK late \in BOOLEAN :
          /\ late => la \in SchedToClose /\ ~info[la].on
          /\ info' = IF info[la].on THEN info
                     ELSE [info EXCEPT ![la] = [on |-> TRUE, tt |-> gen[la] + 1, back |-> FALSE,
                                                s2c |-> la \in SchedToClose /\ ~late, stc |-> FALSE]]
          /\ queue' = IF info[la].on \/ late THEN queue ELSE Sent(queue, <<<<la, 1>>>>)
          /\ wf' = [wf EXCEPT ![la] = IF late THEN "done" ELSE "waiting"]
          /\ past' = [past EXCEPT !.reported = IF late THEN @ \cup {la} ELSE @ \ {la},
                                  !.ignored = IF info[la].on THEN @ \cup {la} ELSE @ \ {la}]
  BY DEF Request
<1>2. /\ Shape /\ gen \in [LAs -> Nat] /\ wf \in [LAs -> {"never", "idle", "waiting", "cancelling", "done"}]
      /\ info \in [LAs -> Infos] /\ past \in PastType
  BY DEF Inv, Shape
<1>3. /\ past' \in PastType /\ past'.panics = past.panics
      /\ \A k \in LAs : k # la => /\ k \in past'.reported <=> k \in past.reported
                                  /\ k \in past'.ignored <=> k \in past.ignored
      /\ la \in past'.reported <=> late
      /\ la \in past'.ignored <=> info[la].on
  BY <1>1, <1>2 DEF PastType
<1>4. /\ info' \in [LAs -> Infos] /\ info'[la].on
      /\ info[la].on => info'[la] = info[la]
      /\ ~info[la].on => ~info'[la].back
      /\ \A k \in LAs : k # la => info'[k] = info[k]
  BY <1>1, <1>2 DEF Infos
<1>5. /\ wf' \in [LAs -> {"never", "idle", "waiting", "cancelling", "done"}]
      /\ wf'[la] = (IF late THEN "done" ELSE "waiting")
      /\ \A k \in LAs : k # la => wf'[k] = wf[k]
  BY <1>1, <1>2
<1>6. <<la, 1>> \in Attempts /\ <<la, 1>>[1] = la
  BY LocalActivitiesAssumption DEF Attempts
<1>7. /\ queue' \in Seq(Attempts)
      /\ \A k \in LAs : NrQueued(k)' = NrQueued(k) + (IF k = la /\ ~info[la].on /\ ~late
                                                         /\ waiter # "finished" THEN 1 ELSE 0)
  <2>1. CASE info[la].on \/ late
    <3>1. queue' = queue /\ queue \in Seq(Attempts)
      BY <1>1, <2>1 DEF Inv, Shape
    <3>2. \A k \in LAs : NrQueued(k)' = NrQueued(k) /\ NrQueued(k) \in Nat
      BY <1>2, <3>1, SameCounts, NrType
    <3> QED
      BY <2>1, <3>1, <3>2
  <2>2. CASE ~info[la].on /\ ~late
    BY <1>1, <1>2, <1>6, <2>2, SendFacts
  <2> QED
    BY <2>1, <2>2
<1>8. Shape'
  <2>1. gen' \in [LAs -> Nat]
    BY <1>2 DEF Request
  <2> QED
    BY <1>2, <1>3, <1>4, <1>5, <1>7, <2>1 DEF Shape, Request
<1>9. ASSUME NEW k \in LAs
      PROVE  /\ NrBackoffs(k)' = NrBackoffs(k) /\ NrOut(k)' = NrOut(k)
             /\ NrQueued(k) \in Nat /\ NrBackoffs(k) \in Nat /\ NrOut(k) \in Nat
             /\ Nr(k) \in Nat /\ EntryInv(k)
  BY <1>2, NrType, SameCounts DEF Request, Inv
<1>10. ASSUME NEW k \in LAs, k # la PROVE EntryInv(k)'
  <2>1. Nr(k)' = Nr(k)
    BY <1>7, <1>9, <1>10 DEF Nr
  <2> QED
    BY <1>3, <1>4, <1>5, <1>9, <1>10, <2>1, Frame DEF Request
<1>11. EntryInv(la)'
  <2>1. CASE info[la].on
    <3>1. Nr(la)' = Nr(la) /\ ~late
      BY <1>1, <1>7, <1>9, <2>1 DEF Nr
    <3> QED
      BY <1>3, <1>4, <1>9, <2>1, <3>1 DEF EntryInv
  <2>2. CASE ~info[la].on
    <3>1. Nr(la) = 0
      BY <1>9, <2>2 DEF EntryInv
    <3>2. Nr(la)' = IF ~late /\ waiter # "finished" THEN 1 ELSE 0
      BY <1>7, <1>9, <2>2, <3>1 DEF Nr
    <3>3. waiter' = waiter /\ (Waiting(la)' => ~late)
      BY <1>5 DEF Request, Waiting
    <3> QED
      BY <1>3, <1>4, <2>2, <3>2, <3>3 DEF EntryInv
  <2> QED
    BY <2>1, <2>2
<1>12. TokensInv'
  <2> SUFFICES ASSUME NEW t \in outstanding PROVE info'[t[1][1]].tt = t[1][2]
    BY DEF TokensInv, Request
  <2>1. t[1][1] \in LAs /\ NrOut(t[1][1]) # 0 /\ info[t[1][1]].tt = t[1][2]
    BY <1>2, TaskCounted DEF Inv, TokensInv
  <2>2. info[t[1][1]].on
    BY <1>9, <2>1 DEF EntryInv, Nr
  <2> QED
    BY <1>4, <2>1, <2>2
<1> QED
  BY <1>3, <1>8, <1>10, <1>11, <1>12 DEF Inv, Slots, Request

\* SetToSeq lists the members of a finite set.
LEMMA SetToSeqType ==
  ASSUME NEW S, IsFiniteSet(S), NEW T, S \subseteq T
  PROVE  SetToSeq(S) \in Seq(T)
<1>1. Cardinality(S) \in Nat /\ ExistsBijection(1 .. Cardinality(S), S)
  BY FS_CardinalityType
<1>2. PICK f : f \in Bijection(1 .. Cardinality(S), S)
  BY <1>1 DEF ExistsBijection
<1>3. f \in [1 .. Cardinality(S) -> S] /\ IsInjective(f)
  BY <1>2 DEF Bijection, Injection
<1>4. SetToSeq(S) \in [1 .. Cardinality(S) -> S]
  BY <1>3, Zenon DEF SetToSeq
<1> QED
  BY <1>1, <1>4

\* cancel_one_la, for any set of activities: only copies that back off go.
LEMMA CancelFacts ==
  ASSUME Inv, NEW S \in SUBSET LAs, CancelLAs(S)
  PROVE  /\ info' \in [LAs -> Infos] /\ backoffs' \subseteq Attempts /\ IsFiniteSet(backoffs')
         /\ cancels' \in Seq(CancelReqs)
         /\ \A la \in LAs : /\ info'[la].on = info[la].on /\ info'[la].tt = info[la].tt
                            /\ info'[la].back => info[la].back
                            /\ NrQueued(la)' = NrQueued(la) /\ NrOut(la)' = NrOut(la)
                            /\ la \in BackingOff(S) => NrBackoffs(la)' = 0
                            /\ la \notin BackingOff(S) => NrBackoffs(la)' = NrBackoffs(la)
<1> DEFINE queued == {la \in S : info[la].on} \ BackingOff(S)
           C == {<<"cancel", <<la, info[la].tt>>>> : la \in queued}
<1>1. /\ info \in [LAs -> Infos] /\ backoffs \subseteq Attempts /\ IsFiniteSet(backoffs)
      /\ cancels \in Seq(CancelReqs) /\ Shape
  BY DEF Inv, Shape
<1>2. /\ info' = [la \in LAs |-> IF la \in BackingOff(S) THEN [info[la] EXCEPT !.back = FALSE]
                                 ELSE info[la]]
      /\ backoffs' = {b \in backoffs : b[1] \notin BackingOff(S)}
      /\ cancels' = Sent(cancels, SetToSeq(C))
      /\ queue' = queue /\ outstanding' = outstanding
  BY DEF CancelLAs
<1>3. ASSUME NEW la \in LAs
      PROVE  /\ info'[la] \in Infos
             /\ info'[la].on = info[la].on /\ info'[la].tt = info[la].tt
             /\ info'[la].back => info[la].back
  <2>1. info[la] \in Infos
    BY <1>1
  <2>2. info'[la] = info[la] \/ info'[la] = [info[la] EXCEPT !.back = FALSE]
    BY <1>2
  <2> QED
    BY <2>1, <2>2 DEF Infos
<1>4. info' \in [LAs -> Infos]
  BY <1>2, <1>3
<1>5. backoffs' \subseteq Attempts /\ IsFiniteSet(backoffs')
  BY <1>1, <1>2, FS_Subset
<1>6. cancels' \in Seq(CancelReqs)
  <2>1. queued \subseteq LAs
    OBVIOUS
  <2>2. IsFiniteSet(queued)
    BY <2>1, LocalActivitiesAssumption, FS_Subset
  <2>3. C \subseteq CancelReqs
    <3>1. \A la \in queued : info[la].tt \in Nat
      BY <1>1, <2>1 DEF Infos
    <3>2. \A la \in queued : <<"cancel", <<la, info[la].tt>>>> \in CancelReqs
      BY <2>1, <3>1 DEF CancelReqs, TokenSet
    <3> QED
      BY <3>2
  <2>4. IsFiniteSet(C)
    <3> DEFINE g == [la \in queued |-> <<"cancel", <<la, info[la].tt>>>>]
    <3>1. g \in [queued -> C] /\ \A c \in C : \E la \in queued : g[la] = c
      OBVIOUS
    <3>2. g \in Surjection(queued, C)
      BY <3>1 DEF Surjection
    <3> QED
      BY <2>2, <3>2, FS_Surjection
  <2>5. SetToSeq(C) \in Seq(CancelReqs)
    BY <2>3, <2>4, SetToSeqType
  <2> QED
    BY <1>1, <1>2, <2>5, ConcatProperties DEF Sent
<1>7. ASSUME NEW la \in LAs, la \in BackingOff(S) PROVE NrBackoffs(la)' = 0
  <2>1. \A b \in backoffs' : b \notin AttemptsOf(la)
    BY <1>2, <1>7 DEF AttemptsOf
  <2>2. SetCount(backoffs', AttemptsOf(la)) = 0
    BY <1>5, <2>1, SetCountType
  <2> QED
    BY <2>2 DEF NrBackoffs, AttemptsOf
<1>8. ASSUME NEW la \in LAs, la \notin BackingOff(S) PROVE NrBackoffs(la)' = NrBackoffs(la)
  <2>1. backoffs' \cap AttemptsOf(la) = backoffs \cap AttemptsOf(la)
    BY <1>2, <1>8 DEF AttemptsOf
  <2> QED
    BY <2>1 DEF NrBackoffs, SetCount, AttemptsOf
<1> QED
  BY <1>2, <1>3, <1>4, <1>5, <1>6, <1>7, <1>8, SameCounts

\* What a cancel or an eviction leaves of an activity: its copy, or it is no
\* longer waited for.
LEMMA CancelStep ==
  ASSUME Inv, NEW S \in SUBSET LAs, CancelLAs(S), Shape',
         \A la \in LAs : wf'[la] # wf[la] => wf'[la] \in {"done", "idle"} \/ (Waiting(la) /\ Waiting(la)'),
         \A la \in BackingOff(S) : ~Waiting(la)',
         past'.reported = past.reported, past'.ignored = past.ignored, past'.panics = past.panics
  PROVE  Inv'
<1>1. ASSUME NEW la \in LAs PROVE EntryInv(la)'
  <2>1. /\ NrQueued(la) \in Nat /\ NrBackoffs(la) \in Nat /\ NrOut(la) \in Nat
        /\ info'[la].on = info[la].on /\ (info'[la].back => info[la].back)
        /\ NrQueued(la)' = NrQueued(la) /\ NrOut(la)' = NrOut(la)
        /\ la \in BackingOff(S) => NrBackoffs(la)' = 0
        /\ la \notin BackingOff(S) => NrBackoffs(la)' = NrBackoffs(la)
        /\ EntryInv(la)
    BY NrType, CancelFacts DEF Inv
  <2>2. CASE la \in BackingOff(S)
    <3>1. Nr(la)' <= Nr(la) /\ Nr(la)' \in Nat /\ Nr(la) \in Nat
      BY <2>1, <2>2 DEF Nr
    <3> QED
      BY <2>1, <2>2, <3>1 DEF EntryInv
  <2>3. CASE la \notin BackingOff(S)
    <3>1. Nr(la)' = Nr(la)
      BY <2>1, <2>3 DEF Nr
    <3>2. Waiting(la)' => Waiting(la)
      BY DEF Waiting
    <3>3. waiter' = waiter
      BY DEF CancelLAs
    <3> QED
      BY <2>1, <3>1, <3>2, <3>3 DEF EntryInv
  <2> QED
    BY <2>2, <2>3
<1>2. TokensInv'
  <2> SUFFICES ASSUME NEW t \in outstanding PROVE info'[t[1][1]].tt = t[1][2]
    BY DEF TokensInv, CancelLAs
  <2> QED
    BY TaskCounted, CancelFacts DEF Inv, TokensInv
<1> QED
  BY <1>1, <1>2 DEF Inv, Slots, CancelLAs

\* The workflow cancels one local activity.
LEMMA CancelInv == ASSUME Inv, NEW la \in LAs, Cancel(la) PROVE Inv'
<1> DEFINE new == IF la \in BackingOff({la}) \/ la \notin WaitsForCancel THEN "done" ELSE "cancelling"
<1>1. /\ CancelLAs({la}) /\ {la} \in SUBSET LAs /\ past' = past
      /\ wf[la] = "waiting" /\ wf' = [wf EXCEPT ![la] = new]
      /\ wf \in [LAs -> {"never", "idle", "waiting", "cancelling", "done"}]
  BY DEF Cancel, Inv, Shape
<1>2. /\ wf' \in [LAs -> {"never", "idle", "waiting", "cancelling", "done"}]
      /\ wf'[la] = new /\ \A k \in LAs : k # la => wf'[k] = wf[k]
  BY <1>1
<1>3. Shape'
  BY <1>1, <1>2, CancelFacts DEF Inv, Shape, CancelLAs
<1>4. \A k \in LAs : wf'[k] # wf[k] => wf'[k] \in {"done", "idle"} \/ (Waiting(k) /\ Waiting(k)')
  BY <1>1, <1>2 DEF Waiting
<1>5. \A k \in BackingOff({la}) : ~Waiting(k)'
  BY <1>2 DEF Waiting, BackingOff
<1> QED
  BY <1>1, <1>3, <1>4, <1>5, CancelStep

\* The eviction of the run: what backs off is resolved, for the rest a cancel is
\* queued, and lang starts the workflow again.
LEMMA EvictInv == ASSUME Inv, Evict PROVE Inv'
<1>1. /\ CancelLAs(Evictable) /\ Evictable \in SUBSET LAs
      /\ wf' = [la \in LAs |-> IF la \in Evictable /\ wf[la] # "never" THEN "idle" ELSE wf[la]]
      /\ past' = [past EXCEPT !.evictions = @ + 1] /\ past \in PastType
      /\ wf \in [LAs -> {"never", "idle", "waiting", "cancelling", "done"}]
  BY LocalActivitiesAssumption DEF Evict, Inv, Shape
<1>2. /\ past' \in PastType /\ past'.reported = past.reported /\ past'.ignored = past.ignored
      /\ past'.panics = past.panics
  BY <1>1 DEF PastType
<1>3. wf' \in [LAs -> {"never", "idle", "waiting", "cancelling", "done"}]
  BY <1>1
<1>4. Shape'
  BY <1>1, <1>2, <1>3, CancelFacts DEF Inv, Shape, CancelLAs
<1>5. \A k \in LAs : wf'[k] # wf[k] => wf'[k] \in {"done", "idle"}
  BY <1>1
<1>6. \A k \in BackingOff(Evictable) : ~Waiting(k)'
  BY <1>1 DEF Waiting, BackingOff
<1> QED
  BY <1>1, <1>2, <1>4, <1>5, <1>6, CancelStep

\* A backoff that elapses moves its copy to the queue; the stream gone, the copy
\* is lost, but nobody is told to wait for it then.
LEMMA BackoffElapsesInv == ASSUME Inv, NEW b \in backoffs, BackoffElapses(b) PROVE Inv'
<1>1. b \in Attempts /\ Shape /\ backoffs' = backoffs \ {b} /\ queue' = Sent(queue, <<b>>)
  BY DEF Inv, Shape, BackoffElapses
<1>2. Shape'
  BY <1>1, BackoffGone, SendFacts DEF Shape, BackoffElapses
<1>3. ASSUME NEW la \in LAs PROVE EntryInv(la)'
  <2>1. /\ NrQueued(la) \in Nat /\ NrBackoffs(la) \in Nat /\ NrOut(la) \in Nat /\ NrBackoffs(la)' \in Nat
        /\ NrQueued(la)' = NrQueued(la) + (IF waiter # "finished" /\ la = b[1] THEN 1 ELSE 0)
        /\ NrBackoffs(la) = NrBackoffs(la)' + (IF la = b[1] THEN 1 ELSE 0)
        /\ NrOut(la)' = NrOut(la)
        /\ EntryInv(la)
    <3>1. NrBackoffs(la)' \in Nat
      BY <1>1, BackoffGone, SetCountType DEF NrBackoffs
    <3> QED
      BY <1>1, <3>1, NrType, SendFacts, BackoffGone, SameCounts DEF Inv, BackoffElapses
  <2>2. waiter # "finished" => Nr(la)' = Nr(la)
    BY <2>1 DEF Nr
  <2>3. Nr(la)' <= Nr(la) /\ Nr(la) \in Nat /\ Nr(la)' \in Nat
    BY <2>1 DEF Nr
  <2> QED
    BY <2>1, <2>2, <2>3 DEF EntryInv, BackoffElapses, Waiting
<1>4. TokensInv'
  BY DEF Inv, TokensInv, BackoffElapses
<1> QED
  BY <1>2, <1>3, <1>4 DEF Inv, Slots, BackoffElapses

\* Timers that fire queue a timeout and touch no copy.
LEMMA TimerType ==
  ASSUME Shape, NEW la \in LAs, NEW type \in TimeoutTypes,
         cancels' = Sent(cancels, <<<<"timeout", la, type>>>>)
  PROVE  cancels' \in Seq(CancelReqs)
<1>1. <<"timeout", la, type>> \in CancelReqs /\ cancels \in Seq(CancelReqs)
  BY DEF CancelReqs, Shape
<1> QED
  BY <1>1, ConcatProperties DEF Sent

\* The schedule-to-close timer fires.
LEMMA SchedToCloseFiresInv == ASSUME Inv, NEW la \in LAs, SchedToCloseFires(la) PROVE Inv'
<1>1. cancels' \in Seq(CancelReqs)
  BY TimerType DEF Inv, SchedToCloseFires, TimerFires, TimeoutTypes
<1>2. info \in [LAs -> Infos] /\ info' = [info EXCEPT ![la].s2c = FALSE]
  BY DEF Inv, Shape, SchedToCloseFires
<1>3. /\ info' \in [LAs -> Infos]
      /\ \A k \in LAs : /\ info'[k].on = info[k].on /\ info'[k].tt = info[k].tt
                        /\ info'[k].back = info[k].back
  <2>1. info[la] \in Infos /\ info'[la] = [info[la] EXCEPT !.s2c = FALSE]
    BY <1>2
  <2>2. info'[la] \in Infos /\ info'[la].on = info[la].on /\ info'[la].tt = info[la].tt
        /\ info'[la].back = info[la].back
    BY <2>1 DEF Infos
  <2> QED
    BY <1>2, <2>2
<1>4. Shape'
  BY <1>1, <1>3 DEF Inv, Shape, SchedToCloseFires, TimerFires
<1> QED
  BY <1>3, <1>4, QuietInv DEF SchedToCloseFires, TimerFires

\* The start-to-close timer of the running attempt fires.
LEMMA StartToCloseFiresInv == ASSUME Inv, NEW la \in LAs, StartToCloseFires(la) PROVE Inv'
<1>1. cancels' \in Seq(CancelReqs)
  BY TimerType DEF Inv, StartToCloseFires, TimerFires, TimeoutTypes
<1>2. info \in [LAs -> Infos] /\ info' = [info EXCEPT ![la].stc = FALSE]
  BY DEF Inv, Shape, StartToCloseFires
<1>3. /\ info' \in [LAs -> Infos]
      /\ \A k \in LAs : /\ info'[k].on = info[k].on /\ info'[k].tt = info[k].tt
                        /\ info'[k].back = info[k].back
  <2>1. info[la] \in Infos /\ info'[la] = [info[la] EXCEPT !.stc = FALSE]
    BY <1>2
  <2>2. info'[la] \in Infos /\ info'[la].on = info[la].on /\ info'[la].tt = info[la].tt
        /\ info'[la].back = info[la].back
    BY <2>1 DEF Infos
  <2> QED
    BY <1>2, <2>2
<1>4. Shape'
  BY <1>1, <1>3 DEF Inv, Shape, StartToCloseFires, TimerFires
<1> QED
  BY <1>3, <1>4, QuietInv DEF StartToCloseFires, TimerFires

\* The start-to-close timer that an earlier attempt left armed fires.
LEMMA StaleStartToCloseFiresInv ==
  ASSUME Inv, NEW la \in LAs, StaleStartToCloseFires(la) PROVE Inv'
<1>1. cancels' \in Seq(CancelReqs)
  BY TimerType DEF Inv, StaleStartToCloseFires, TimerFires, TimeoutTypes
<1>2. stale' \in [LAs -> Nat]
  <2>1. stale \in [LAs -> Nat]
    BY DEF Inv, Shape
  <2> QED
    BY <2>1 DEF StaleStartToCloseFires
<1>3. Shape'
  BY <1>1, <1>2 DEF Inv, Shape, StaleStartToCloseFires, TimerFires
<1> QED
  BY <1>3, QuietInv DEF StaleStartToCloseFires, TimerFires

\* complete of an outstanding task: its slot is free, and its only copy becomes
\* a backoff or goes, and then the run is told.
LEMMA RemovedInv ==
  ASSUME Inv, NEW t \in outstanding, NEW result, NEW retry \in BOOLEAN,
         retry => t[2] < MaxAttempts[t[1][1]],
         Removed(t, result, retry), UNCHANGED <<queue, stale, cancels, held, waiter>>,
         poll' \in Polls
  PROVE  Inv'
<1> DEFINE la == t[1][1]
<1>1. /\ la \in LAs /\ t[1][2] \in Nat /\ t[2] \in 1 .. MaxAttempts[la] /\ NrOut(la) # 0
      /\ info[la].tt = t[1][2] /\ MaxAttempts[la] \in Nat
  BY TaskCounted, LocalActivitiesAssumption DEF Inv, TokensInv
<1>2. /\ Shape /\ info \in [LAs -> Infos] /\ gen \in [LAs -> Nat] /\ past \in PastType
      /\ wf \in [LAs -> {"never", "idle", "waiting", "cancelling", "done"}]
  BY DEF Inv, Shape
<1>3. ASSUME NEW k \in LAs
      PROVE  /\ NrQueued(k) \in Nat /\ NrBackoffs(k) \in Nat /\ NrOut(k) \in Nat
             /\ EntryInv(k) /\ NrQueued(k)' = NrQueued(k)
  BY <1>2, NrType, SameCounts DEF Inv
<1>4. NrQueued(la) = 0 /\ NrBackoffs(la) = 0 /\ NrOut(la) = 1 /\ info[la].on /\ ~info[la].back
      /\ la \notin past.reported
  <2> HIDE DEF la
  <2>1. NrQueued(la) \in Nat /\ NrBackoffs(la) \in Nat /\ NrOut(la) \in Nat /\ EntryInv(la)
    BY <1>1, <1>3
  <2> QED
    BY <1>1, <2>1 DEF EntryInv, Nr
<1>5. outstanding' = outstanding \ {t} /\ free' = free + 1
  BY DEF Removed, Freed
<1>6. /\ outstanding' \subseteq Tasks /\ IsFiniteSet(outstanding')
      /\ Cardinality(outstanding') = Cardinality(outstanding) - 1 /\ Cardinality(outstanding) \in Nat
      /\ \A k \in LAs : NrOut(k) = NrOut(k)' + (IF k = la THEN 1 ELSE 0)
      /\ \A k \in LAs : NrOut(k)' \in Nat
  <2>1. IsFiniteSet(outstanding')
    BY <1>2, <1>5, TaskGone
  <2>2. \A k \in LAs : NrOut(k)' \in Nat
    BY <2>1, SetCountType DEF NrOut
  <2> QED
    BY <1>2, <1>5, <2>2, TaskGone
<1>7. /\ backoffs' \subseteq Attempts /\ IsFiniteSet(backoffs')
      /\ \A k \in LAs : NrBackoffs(k)' = NrBackoffs(k) + (IF retry /\ k = la THEN 1 ELSE 0)
  <2>1. CASE ~retry
    <3>1. backoffs' = backoffs
      BY <2>1 DEF Removed
    <3>2. \A k \in LAs : NrBackoffs(k)' = NrBackoffs(k)
      BY <3>1, SameCounts
    <3>3. backoffs \subseteq Attempts /\ IsFiniteSet(backoffs)
      BY <1>2 DEF Shape
    <3> QED
      BY <1>3, <2>1, <3>1, <3>2, <3>3
  <2>2. CASE retry
    <3> DEFINE b == <<la, t[2] + 1>>
    <3>1. b \in Attempts /\ b[1] = la
      BY <1>1, <2>2 DEF Attempts
    <3>2. b \notin backoffs
      <4>1. b \in AttemptsOf(la)
        BY <3>1 DEF AttemptsOf
      <4>2. IsFiniteSet(backoffs)
        BY <1>2 DEF Shape
      <4>3. \A x \in backoffs : x \notin AttemptsOf(la)
        BY <1>4, <4>2, SetCountType DEF NrBackoffs
      <4> QED
        BY <4>1, <4>3
    <3>3. backoffs' = backoffs \cup {b}
      BY <2>2 DEF Removed
    <3> HIDE DEF b
    <3> QED
      BY <1>2, <2>2, <3>1, <3>2, <3>3, BackoffNew
  <2> QED
    BY <2>1, <2>2
<1>8. /\ info' \in [LAs -> Infos] /\ gen' \in [LAs -> Nat]
      /\ info'[la].on <=> retry
      /\ \A k \in LAs : k # la => info'[k] = info[k]
  <2>1. gen[la] + 1 \in Nat /\ gen' \in [LAs -> Nat]
    BY <1>1, <1>2 DEF Removed
  <2> DEFINE new == IF retry THEN [info[la] EXCEPT !.on = TRUE, !.tt = gen[la] + 1, !.back = TRUE]
                             ELSE NoInfo
  <2>2. info' = [info EXCEPT ![la] = new]
    BY <1>1, <1>2 DEF Removed
  <2>3. new \in Infos /\ (new.on <=> retry)
    BY <1>1, <1>2, <2>1 DEF Infos, NoInfo
  <2> HIDE DEF new
  <2> QED
    BY <1>1, <1>2, <2>1, <2>2, <2>3
<1>9. /\ past' \in PastType /\ past'.panics = {}
      /\ \A k \in LAs : k # la => (k \in past'.reported <=> k \in past.reported)
      /\ la \in past'.reported <=> ~retry
      /\ past'.ignored = past.ignored
  <2>1. past' = [past EXCEPT !.reported = IF Reports(retry) THEN @ \cup {la} ELSE @,
                             !.quiet = ~JustReport(result),
                             !.panics = @ \cup Panic(info[la].back, "should not have backoff task")]
    BY DEF Removed
  <2>2. Panic(info[la].back, "should not have backoff task") = {} /\ past.panics = {}
    BY <1>4 DEF Panic, Inv
  <2>3. (Reports(retry) <=> ~retry) /\ (~JustReport(result)) \in BOOLEAN
    BY DEF Reports, JustReport
  <2> QED
    BY <1>1, <1>2, <1>4, <2>1, <2>2, <2>3 DEF PastType
<1>10. /\ wf' \in [LAs -> {"never", "idle", "waiting", "cancelling", "done"}]
       /\ \A k \in LAs : k # la => wf'[k] = wf[k]
       /\ ~retry => wf'[la] \notin {"waiting", "cancelling"}
       /\ retry => wf' = wf
  BY <1>1, <1>2 DEF Removed, Reports, Resolve, Waiting
<1>11. flags' \subseteq {"initiated", "workflows", "complete", "polled out"} /\ notified' \in BOOLEAN
  <2>1. flags \subseteq {"initiated", "workflows", "complete", "polled out"}
    BY <1>2 DEF Shape
  <2>2. flags' \subseteq {"initiated", "workflows", "complete", "polled out"}
    BY <2>1 DEF Removed, CompleteIfReady
  <2>3. notified' \in BOOLEAN
    BY Zenon DEF Removed
  <2> QED
    BY <2>2, <2>3
<1>12. Shape'
  <2>1. free' \in Nat /\ held' \in 0 .. 1
    BY <1>2, <1>5, SlotTypes
  <2>2. /\ queue' \in Seq(Attempts) /\ cancels' \in Seq(CancelReqs) /\ stale' \in [LAs -> Nat]
        /\ waiter' \in {"none", "look", "asleep", "lock", "finished"}
    BY <1>2, Zenon DEF Shape
  <2> QED
    BY <1>6, <1>7, <1>8, <1>9, <1>10, <1>11, <2>1, <2>2 DEF Shape
<1>13. ASSUME NEW k \in LAs, k # la PROVE EntryInv(k)'
  <2>1. Nr(k)' = Nr(k) /\ NrOut(k)' = NrOut(k)
    BY <1>3, <1>6, <1>7, <1>13 DEF Nr
  <2> QED
    BY <1>3, <1>8, <1>9, <1>10, <1>13, <2>1, Frame
<1>14. EntryInv(la)'
  <2> HIDE DEF la
  <2>1. NrOut(la)' = 0 /\ Nr(la)' = IF retry THEN 1 ELSE 0
    BY <1>1, <1>3, <1>4, <1>6, <1>7 DEF Nr
  <2> QED
    BY <1>1, <1>8, <1>9, <1>10, <2>1 DEF EntryInv, Waiting
<1>15. TokensInv'
  <2> SUFFICES ASSUME NEW u \in outstanding' PROVE info'[u[1][1]].tt = u[1][2]
    BY DEF TokensInv
  <2>1. u \in outstanding /\ u[1][1] \in LAs /\ info[u[1][1]].tt = u[1][2]
    BY <1>2, <1>5, TaskCounted DEF Inv, TokensInv
  <2>2. u[1][1] # la
    <3>1. ASSUME u[1][1] = la PROVE FALSE
      <4>1. u \in TasksOf(la)
        BY <1>2, <2>1, <3>1 DEF Shape, TasksOf
      <4>2. NrOut(la)' = 0
        BY <1>1, <1>4, <1>6
      <4>3. \A x \in outstanding' : x \notin TasksOf(la)
        BY <1>6, <4>2, SetCountType DEF NrOut, TasksOf
      <4> QED
        BY <4>1, <4>3
    <3> QED
      BY <3>1
  <2> QED
    BY <1>8, <2>1, <2>2
<1> QED
  <2>1. Slots'
    <3>1. free \in Nat /\ held \in Nat /\ free + held + Cardinality(outstanding) = Permits
      BY <1>2, SlotTypes DEF Inv, Slots
    <3> QED
      BY <1>5, <1>6, <3>1 DEF Slots
  <2> QED
    BY <1>9, <1>12, <1>13, <1>14, <1>15, <2>1 DEF Inv

\* Whatever completes an outstanding task, lang or a timeout.
LEMMA CompleteOutstandingInv ==
  ASSUME Inv, NEW t \in outstanding, NEW result, CompleteOutstanding(t, result),
         UNCHANGED <<queue, stale, cancels, held, waiter>>, poll' \in Polls
  PROVE  Inv'
<1>1. PICK retry \in BOOLEAN : /\ Removed(t, result, retry)
                               /\ retry => ShouldRetry(t[1][1], t[2])
  BY DEF CompleteOutstanding
<1>2. retry => t[2] < MaxAttempts[t[1][1]]
  BY <1>1 DEF ShouldRetry
<1> QED
  BY <1>1, <1>2, RemovedInv

\* The language side completes an execution.
LEMMA LangCompletesInv == ASSUME Inv, NEW t \in outstanding, LangCompletes(t) PROVE Inv'
<1>1. poll' \in Polls
  BY DEF LangCompletes, Inv, Shape
<1>2. PICK result : CompleteOutstanding(t, result)
  BY DEF LangCompletes
<1> QED
  BY <1>1, <1>2, CompleteOutstandingInv DEF LangCompletes

\* A timeout that was queued for the stream is handled.
LEMMA HandleTimeoutInv == ASSUME Inv, HandleTimeout PROVE Inv'
<1>1. poll' \in Polls /\ UNCHANGED <<queue, stale, cancels, held, waiter>>
  BY DEF HandleTimeout, Polls, Idle
<1>2. CASE \E t \in outstanding : t[1] = poll[2] /\ CompleteOutstanding(t, poll[3])
  <2>1. PICK t \in outstanding : CompleteOutstanding(t, poll[3])
    BY <1>2
  <2> QED
    BY <1>1, <2>1, CompleteOutstandingInv
<1>3. CASE UNCHANGED <<outstanding, free, flags, notified, gen, info, backoffs, wf, past>>
  <2>1. Shape'
    BY <1>1, <1>3 DEF Inv, Shape
  <2> QED
    BY <1>1, <1>3, <2>1, QuietInv
<1> QED
  BY <1>2, <1>3 DEF HandleTimeout, Complete

\* The steps of a poll that take nothing from the queue.
LEMMA PollStepInv ==
  ASSUME Inv, PollBegins \/ PollDropped \/ PollEnds \/ TakeCancel \/ TakeTimeout
  PROVE  Inv'
<1>1. flags' \subseteq {"initiated", "workflows", "complete", "polled out"}
  <2>1. flags \subseteq {"initiated", "workflows", "complete", "polled out"}
    BY DEF Inv, Shape
  <2> QED
    BY <2>1 DEF PollBegins, PollDropped, PollEnds, TakeCancel, TakeTimeout, AfterNone
<1>2. cancels' \in Seq(CancelReqs)
  <2>1. cancels \in Seq(CancelReqs)
    BY DEF Inv, Shape
  <2>2. cancels' = cancels \/ (cancels # <<>> /\ cancels' = Tail(cancels))
    BY DEF PollBegins, PollDropped, PollEnds, TakeCancel, TakeTimeout
  <2> QED
    BY <2>1, <2>2, HeadTailProperties
<1>3. poll' \in Polls
  <2>1. CASE ~TakeTimeout
    BY <2>1 DEF PollBegins, PollDropped, PollEnds, TakeCancel, Polls, Idle
  <2>2. CASE TakeTimeout
    <3>1. cancels # <<>> /\ Head(cancels)[1] = "timeout" /\ cancels \in Seq(CancelReqs)
      BY <2>2 DEF TakeTimeout, Inv, Shape
    <3>2. Head(cancels) \in CancelReqs
      BY <3>1, HeadTailProperties
    <3>3. Head(cancels) \in {"timeout"} \X LAs \X TimeoutTypes
      BY <3>1, <3>2 DEF CancelReqs
    <3>4. Head(cancels)[2] \in LAs /\ Head(cancels)[3] \in TimeoutTypes
      BY <3>3
    <3>5. info[Head(cancels)[2]].tt \in Nat
      BY <3>4 DEF Inv, Shape, Infos
    <3>6. \/ poll' = <<"out">>
          \/ poll' = <<"timedout", <<Head(cancels)[2], info[Head(cancels)[2]].tt>>, Head(cancels)[3]>>
      BY <2>2 DEF TakeTimeout, Idle
    <3> QED
      BY <3>4, <3>5, <3>6 DEF Polls, TokenSet
  <2> QED
    BY <2>1, <2>2
<1>4. UNCHANGED <<wf, info, outstanding, queue, stale, free, held, past, gen, backoffs, waiter, notified>>
  BY DEF PollBegins, PollDropped, PollEnds, TakeCancel, TakeTimeout, PollUnchanged
<1>5. Shape'
  BY <1>1, <1>2, <1>3, <1>4 DEF Inv, Shape
<1> QED
  BY <1>4, <1>5, QuietInv

\* A permit moves into the stream.
LEMMA AcquirePermitInv == ASSUME Inv, AcquirePermit PROVE Inv'
<1>1. /\ free \in Nat /\ free > 0 /\ held = 0 /\ free' = free - 1 /\ held' = 1
      /\ Cardinality(outstanding) \in Nat
  BY SlotTypes DEF AcquirePermit, Inv
<1>2. UNCHANGED <<wf, info, outstanding, queue, stale, cancels, poll, flags, past, gen, backoffs,
                  waiter, notified>>
  BY DEF AcquirePermit, PollUnchanged
<1>3. free' \in Nat /\ held' \in 0 .. 1
  BY <1>1
<1>4. Shape'
  BY <1>2, <1>3 DEF Inv, Shape
<1>5. Slots'
  BY <1>1, <1>2 DEF Inv, Slots
<1>6. ASSUME NEW la \in LAs PROVE EntryInv(la)'
  <2>1. Nr(la)' = Nr(la) /\ NrOut(la)' = NrOut(la)
    BY <1>2, SameCounts DEF Nr
  <2> QED
    BY <1>2, <2>1, Frame DEF Inv
<1> QED
  BY <1>2, <1>4, <1>5, <1>6 DEF Inv, TokensInv

\* The stream hands over a request with its permit: the only copy of its
\* activity becomes outstanding, or goes and the run is told.
LEMMA TakeNewInv == ASSUME Inv, TakeNew PROVE Inv'
<1>1. /\ Shape /\ queue # <<>> /\ queue' = Tail(queue) /\ held = 1 /\ held' = 0 /\ poll' = Idle
      /\ UNCHANGED <<gen, backoffs, cancels, flags, waiter, notified>>
  BY DEF TakeNew, Inv
<1>2. Head(queue) \in Attempts /\ queue' \in Seq(Attempts)
  BY <1>1, TakeFacts
<1>3. PICK la \in LAs, n \in Nat : Head(queue)[1] = la /\ Head(queue)[2] = n /\ n \in 1 .. MaxAttempts[la]
  BY <1>2 DEF Attempts
<1>4. ASSUME NEW k \in LAs
      PROVE  /\ NrQueued(k) \in Nat /\ NrBackoffs(k) \in Nat /\ NrOut(k) \in Nat /\ NrQueued(k)' \in Nat
             /\ EntryInv(k) /\ NrBackoffs(k)' = NrBackoffs(k)
             /\ NrQueued(k) = NrQueued(k)' + (IF k = la THEN 1 ELSE 0)
  <2>1. NrQueued(k)' \in Nat
    BY <1>2, CountType DEF NrQueued
  <2> QED
    BY <1>1, <1>3, <2>1, NrType, SameCounts, TakeFacts DEF Inv
<1>5. NrQueued(la)' = 0 /\ NrBackoffs(la) = 0 /\ NrOut(la) = 0 /\ info[la].on /\ Nr(la) = 1
      /\ la \notin past.reported
  <2>1. /\ NrQueued(la) \in Nat /\ NrBackoffs(la) \in Nat /\ NrOut(la) \in Nat /\ NrQueued(la)' \in Nat
        /\ EntryInv(la) /\ NrQueued(la) = NrQueued(la)' + 1
    BY <1>4
  <2> QED
    BY <2>1 DEF EntryInv, Nr
<1>6. /\ info \in [LAs -> Infos] /\ stale \in [LAs -> Nat] /\ past \in PastType
      /\ wf \in [LAs -> {"never", "idle", "waiting", "cancelling", "done"}]
      /\ outstanding \subseteq Tasks /\ IsFiniteSet(outstanding)
      /\ past.panics = {} /\ poll' \in Polls
  <2>1. poll' \in Polls
    BY <1>1 DEF Polls, Idle
  <2> QED
    BY <1>1, <2>1 DEF Shape, Inv
<1>7. free \in Nat /\ Cardinality(outstanding) \in Nat /\ free + 1 + Cardinality(outstanding) = Permits
  BY <1>1, SlotTypes DEF Inv, Slots
<1>8. CASE SatTooLong(la)
  <2>1. /\ outstanding' = outstanding /\ stale' = stale /\ free' = free + 1
        /\ info' = [info EXCEPT ![la].back = FALSE] /\ wf' = Resolve({la})
        /\ past' = [past EXCEPT !.reported = @ \cup {la}]
    BY <1>8 DEF SatTooLong
  <2>2. /\ info' \in [LAs -> Infos] /\ info'[la].on /\ ~info'[la].back /\ info'[la].tt = info[la].tt
        /\ \A k \in LAs : k # la => info'[k] = info[k]
    <3>1. info[la] \in Infos /\ info'[la] = [info[la] EXCEPT !.back = FALSE]
      BY <1>6, <2>1
    <3>2. info'[la] \in Infos /\ info'[la].on /\ ~info'[la].back /\ info'[la].tt = info[la].tt
      BY <1>5, <3>1 DEF Infos
    <3> QED
      BY <1>6, <2>1, <3>2
  <2>3. /\ wf' \in [LAs -> {"never", "idle", "waiting", "cancelling", "done"}]
        /\ ~Waiting(la)' /\ \A k \in LAs : k # la => wf'[k] = wf[k]
    BY <1>6, <2>1 DEF Resolve, Waiting
  <2>4. /\ past' \in PastType /\ past'.panics = {} /\ past'.ignored = past.ignored
        /\ \A k \in LAs : k # la => (k \in past'.reported <=> k \in past.reported)
    BY <1>6, <2>1 DEF PastType
  <2>5. Shape'
    <3>1. free' \in Nat /\ held' \in 0 .. 1
      BY <1>1, <1>7, <2>1
    <3> QED
      BY <1>1, <1>2, <1>6, <2>1, <2>2, <2>3, <2>4, <3>1 DEF Shape
  <2>6. Slots'
    BY <1>1, <1>7, <2>1 DEF Slots
  <2>7. \A k \in LAs : NrOut(k)' = NrOut(k)
    BY <2>1, SameCounts
  <2>8. ASSUME NEW k \in LAs, k # la PROVE EntryInv(k)'
    <3>1. Nr(k)' = Nr(k)
      BY <1>4, <2>7, <2>8 DEF Nr
    <3> QED
      BY <1>1, <1>4, <2>2, <2>3, <2>4, <2>7, <2>8, <3>1, Frame
  <2>9. EntryInv(la)'
    <3>1. Nr(la)' = 0
      BY <1>4, <1>5, <2>7 DEF Nr
    <3> QED
      BY <2>2, <2>3, <3>1 DEF EntryInv
  <2>10. TokensInv'
    <3> SUFFICES ASSUME NEW t \in outstanding PROVE info'[t[1][1]].tt = t[1][2]
      BY <2>1 DEF TokensInv
    <3>1. t[1][1] \in LAs /\ info[t[1][1]].tt = t[1][2]
      BY <1>1, TaskCounted DEF Inv, TokensInv
    <3> QED
      BY <2>2, <3>1
  <2> QED
    BY <2>4, <2>5, <2>6, <2>8, <2>9, <2>10 DEF Inv
<1>9. CASE Dispatch(la, n)
  <2>1. PICK t : t = <<<<la, info[la].tt>>, n>>
    OBVIOUS
  <2>2. outstanding' = outstanding \cup {t} /\ wf' = wf /\ free' = free
    BY <1>9, <2>1 DEF Dispatch
  <2>3. t \in Tasks /\ t[1][1] = la /\ t[1][2] = info[la].tt
    BY <1>3, <1>6, <2>1 DEF Tasks, TokenSet, Infos
  <2>4. t \notin outstanding
    BY <1>1, <1>5, <2>3, TaskCounted
  <2>5. /\ outstanding' \subseteq Tasks /\ IsFiniteSet(outstanding')
        /\ Cardinality(outstanding') = Cardinality(outstanding) + 1
        /\ \A k \in LAs : NrOut(k)' = NrOut(k) + (IF k = la THEN 1 ELSE 0)
    BY <1>1, <2>2, <2>3, <2>4, TaskNew
  <2>6. /\ info' \in [LAs -> Infos] /\ info'[la].on /\ ~info'[la].back /\ info'[la].tt = info[la].tt
        /\ \A k \in LAs : k # la => info'[k] = info[k]
    <3>1. PICK armed \in BOOLEAN : armed = (la \in StartToClose)
      <4>1. CASE la \in StartToClose
        <5>1. TRUE = (la \in StartToClose)
          BY <4>1, Zenon
        <5> QED
          BY <5>1, Zenon
      <4>2. CASE la \notin StartToClose
        <5>1. FALSE = (la \in StartToClose)
          BY <4>2
        <5> QED
          BY <5>1, Zenon
      <4> QED
        BY <4>1, <4>2, Zenon
    <3>2. info' = [info EXCEPT ![la].back = FALSE, ![la].stc = armed]
      BY <1>9, <3>1 DEF Dispatch
    <3>3. info[la] \in Infos /\ info'[la] = [info[la] EXCEPT !.back = FALSE, !.stc = armed]
      BY <1>6, <3>2
    <3>4. info'[la] \in Infos /\ info'[la].on /\ ~info'[la].back /\ info'[la].tt = info[la].tt
      BY <1>5, <3>3 DEF Infos
    <3> QED
      BY <1>6, <3>2, <3>4
  <2>7. past' \in PastType /\ past'.panics = {} /\ past'.ignored = past.ignored
        /\ past'.reported = past.reported
    <3>1. past' = [past EXCEPT !.panics = @ \cup Panic(~info[la].on, "Activity must exist")]
      BY <1>9 DEF Dispatch
    <3> QED
      BY <1>5, <1>6, <3>1 DEF PastType, Panic
  <2>8. stale' \in [LAs -> Nat]
    <3>1. stale' = [stale EXCEPT ![la] = IF info[la].stc THEN @ + 1 ELSE @]
      BY <1>9 DEF Dispatch
    <3> QED
      BY <1>6, <3>1
  <2>9. Shape'
    <3>1. free' \in Nat /\ held' \in 0 .. 1
      BY <1>1, <1>7, <2>2
    <3> QED
      BY <1>1, <1>2, <1>6, <2>2, <2>5, <2>6, <2>7, <2>8, <3>1 DEF Shape
  <2>10. Slots'
    BY <1>1, <1>7, <2>2, <2>5 DEF Slots
  <2>11. ASSUME NEW k \in LAs, k # la PROVE EntryInv(k)'
    <3>1. Nr(k)' = Nr(k) /\ NrOut(k)' = NrOut(k)
      BY <1>4, <2>5, <2>11 DEF Nr
    <3> QED
      BY <1>1, <1>4, <2>2, <2>6, <2>7, <2>11, <3>1, Frame
  <2>12. EntryInv(la)'
    <3>1. Nr(la)' = 1
      BY <1>4, <1>5, <2>5 DEF Nr
    <3> QED
      BY <1>5, <2>6, <2>7, <3>1 DEF EntryInv
  <2>13. TokensInv'
    <3> SUFFICES ASSUME NEW u \in outstanding' PROVE info'[u[1][1]].tt = u[1][2]
      BY DEF TokensInv
    <3>1. CASE u = t
      BY <2>3, <2>6, <3>1
    <3>2. CASE u \in outstanding
      <4>1. u[1][1] \in LAs /\ info[u[1][1]].tt = u[1][2]
        BY <1>1, <3>2, TaskCounted DEF Inv, TokensInv
      <4> QED
        BY <2>6, <4>1
    <3> QED
      BY <2>2, <3>1, <3>2
  <2> QED
    BY <2>7, <2>9, <2>10, <2>11, <2>12, <2>13 DEF Inv
<1> QED
  BY <1>3, <1>8, <1>9 DEF TakeNew

\* The steps of the shutdown that leave the stream alone.
LEMMA ShutdownStepInv ==
  ASSUME Inv, InitiateShutdown \/ WorkflowsHaveShutdown \/ WaitAll \/ WaiterWakes
  PROVE  Inv'
<1>1. UNCHANGED <<wf, info, gen, outstanding, queue, backoffs, cancels, stale, poll, free, held, past>>
  BY DEF InitiateShutdown, WorkflowsHaveShutdown, WaitAll, WaiterWakes, manager
<1>2. flags' \subseteq {"initiated", "workflows", "complete", "polled out"}
  <2>1. flags \subseteq {"initiated", "workflows", "complete", "polled out"}
    BY DEF Inv, Shape
  <2> QED
    BY <2>1 DEF InitiateShutdown, WorkflowsHaveShutdown, WaitAll, WaiterWakes, CompleteIfReady
<1>3. /\ waiter' \in {"none", "look", "asleep", "lock", "finished"}
      /\ waiter = "finished" => waiter' = "finished"
  BY DEF Inv, Shape, InitiateShutdown, WorkflowsHaveShutdown, WaitAll, WaiterWakes
<1>4. notified' \in BOOLEAN
  BY DEF Inv, Shape, InitiateShutdown, WorkflowsHaveShutdown, WaitAll, WaiterWakes
<1>5. Shape'
  BY <1>1, <1>2, <1>3, <1>4 DEF Inv, Shape
<1> QED
  BY <1>1, <1>3, <1>5, QuietInv

\* The stream is dropped with the permit it holds and what is queued.
LEMMA DropStreamInv == ASSUME Inv, DropStream PROVE Inv'
<1>1. /\ queue' = <<>> /\ cancels' = <<>> /\ held' = 0 /\ free' = free + held /\ waiter' = "finished"
      /\ UNCHANGED <<wf, info, gen, outstanding, backoffs, stale, poll, flags, notified, past>>
  BY DEF DropStream
<1>2. free \in Nat /\ held \in Nat /\ Cardinality(outstanding) \in Nat
      /\ free + held + Cardinality(outstanding) = Permits
  BY SlotTypes DEF Inv, Slots
<1>3. free' \in Nat /\ held' \in 0 .. 1 /\ Slots'
  BY <1>1, <1>2 DEF Slots
<1>4. queue' \in Seq(Attempts) /\ cancels' \in Seq(CancelReqs)
  BY <1>1
<1>5. Shape'
  BY <1>1, <1>3, <1>4 DEF Inv, Shape
<1>6. ASSUME NEW la \in LAs PROVE EntryInv(la)'
  <2>1. NrQueued(la)' = 0 /\ NrBackoffs(la)' = NrBackoffs(la) /\ NrOut(la)' = NrOut(la)
    BY <1>1, CountEmpty, SameCounts DEF NrQueued
  <2>2. NrQueued(la) \in Nat /\ NrBackoffs(la) \in Nat /\ NrOut(la) \in Nat
    BY NrType DEF Inv
  <2>3. Nr(la)' <= Nr(la) /\ Nr(la)' \in Nat /\ Nr(la) \in Nat
    BY <2>1, <2>2 DEF Nr
  <2>4. EntryInv(la)
    BY DEF Inv
  <2> QED
    BY <1>1, <2>1, <2>3, <2>4 DEF EntryInv
<1> QED
  BY <1>1, <1>3, <1>5, <1>6 DEF Inv, TokensInv

\* Every step preserves Inv.
LEMMA StepInv == Inv /\ [Next]_vars => Inv'
<1> SUFFICES ASSUME Inv, [Next]_vars PROVE Inv'
  OBVIOUS
<1>1. ASSUME NEW la \in LAs, Request(la) PROVE Inv'
  BY <1>1, RequestInv
<1>2. ASSUME NEW la \in LAs, Cancel(la) PROVE Inv'
  BY <1>2, CancelInv
<1>3. ASSUME NEW la \in LAs, SchedToCloseFires(la) PROVE Inv'
  BY <1>3, SchedToCloseFiresInv
<1>4. ASSUME NEW la \in LAs, StartToCloseFires(la) PROVE Inv'
  BY <1>4, StartToCloseFiresInv
<1>5. ASSUME NEW la \in LAs, StaleStartToCloseFires(la) PROVE Inv'
  BY <1>5, StaleStartToCloseFiresInv
<1>6. CASE Evict
  BY <1>6, EvictInv
<1>7. ASSUME NEW b \in backoffs, BackoffElapses(b) PROVE Inv'
  BY <1>7, BackoffElapsesInv
<1>8. ASSUME NEW t \in outstanding, LangCompletes(t) PROVE Inv'
  BY <1>8, LangCompletesInv
<1>9. CASE PollNext
  BY <1>9, PollStepInv, AcquirePermitInv, HandleTimeoutInv, TakeNewInv DEF PollNext
<1>10. CASE InitiateShutdown \/ WorkflowsHaveShutdown \/ WaitAll \/ WaiterWakes
  BY <1>10, ShutdownStepInv
<1>11. CASE DropStream
  BY <1>11, DropStreamInv
<1>12. CASE UNCHANGED vars
  <2>1. Shape'
    BY <1>12 DEF vars, Inv, Shape
  <2> QED
    BY <1>12, <2>1, QuietInv DEF vars
<1> QED
  BY <1>1, <1>2, <1>3, <1>4, <1>5, <1>6, <1>7, <1>8, <1>9, <1>10, <1>11, <1>12 DEF Next

\* The inductive invariant holds of every behaviour of the manager.
THEOREM LocalActivitiesInvariant == Spec => []Inv
<1>1. Init => Inv
  BY InitInv
<1>2. Inv /\ [Next]_vars => Inv'
  BY StepInv
<1> QED
  BY <1>1, <1>2, PTL DEF Spec

\* What Inv says about the types of the state.
LEMMA ShapeIsTyped == Inv => TypeOK
<1> SUFFICES ASSUME Inv PROVE TypeOK
  OBVIOUS
<1>1. free \in Nat /\ held \in 0 .. 1 /\ free \in 0 .. Permits
  <2>1. free \in Nat /\ held \in Nat /\ held \in 0 .. 1 /\ Cardinality(outstanding) \in Nat
    BY SlotTypes DEF Inv
  <2>2. free + held + Cardinality(outstanding) = Permits /\ Permits \in Nat
    BY LocalActivitiesAssumption DEF Inv, Slots
  <2> QED
    BY <2>1, <2>2
<1>2. \A t \in outstanding : t[1][1] \in LAs /\ t[2] \in 1 .. MaxAttempts[t[1][1]]
  BY TaskCounted DEF Inv
<1>3. \A b \in backoffs \cup Range(queue) : b[1] \in LAs /\ b[2] \in 1 .. MaxAttempts[b[1]]
  <2>1. queue \in Seq(Attempts) /\ backoffs \subseteq Attempts
    BY DEF Inv, Shape
  <2>2. Range(queue) \subseteq Attempts
    BY <2>1 DEF Range
  <2> QED
    BY <2>1, <2>2 DEF Attempts
<1>4. poll[1] \in {"out", "in", "timedout"}
  <2>1. poll \in Polls
    BY DEF Inv, Shape
  <2> QED
    BY <2>1 DEF Polls
<1> QED
  BY <1>1, <1>2, <1>3, <1>4 DEF TypeOK, Inv, Shape, Infos

\* No path through stream, completions, timeouts and shutdown loses a slot or
\* gives one back twice (local_activities.rs: next_pending, complete).
THEOREM PermitsAlwaysConserved == Spec => []PermitsConserved
<1>1. Inv => PermitsConserved
  BY ShapeIsTyped DEF PermitsConserved, Inv, Slots
<1> QED
  BY <1>1, LocalActivitiesInvariant, PTL

\* An activity exists once while it is wanted and not at all once reported
\* (local_activities.rs: enqueue, complete, next_pending), for any retry policies,
\* timeouts, cancels and evictions.
THEOREM ExecutedOnlyOnce == Spec => []ExecutedOnce
<1>1. Inv => ExecutedOnce
  <2> SUFFICES ASSUME Inv PROVE ExecutedOnce
    OBVIOUS
  <2>1. ASSUME NEW la \in LAs PROVE Copies(la) = Nr(la) /\ EntryInv(la) /\ Nr(la) \in Nat
    BY CopiesIsNr, NrType DEF Inv
  <2>2. OneCopy
    BY <2>1 DEF OneCopy, EntryInv
  <2>3. NoneLost
    BY <2>1 DEF NoneLost, EntryInv
  <2>4. NothingAfterReport
    <3>1. past.reported \subseteq LAs
      BY DEF Inv, Shape, PastType
    <3> QED
      BY <2>1, <3>1 DEF NothingAfterReport, EntryInv
  <2>5. EntryAgrees
    <3>1. ASSUME NEW t \in outstanding PROVE info[t[1][1]].on
      <4>1. t[1][1] \in LAs /\ NrOut(t[1][1]) # 0
        BY TaskCounted DEF Inv
      <4>2. EntryInv(t[1][1]) /\ NrQueued(t[1][1]) \in Nat /\ NrBackoffs(t[1][1]) \in Nat
            /\ NrOut(t[1][1]) \in Nat
        BY <4>1, NrType DEF Inv
      <4> QED
        BY <4>1, <4>2 DEF EntryInv, Nr
    <3> QED
      BY <3>1 DEF EntryAgrees, Inv, TokensInv
  <2> QED
    BY <2>2, <2>3, <2>4, <2>5 DEF ExecutedOnce
<1> QED
  BY <1>1, LocalActivitiesInvariant, PTL
=============================================================================
