----------------------- MODULE HeartbeatManagerProofs -----------------------
(***************************************************************************)
(* Proofs about HeartbeatManager, for any set of tokens and any number of  *)
(* heartbeats.  Inv counts, per token, what will wake the loop for it; it  *)
(* tells a token whose evict the loop has yet to handle (Live) from one    *)
(* that the loop is done with.  DetailsInv orders the details of a token   *)
(* along the way they take: answered, in flight, kept, queued.             *)
(***************************************************************************)
EXTENDS HeartbeatManager, SequenceTheorems, FiniteSetTheorems, TLAPS

----------------------------------------------------------------------------
(* How many members of a kind are in a queue.  The lemmas say what each    *)
(* change does to the count: conservation is then arithmetic.              *)

\* The positions of q that hold a member of S, and how many there are.
Where(q, S) == {i \in DOMAIN q : q[i] \in S}
Count(q, S) == Cardinality(Where(q, S))

\* The positions are finitely many: their number is a natural number.
LEMMA CountType ==
  ASSUME NEW T, NEW S, NEW q \in Seq(T)
  PROVE  IsFiniteSet(Where(q, S)) /\ Count(q, S) \in Nat
<1>1. IsFiniteSet(1..Len(q))
  BY FS_Interval
<1>2. Where(q, S) \in SUBSET (1..Len(q))
  BY DEF Where
<1>3. IsFiniteSet(Where(q, S))
  BY <1>1, <1>2, FS_Subset, Zenon
<1> QED
  BY <1>3, FS_CardinalityType DEF Count

\* An empty queue holds nothing.
LEMMA CountEmpty ==
  ASSUME NEW S
  PROVE  Where(<<>>, S) = {} /\ Count(<<>>, S) = 0
<1>1. Where(<<>>, S) = {}
  BY DEF Where
<1> QED
  BY <1>1, FS_EmptySet DEF Count

\* The count is zero exactly when no message is of the kind.
LEMMA CountZero ==
  ASSUME NEW T, NEW S, NEW q \in Seq(T)
  PROVE  Count(q, S) = 0 <=> \A i \in DOMAIN q : q[i] \notin S
<1>1. Count(q, S) = 0 <=> Where(q, S) = {}
  BY CountType, FS_EmptySet, Zenon DEF Count
<1> QED
  BY <1>1 DEF Where

\* A message at the tail adds one when it is of the kind.
LEMMA CountAppend ==
  ASSUME NEW T, NEW S, NEW q \in Seq(T), NEW e \in T
  PROVE  Count(Append(q, e), S) = Count(q, S) + (IF e \in S THEN 1 ELSE 0)
<1> DEFINE n == Len(q) + 1
<1>1. IsFiniteSet(Where(q, S)) /\ Count(q, S) \in Nat
  BY CountType
<1>2. n \notin Where(q, S)
  BY DEF Where
<1>3. Where(Append(q, e), S) = Where(q, S) \cup (IF e \in S THEN {n} ELSE {})
  BY AppendProperties DEF Where
<1>4. CASE e \in S
  <2>1. Where(Append(q, e), S) = Where(q, S) \cup {n}
    BY <1>3, <1>4
  <2>2. Cardinality(Where(q, S) \cup {n}) = Cardinality(Where(q, S)) + 1
    BY <1>1, <1>2, FS_AddElement, Zenon
  <2> QED
    BY <1>4, <2>1, <2>2 DEF Count
<1>5. CASE e \notin S
  <2>1. Where(Append(q, e), S) = Where(q, S)
    BY <1>3, <1>5
  <2> QED
    BY <1>1, <1>5, <2>1 DEF Count
<1> QED
  BY <1>4, <1>5

\* The message taken from the head takes one off when it is of the kind.
LEMMA CountTail ==
  ASSUME NEW T, NEW S, NEW q \in Seq(T), q # <<>>
  PROVE  Count(q, S) = Count(Tail(q), S) + (IF Head(q) \in S THEN 1 ELSE 0)
<1> DEFINE A == Where(Tail(q), S)
           B == Where(q, S) \ {1}
           f == [i \in A |-> i + 1]
<1>1. Tail(q) \in Seq(T) /\ Len(Tail(q)) = Len(q) - 1
      /\ \A i \in 1..Len(Tail(q)) : Tail(q)[i] = q[i + 1]
  BY HeadTailProperties
<1>2. Head(q) = q[1] /\ Len(q) \in Nat /\ Len(q) > 0 /\ DOMAIN q = 1..Len(q)
  BY HeadTailProperties, EmptySeq, LenProperties
<1>3. A \subseteq 1..(Len(q) - 1) /\ DOMAIN Tail(q) = 1..(Len(q) - 1)
  BY <1>1 DEF Where
<1>4. f \in [A -> B]
  <2>1. ASSUME NEW i \in A PROVE i + 1 \in B
    BY <1>1, <1>2, <1>3 DEF Where
  <2> QED
    BY <2>1
<1>5. \A i, j \in A : f[i] = f[j] => i = j
  BY <1>3
<1>6. ASSUME NEW j \in B PROVE \E i \in A : f[i] = j
  <2>1. j \in 2..Len(q) /\ q[j] \in S
    BY <1>2 DEF Where
  <2>2. j - 1 \in 1..(Len(q) - 1) /\ Tail(q)[j - 1] = q[j]
    BY <1>1, <1>2, <2>1
  <2>3. j - 1 \in A
    BY <1>3, <2>1, <2>2 DEF Where
  <2> QED
    BY <1>2, <2>1, <2>3
<1>7. f \in Bijection(A, B)
  <2> HIDE DEF A, B, f
  <2> QED
    BY <1>4, <1>5, <1>6, Zenon DEF Bijection, Injection, Surjection, IsInjective
<1>8. IsFiniteSet(A) /\ Cardinality(A) \in Nat
  BY <1>1, CountType DEF Count
<1>9. Cardinality(B) = Cardinality(A)
  BY <1>7, <1>8, FS_Bijection, Zenon DEF ExistsBijection
<1>10. IsFiniteSet(Where(q, S)) /\ Cardinality(Where(q, S)) \in Nat
  BY CountType DEF Count
<1>11. Cardinality(B) = IF 1 \in Where(q, S) THEN Cardinality(Where(q, S)) - 1
                                             ELSE Cardinality(Where(q, S))
  BY <1>10, FS_RemoveElement
<1>12. 1 \in Where(q, S) <=> Head(q) \in S
  BY <1>2 DEF Where
<1> QED
  BY <1>8, <1>9, <1>10, <1>11, <1>12 DEF Count

----------------------------------------------------------------------------
Types == {"SendHeartbeat", "Evict", "CompleteReport", "CompleteThrottle"}

\* The messages of a type for a token, how many of them are queued, and the
\* numbers of reports and of sleeps of a token.
Kind(type, tt) == {m \in Messages : m.type = type /\ m.tt = tt}
Nr(type, tt) == Count(incoming_hbs, Kind(type, tt))
NrReports(tt) == Cardinality(InFlight(tt))
NrSleeps(tt) == IF tt \in sleeps THEN 1 ELSE 0
Wakers(tt) == NrReports(tt) + Nr("CompleteReport", tt) + NrSleeps(tt) + Nr("CompleteThrottle", tt)

\* The loop has not handled an evict of the token.
Live(tt) == activity[tt] = "running" \/ Nr("Evict", tt) = 1

\* An evict is queued at most once, and only while its caller awaits it.
EvictInv(tt) ==
  /\ Nr("Evict", tt) <= 1
  /\ activity[tt] # "evicting" => Nr("Evict", tt) = 0

\* A live token has one waker when it is tracked and none otherwise; its record
\* is in flight exactly when the waker is a report or its completion.
LiveInv(tt) ==
  Live(tt) =>
    /\ tt \notin tt_needs_flush
    /\ Wakers(tt) = IF IsTracked(tt) THEN 1 ELSE 0
    /\ IsTracked(tt) => (tt_to_state[tt].in_flight
                           <=> NrReports(tt) + Nr("CompleteReport", tt) = 1)

\* After its evict a token is never tracked again: nothing is queued that could
\* make it so.
DoneInv(tt) ==
  ~Live(tt) =>
    /\ ~IsTracked(tt)
    /\ tt \notin sleeps
    /\ NrReports(tt) + Nr("CompleteReport", tt) <= 2
    /\ activity[tt] = "evicted" => tt \notin tt_needs_flush
    /\ Nr("SendHeartbeat", tt) = 0

\* No heartbeat is queued behind the evict of its activity.
QueueInv ==
  \A i, j \in DOMAIN incoming_hbs :
    (i < j /\ incoming_hbs[i].type = "Evict" /\ incoming_hbs[j].type = "SendHeartbeat")
      => incoming_hbs[i].tt # incoming_hbs[j].tt

TokenInv(tt) == EvictInv(tt) /\ LiveInv(tt) /\ DoneInv(tt)

Inv ==
  /\ TypeOK
  /\ IsFiniteSet(reports)
  /\ OneReportAtATime
  /\ EvictedIsForgotten
  /\ loop = "running" => QueueInv /\ \A tt \in Tokens : TokenInv(tt)

\* The details of a token in flight, those that were taken from the queue, and
\* the positions of its heartbeats in the queue.
Sent(tt) == {r.details : r \in InFlight(tt)}
Older(tt) == answered[tt] \cup Sent(tt) \cup {tt_to_state[tt].last}
IsBeat(i, tt) == incoming_hbs[i].type = "SendHeartbeat" /\ incoming_hbs[i].tt = tt

\* The queued heartbeats of a token are in order and newer than what was taken.
QueueOrder(tt) ==
  /\ \A i \in DOMAIN incoming_hbs : IsBeat(i, tt) =>
       /\ incoming_hbs[i].details <= beats[tt]
       /\ \A d \in Older(tt) : d < incoming_hbs[i].details
  /\ \A i, j \in DOMAIN incoming_hbs : i < j /\ IsBeat(i, tt) /\ IsBeat(j, tt)
       => incoming_hbs[i].details < incoming_hbs[j].details

\* While the activity runs: what is answered is older than what is in flight,
\* that is older than what is kept, and that is older than what is queued.
DetailsOrder(tt) ==
  activity[tt] = "running" =>
    /\ \A a \in answered[tt], d \in Sent(tt) : a < d
    /\ \A d \in Older(tt) : d <= beats[tt]
    /\ loop = "running" =>
         /\ tt_to_state[tt].last # 0 =>
              \A d \in answered[tt] \cup Sent(tt) : d < tt_to_state[tt].last
         /\ QueueOrder(tt)

DetailsInv == \A tt \in Tokens : DetailsOrder(tt)

----------------------------------------------------------------------------
(* What the elementary changes do to the counts.                           *)

\* Counts are natural numbers.
LEMMA NrType ==
  ASSUME TypeOK, IsFiniteSet(reports), NEW tt \in Tokens
  PROVE  /\ \A type \in Types : Nr(type, tt) \in Nat
         /\ NrReports(tt) \in Nat /\ NrSleeps(tt) \in Nat
         /\ IsFiniteSet(InFlight(tt))
<1>1. \A type \in Types : Nr(type, tt) \in Nat
  BY CountType DEF TypeOK, Nr
<1>2. InFlight(tt) \in SUBSET reports
  BY DEF InFlight
<1>3. IsFiniteSet(InFlight(tt))
  BY <1>2, FS_Subset, Zenon
<1>4. NrReports(tt) \in Nat
  BY <1>3, FS_CardinalityType DEF NrReports
<1> QED
  BY <1>1, <1>3, <1>4 DEF NrSleeps

\* Without wakers there is none of each kind, in particular no report.
LEMMA NoWakers ==
  ASSUME TypeOK, IsFiniteSet(reports), NEW tt \in Tokens, Wakers(tt) = 0
  PROVE  /\ NrReports(tt) = 0 /\ Nr("CompleteReport", tt) = 0
         /\ NrSleeps(tt) = 0 /\ Nr("CompleteThrottle", tt) = 0
         /\ InFlight(tt) = {}
<1>1. \A a, b, c, d \in Nat : a + b + c + d = 0 => a = 0 /\ b = 0 /\ c = 0 /\ d = 0
  OBVIOUS
<1>2. /\ NrReports(tt) \in Nat /\ NrSleeps(tt) \in Nat /\ IsFiniteSet(InFlight(tt))
      /\ Nr("CompleteReport", tt) \in Nat /\ Nr("CompleteThrottle", tt) \in Nat
  BY NrType DEF Types
<1>3. /\ NrReports(tt) = 0 /\ Nr("CompleteReport", tt) = 0
      /\ NrSleeps(tt) = 0 /\ Nr("CompleteThrottle", tt) = 0
  BY <1>1, <1>2 DEF Wakers
<1> QED
  BY <1>2, <1>3, FS_EmptySet DEF NrReports

\* The sets of positions the properties count are those of Nr.
LEMMA QueuedIsWhere ==
  ASSUME TypeOK, NEW type \in Types, NEW tt \in Tokens
  PROVE  Cardinality(Queued(type, tt)) = Nr(type, tt)
<1>1. \A i \in DOMAIN incoming_hbs : incoming_hbs[i] \in Messages
  BY DEF TypeOK
<1>2. Queued(type, tt) = Where(incoming_hbs, Kind(type, tt))
  BY <1>1 DEF Queued, Where, Kind
<1> QED
  BY <1>2 DEF Nr, Count

\* A message that is sent to a running loop adds one to the count of its kind.
LEMMA SendFacts ==
  ASSUME TypeOK, loop = "running", NEW m \in Messages, Send(m)
  PROVE  /\ incoming_hbs' = Append(incoming_hbs, m)
         /\ incoming_hbs' \in Seq(Messages)
         /\ \A type \in Types, tt \in Tokens :
              Nr(type, tt)' = Nr(type, tt) + (IF m.type = type /\ m.tt = tt THEN 1 ELSE 0)
<1>1. incoming_hbs' = Append(incoming_hbs, m) /\ incoming_hbs \in Seq(Messages)
  BY DEF Send, TypeOK
<1>2. ASSUME NEW type \in Types, NEW tt \in Tokens
      PROVE  Nr(type, tt)' = Nr(type, tt) + (IF m.type = type /\ m.tt = tt THEN 1 ELSE 0)
  <2>1. m \in Kind(type, tt) <=> m.type = type /\ m.tt = tt
    BY DEF Kind
  <2>2. Nr(type, tt)' = Count(incoming_hbs', Kind(type, tt))
    BY DEF Nr, Kind
  <2> QED
    BY <1>1, <2>1, <2>2, CountAppend DEF Nr
<1> QED
  BY <1>1, <1>2, AppendProperties

\* A message that the loop takes takes one off the count of its kind.
LEMMA TakeFacts ==
  ASSUME TypeOK, NEW t \in Types, Take(t)
  PROVE  LET m == Head(incoming_hbs) IN
         /\ loop = "running"
         /\ m \in Messages /\ m.type = t /\ m.tt \in Tokens
         /\ t = "SendHeartbeat" => m.details \in 1..MaxBeats
         /\ m = incoming_hbs[1] /\ 1 \in DOMAIN incoming_hbs
         /\ incoming_hbs' \in Seq(Messages)
         /\ \A i \in DOMAIN incoming_hbs' : i + 1 \in DOMAIN incoming_hbs
                                            /\ incoming_hbs'[i] = incoming_hbs[i + 1]
         /\ \A type \in Types, tt \in Tokens :
              Nr(type, tt) = Nr(type, tt)' + (IF type = t /\ tt = m.tt THEN 1 ELSE 0)
<1> DEFINE m == Head(incoming_hbs)
<1>1. /\ loop = "running" /\ incoming_hbs # <<>> /\ m.type = t
      /\ incoming_hbs' = Tail(incoming_hbs) /\ incoming_hbs \in Seq(Messages)
  BY DEF Take, TypeOK
<1>2. m \in Messages /\ m = incoming_hbs[1] /\ 1 \in DOMAIN incoming_hbs
  BY <1>1
<1>3. m.tt \in Tokens /\ (t = "SendHeartbeat" => m.details \in 1..MaxBeats)
  BY <1>1, <1>2 DEF Messages
<1>4. /\ incoming_hbs' \in Seq(Messages)
      /\ \A i \in DOMAIN incoming_hbs' : i + 1 \in DOMAIN incoming_hbs
                                         /\ incoming_hbs'[i] = incoming_hbs[i + 1]
  BY <1>1
<1>5. ASSUME NEW type \in Types, NEW tt \in Tokens
      PROVE  Nr(type, tt) = Nr(type, tt)' + (IF type = t /\ tt = m.tt THEN 1 ELSE 0)
  <2>1. m \in Kind(type, tt) <=> type = t /\ tt = m.tt
    BY <1>1, <1>2 DEF Kind
  <2>2. Nr(type, tt)' = Count(incoming_hbs', Kind(type, tt))
    BY DEF Nr, Kind
  <2> QED
    BY <1>1, <2>1, <2>2, CountTail DEF Nr
<1> QED
  BY <1>1, <1>2, <1>3, <1>4, <1>5

\* Starting a report adds at most one to the reports of its token, and exactly
\* one when the token has none.
LEMMA StartFacts ==
  ASSUME TypeOK, IsFiniteSet(reports), NEW r \in Reports, reports' = reports \cup {r}
  PROVE  /\ reports' \subseteq Reports /\ IsFiniteSet(reports')
         /\ \A tt \in Tokens : tt # r.tt => InFlight(tt)' = InFlight(tt)
         /\ InFlight(r.tt)' = InFlight(r.tt) \cup {r}
         /\ NrReports(r.tt)' <= NrReports(r.tt) + 1
         /\ NrReports(r.tt) = 0 => NrReports(r.tt)' = 1 /\ InFlight(r.tt)' = {r}
<1>0. r.tt \in Tokens
  BY DEF Reports
<1>1. IsFiniteSet(reports')
  BY FS_AddElement
<1>2. InFlight(r.tt)' = InFlight(r.tt) \cup {r}
  BY DEF InFlight
<1>3. IsFiniteSet(InFlight(r.tt)) /\ NrReports(r.tt) \in Nat
  BY <1>0, NrType
<1>4. Cardinality(InFlight(r.tt) \cup {r})
        = IF r \in InFlight(r.tt) THEN NrReports(r.tt) ELSE NrReports(r.tt) + 1
  BY <1>3, FS_AddElement DEF NrReports
<1>5. NrReports(r.tt)' <= NrReports(r.tt) + 1
  BY <1>2, <1>3, <1>4 DEF NrReports
<1>6. ASSUME NrReports(r.tt) = 0 PROVE NrReports(r.tt)' = 1 /\ InFlight(r.tt)' = {r}
  <2>1. InFlight(r.tt) = {}
    BY <1>3, <1>6, FS_EmptySet DEF NrReports
  <2> QED
    BY <1>2, <2>1, FS_Singleton DEF NrReports
<1>7. \A tt \in Tokens : tt # r.tt => InFlight(tt)' = InFlight(tt)
  BY DEF InFlight
<1>8. reports' \subseteq Reports
  BY DEF TypeOK
<1> QED
  BY <1>1, <1>2, <1>5, <1>6, <1>7, <1>8

\* A report that ends is one less for its token.
LEMMA EndFacts ==
  ASSUME TypeOK, IsFiniteSet(reports), NEW r \in reports, reports' = reports \ {r}
  PROVE  /\ r \in Reports /\ r.tt \in Tokens /\ r.details \in 1..MaxBeats
         /\ reports' \subseteq Reports /\ IsFiniteSet(reports')
         /\ \A tt \in Tokens : tt # r.tt => InFlight(tt)' = InFlight(tt)
         /\ InFlight(r.tt)' = InFlight(r.tt) \ {r}
         /\ NrReports(r.tt)' = NrReports(r.tt) - 1
         /\ NrReports(r.tt) > 0
<1>0. r \in Reports /\ r.tt \in Tokens /\ r.details \in 1..MaxBeats
  BY DEF Reports, TypeOK
<1>1. IsFiniteSet(reports')
  BY FS_RemoveElement
<1>2. InFlight(r.tt)' = InFlight(r.tt) \ {r}
  BY DEF InFlight
<1>3. IsFiniteSet(InFlight(r.tt)) /\ NrReports(r.tt) \in Nat
  BY <1>0, NrType
<1>4. r \in InFlight(r.tt)
  BY DEF InFlight
<1>5. NrReports(r.tt)' = NrReports(r.tt) - 1
  BY <1>2, <1>3, <1>4, FS_RemoveElement DEF NrReports
<1>6. NrReports(r.tt) # 0
  BY <1>3, <1>4, FS_EmptySet DEF NrReports
<1>7. \A tt \in Tokens : tt # r.tt => InFlight(tt)' = InFlight(tt)
  BY DEF InFlight
<1>8. reports' \subseteq Reports
  BY DEF TypeOK
<1> QED
  BY <1>0, <1>1, <1>2, <1>3, <1>5, <1>6, <1>7, <1>8

----------------------------------------------------------------------------
(* Inv is inductive.                                                       *)

\* What the clauses of the tokens say about the properties.
LEMMA TokensSafe ==
  TypeOK /\ IsFiniteSet(reports) /\ loop = "running" /\ (\A tt \in Tokens : TokenInv(tt))
    => OneReportAtATime /\ EvictedIsForgotten
<1> SUFFICES ASSUME TypeOK, IsFiniteSet(reports), loop = "running",
                    \A tt \in Tokens : TokenInv(tt), NEW tt \in Tokens
             PROVE  /\ NrReports(tt) <= (IF activity[tt] = "running" THEN 1 ELSE 2)
                    /\ activity[tt] = "evicted" =>
                         ~IsTracked(tt) /\ tt \notin tt_needs_flush /\ tt \notin sleeps
  BY DEF OneReportAtATime, EvictedIsForgotten, NrReports
<1>1. /\ NrReports(tt) \in Nat /\ NrSleeps(tt) \in Nat /\ Nr("Evict", tt) \in Nat
      /\ Nr("CompleteReport", tt) \in Nat /\ Nr("CompleteThrottle", tt) \in Nat
  BY NrType DEF Types
<1> QED
  BY <1>1 DEF TokenInv, EvictInv, LiveInv, DoneInv, Live, Wakers

\* A step that leaves what concerns a token alone keeps its clauses.
LEMMA Frame ==
  ASSUME NEW tt \in Tokens, TokenInv(tt),
         activity'[tt] = activity[tt], tt_to_state'[tt] = tt_to_state[tt],
         tt \in tt_needs_flush' <=> tt \in tt_needs_flush,
         tt \in sleeps' <=> tt \in sleeps,
         InFlight(tt)' = InFlight(tt),
         \A type \in Types : Nr(type, tt)' = Nr(type, tt)
  PROVE  TokenInv(tt)'
<1>1. NrReports(tt)' = NrReports(tt) /\ NrSleeps(tt)' = NrSleeps(tt)
  BY DEF NrReports, NrSleeps
<1>2. Wakers(tt)' = Wakers(tt) /\ (Live(tt)' <=> Live(tt)) /\ (IsTracked(tt)' <=> IsTracked(tt))
  BY <1>1 DEF Wakers, Live, Types, IsTracked
<1> QED
  BY <1>1, <1>2 DEF TokenInv, EvictInv, LiveInv, DoneInv, Types

\* With the loop running Inv follows from its parts that speak of the queue.
LEMMA RunningInv ==
  ASSUME TypeOK', IsFiniteSet(reports)', loop' = "running", QueueInv',
         \A tt \in Tokens : TokenInv(tt)'
  PROVE  Inv'
<1>1. (TypeOK /\ IsFiniteSet(reports) /\ loop = "running" /\ (\A tt \in Tokens : TokenInv(tt))
         => OneReportAtATime /\ EvictedIsForgotten)'
  BY TokensSafe, PTL
<1> QED
  BY <1>1 DEF Inv

\* Taking a message keeps heartbeats ahead of the evict of their activity.
LEMMA TakeQueueInv ==
  ASSUME TypeOK, NEW t \in Types, Take(t), QueueInv
  PROVE  QueueInv'
<1>1. \A i \in DOMAIN incoming_hbs' : i + 1 \in DOMAIN incoming_hbs
                                      /\ incoming_hbs'[i] = incoming_hbs[i + 1]
  BY TakeFacts
<1>2. DOMAIN incoming_hbs' \subseteq Nat
  BY TakeFacts
<1> QED
  BY <1>1, <1>2 DEF QueueInv

\* So does sending one, unless it is a heartbeat and an evict is queued.
LEMMA SendQueueInv ==
  ASSUME TypeOK, loop = "running", NEW m \in Messages, Send(m), QueueInv,
         m.tt \in Tokens, m.type = "SendHeartbeat" => Nr("Evict", m.tt) = 0
  PROVE  QueueInv'
<1>1. incoming_hbs' = Append(incoming_hbs, m) /\ incoming_hbs \in Seq(Messages)
  BY SendFacts DEF TypeOK
<1>2. /\ DOMAIN incoming_hbs' = 1..(Len(incoming_hbs) + 1)
      /\ incoming_hbs'[Len(incoming_hbs) + 1] = m
      /\ \A i \in DOMAIN incoming_hbs : incoming_hbs'[i] = incoming_hbs[i]
      /\ Len(incoming_hbs) \in Nat /\ DOMAIN incoming_hbs = 1..Len(incoming_hbs)
  BY <1>1, AppendProperties
<1>3. ASSUME m.type = "SendHeartbeat", NEW i \in DOMAIN incoming_hbs, incoming_hbs[i].type = "Evict"
      PROVE  incoming_hbs[i].tt # m.tt
  <2>1. incoming_hbs[i] \notin Kind("Evict", m.tt)
    BY <1>1, <1>3, CountZero DEF Nr
  <2> QED
    BY <1>1, <1>3, <2>1 DEF Kind
<1> QED
  BY <1>2, <1>3 DEF QueueInv

\* The manager starts with nothing under way.
LEMMA InitInv == Init => Inv
<1> SUFFICES ASSUME Init PROVE Inv
  OBVIOUS
<1>1. TypeOK
  BY HeartbeatAssumption DEF Init, TypeOK, States, Untracked
<1>2. IsFiniteSet(reports)
  BY FS_EmptySet DEF Init
<1>3. ASSUME NEW tt \in Tokens PROVE TokenInv(tt)
  <2>1. \A type \in Types : Nr(type, tt) = 0
    BY CountEmpty DEF Init, Nr
  <2>2. NrReports(tt) = 0
    <3>1. InFlight(tt) = {}
      BY DEF Init, InFlight
    <3> QED
      BY <3>1, FS_EmptySet DEF NrReports
  <2> QED
    BY <2>1, <2>2 DEF Init, TokenInv, EvictInv, LiveInv, DoneInv, Live, Wakers, NrSleeps, IsTracked,
                      Untracked, Types
<1>4. QueueInv
  BY DEF Init, QueueInv
<1> QED
  BY <1>1, <1>2, <1>3, <1>4, TokensSafe DEF Init, Inv

USE HeartbeatAssumption

\* A heartbeat of a running activity: its message comes before any evict.
LEMMA RecordHeartbeatInv == ASSUME Inv, NEW tt \in Tokens, RecordHeartbeat(tt) PROVE Inv'
<1> DEFINE m == [type |-> "SendHeartbeat", tt |-> tt, details |-> beats[tt] + 1]
<1>1. m \in Messages /\ beats' \in [Tokens -> 0..MaxBeats] /\ m.type = "SendHeartbeat" /\ m.tt = tt
  BY DEF Inv, TypeOK, RecordHeartbeat, Messages
<1>2. IsFiniteSet(reports)' /\ activity'[tt] = "running"
  BY DEF Inv, RecordHeartbeat
<1>3. CASE loop = "running"
  <2>1. /\ incoming_hbs' \in Seq(Messages)
        /\ \A type \in Types, u \in Tokens :
             Nr(type, u)' = Nr(type, u) + (IF type = "SendHeartbeat" /\ u = tt THEN 1 ELSE 0)
    BY <1>1, <1>3, SendFacts DEF Inv, RecordHeartbeat
  <2>2. TypeOK'
    BY <1>1, <2>1 DEF Inv, TypeOK, RecordHeartbeat
  <2>3. QueueInv'
    BY <1>1, <1>3, SendQueueInv DEF Inv, RecordHeartbeat, TokenInv, EvictInv
  <2>4. ASSUME NEW u \in Tokens PROVE TokenInv(u)'
    <3>1. \A type \in Types : Nr(type, u) \in Nat
      BY NrType DEF Inv
    <3>2. InFlight(u)' = InFlight(u) /\ NrReports(u)' = NrReports(u) /\ NrSleeps(u)' = NrSleeps(u)
          /\ IsTracked(u)' = IsTracked(u)
      BY DEF RecordHeartbeat, InFlight, NrReports, NrSleeps, IsTracked
    <3>3. CASE u # tt
      BY <1>3, <2>1, <3>1, <3>2, <3>3, Frame DEF Inv, RecordHeartbeat
    <3>4. CASE u = tt
      <4>1. /\ Nr("Evict", u)' = Nr("Evict", u)
            /\ Nr("CompleteReport", u)' = Nr("CompleteReport", u)
            /\ Nr("CompleteThrottle", u)' = Nr("CompleteThrottle", u)
        BY <2>1, <3>1 DEF Types
      <4>2. Live(u) /\ Live(u)' /\ Wakers(u)' = Wakers(u)
        BY <1>2, <3>2, <3>4, <4>1 DEF Live, Wakers, RecordHeartbeat
      <4> QED
        BY <1>3, <3>2, <4>1, <4>2 DEF Inv, TokenInv, EvictInv, LiveInv, DoneInv, RecordHeartbeat
    <3> QED
      BY <3>3, <3>4
  <2> QED
    BY <1>2, <1>3, <2>2, <2>3, <2>4, RunningInv DEF RecordHeartbeat
<1>4. CASE loop # "running"
  <2>1. TypeOK'
    BY <1>1, <1>4 DEF Inv, TypeOK, RecordHeartbeat, Send
  <2> QED
    BY <1>2, <1>4, <2>1 DEF Inv, RecordHeartbeat, OneReportAtATime, EvictedIsForgotten, InFlight,
                            IsTracked
<1> QED
  BY <1>3, <1>4

\* An evict call: its message is the only evict of the token.
LEMMA EvictCallInv == ASSUME Inv, NEW tt \in Tokens, EvictCall(tt) PROVE Inv'
<1> DEFINE m == [type |-> "Evict", tt |-> tt]
<1>1. m \in Messages /\ m.type = "Evict" /\ m.tt = tt
  BY DEF Messages
<1>2. /\ IsFiniteSet(reports)' /\ activity[tt] = "running" /\ activity'[tt] = "evicting"
      /\ \A u \in Tokens : u # tt => activity'[u] = activity[u]
      /\ activity' \in [Tokens -> {"running", "evicting", "evicted"}]
  BY DEF Inv, EvictCall, TypeOK
<1>3. CASE loop = "running"
  <2>1. /\ incoming_hbs' \in Seq(Messages)
        /\ \A type \in Types, u \in Tokens :
             Nr(type, u)' = Nr(type, u) + (IF type = "Evict" /\ u = tt THEN 1 ELSE 0)
    BY <1>1, <1>3, SendFacts DEF Inv, EvictCall
  <2>2. TypeOK'
    BY <1>2, <2>1 DEF Inv, TypeOK, EvictCall
  <2>3. QueueInv'
    BY <1>1, <1>3, SendQueueInv DEF Inv, EvictCall
  <2>4. ASSUME NEW u \in Tokens PROVE TokenInv(u)'
    <3>1. \A type \in Types : Nr(type, u) \in Nat
      BY NrType DEF Inv
    <3>2. InFlight(u)' = InFlight(u) /\ NrReports(u)' = NrReports(u) /\ NrSleeps(u)' = NrSleeps(u)
          /\ IsTracked(u)' = IsTracked(u)
      BY DEF EvictCall, InFlight, NrReports, NrSleeps, IsTracked
    <3>3. CASE u # tt
      BY <1>2, <1>3, <2>1, <3>1, <3>2, <3>3, Frame DEF Inv, EvictCall
    <3>4. CASE u = tt
      <4>1. Nr("Evict", u) = 0
        BY <1>2, <1>3, <3>4 DEF Inv, TokenInv, EvictInv
      <4>2. /\ Nr("Evict", u)' = 1
            /\ Nr("CompleteReport", u)' = Nr("CompleteReport", u)
            /\ Nr("CompleteThrottle", u)' = Nr("CompleteThrottle", u)
        BY <2>1, <3>1, <3>4, <4>1 DEF Types
      <4>3. Live(u) /\ Live(u)' /\ Wakers(u)' = Wakers(u)
        BY <1>2, <3>2, <3>4, <4>2 DEF Live, Wakers
      <4> QED
        BY <1>2, <1>3, <3>2, <3>4, <4>2, <4>3
           DEF Inv, TokenInv, EvictInv, LiveInv, DoneInv, EvictCall
    <3> QED
      BY <3>3, <3>4
  <2> QED
    BY <1>2, <1>3, <2>2, <2>3, <2>4, RunningInv DEF EvictCall
<1>4. CASE loop # "running"
  <2>1. TypeOK'
    BY <1>2, <1>4 DEF Inv, TypeOK, EvictCall, Send
  <2>2. OneReportAtATime'
    <3> SUFFICES ASSUME NEW u \in Tokens
                 PROVE  NrReports(u)' <= (IF activity'[u] = "running" THEN 1 ELSE 2)
      BY DEF OneReportAtATime, NrReports
    <3>1. NrReports(u)' = NrReports(u) /\ NrReports(u) \in Nat
      BY NrType DEF Inv, EvictCall, NrReports, InFlight
    <3> QED
      BY <1>2, <3>1 DEF Inv, OneReportAtATime, NrReports
  <2>3. EvictedIsForgotten'
    BY <1>2 DEF Inv, EvictCall, EvictedIsForgotten, IsTracked
  <2> QED
    BY <1>2, <1>4, <2>1, <2>2, <2>3 DEF Inv, EvictCall
<1> QED
  BY <1>3, <1>4

\* A sleep that ends hands its wake-up over to its message.
LEMMA SleepEndsInv == ASSUME Inv, NEW tt \in Tokens, SleepEnds(tt) PROVE Inv'
<1> DEFINE m == [type |-> "CompleteThrottle", tt |-> tt]
<1>1. m \in Messages /\ m.type = "CompleteThrottle" /\ m.tt = tt
  BY DEF Messages
<1>2. IsFiniteSet(reports)' /\ tt \in sleeps /\ sleeps' = sleeps \ {tt} /\ sleeps' \subseteq Tokens
  BY DEF Inv, SleepEnds, TypeOK
<1>3. CASE loop = "running"
  <2>1. /\ incoming_hbs' \in Seq(Messages)
        /\ \A type \in Types, u \in Tokens :
             Nr(type, u)' = Nr(type, u) + (IF type = "CompleteThrottle" /\ u = tt THEN 1 ELSE 0)
    BY <1>1, <1>3, SendFacts DEF Inv, SleepEnds
  <2>2. TypeOK'
    BY <1>2, <2>1 DEF Inv, TypeOK, SleepEnds
  <2>3. QueueInv'
    BY <1>1, <1>3, SendQueueInv DEF Inv, SleepEnds
  <2>4. ASSUME NEW u \in Tokens PROVE TokenInv(u)'
    <3>1. \A type \in Types : Nr(type, u) \in Nat
      BY NrType DEF Inv
    <3>2. InFlight(u)' = InFlight(u) /\ NrReports(u)' = NrReports(u) /\ IsTracked(u)' = IsTracked(u)
          /\ NrReports(u) \in Nat
      BY NrType DEF SleepEnds, InFlight, NrReports, IsTracked, Inv
    <3>3. CASE u # tt
      BY <1>2, <1>3, <2>1, <3>1, <3>2, <3>3, Frame DEF Inv, SleepEnds
    <3>4. CASE u = tt
      <4>1. /\ Nr("Evict", u)' = Nr("Evict", u)
            /\ Nr("CompleteReport", u)' = Nr("CompleteReport", u)
            /\ Nr("CompleteThrottle", u)' = Nr("CompleteThrottle", u) + 1
            /\ Nr("SendHeartbeat", u)' = Nr("SendHeartbeat", u)
        BY <2>1, <3>1, <3>4 DEF Types
      <4>2. NrSleeps(u) = 1 /\ NrSleeps(u)' = 0
        BY <1>2, <3>4 DEF NrSleeps
      <4>3. Live(u)' = Live(u) /\ Wakers(u)' = Wakers(u)
        BY <3>1, <3>2, <4>1, <4>2 DEF Live, Wakers, SleepEnds, Types
      <4> QED
        BY <1>2, <1>3, <3>2, <3>4, <4>1, <4>3
           DEF Inv, TokenInv, EvictInv, LiveInv, DoneInv, SleepEnds
    <3> QED
      BY <3>3, <3>4
  <2> QED
    BY <1>2, <1>3, <2>2, <2>3, <2>4, RunningInv DEF SleepEnds
<1>4. CASE loop # "running"
  <2>1. TypeOK'
    BY <1>2, <1>4 DEF Inv, TypeOK, SleepEnds, Send
  <2>2. EvictedIsForgotten'
    BY <1>2 DEF Inv, SleepEnds, EvictedIsForgotten, IsTracked
  <2> QED
    BY <1>2, <1>4, <2>1, <2>2 DEF Inv, SleepEnds, OneReportAtATime, InFlight
<1> QED
  BY <1>3, <1>4

\* A report that ends hands its wake-up over to its message.
LEMMA ReportEndsInv == ASSUME Inv, NEW r \in reports, ReportEnds(r) PROVE Inv'
<1> DEFINE tt == r.tt
           m == [type |-> "CompleteReport", tt |-> tt]
<1>1. /\ tt \in Tokens /\ r.details \in 1..MaxBeats /\ reports' \subseteq Reports /\ IsFiniteSet(reports)'
      /\ \A u \in Tokens : u # tt => InFlight(u)' = InFlight(u)
      /\ NrReports(tt)' = NrReports(tt) - 1 /\ NrReports(tt) > 0
  BY EndFacts DEF Inv, ReportEnds
<1>2. m \in Messages /\ m.type = "CompleteReport" /\ m.tt = tt
  BY <1>1 DEF Messages
<1>3. answered' \in [Tokens -> SUBSET (1..MaxBeats)] /\ cancels' \subseteq Tokens
  BY <1>1 DEF Inv, TypeOK, ReportEnds
<1>4. CASE loop = "running"
  <2>1. /\ incoming_hbs' \in Seq(Messages)
        /\ \A type \in Types, u \in Tokens :
             Nr(type, u)' = Nr(type, u) + (IF type = "CompleteReport" /\ u = tt THEN 1 ELSE 0)
    BY <1>2, <1>4, SendFacts DEF Inv, ReportEnds
  <2>2. TypeOK'
    BY <1>1, <1>3, <2>1 DEF Inv, TypeOK, ReportEnds
  <2>3. QueueInv'
    BY <1>1, <1>2, <1>4, SendQueueInv DEF Inv, ReportEnds
  <2>4. ASSUME NEW u \in Tokens PROVE TokenInv(u)'
    <3>1. (\A type \in Types : Nr(type, u) \in Nat) /\ NrReports(u) \in Nat /\ NrSleeps(u) \in Nat
      BY NrType DEF Inv
    <3>2. IsTracked(u)' = IsTracked(u) /\ NrSleeps(u)' = NrSleeps(u)
      BY DEF ReportEnds, IsTracked, NrSleeps
    <3>3. CASE u # tt
      BY <1>1, <1>4, <2>1, <3>1, <3>2, <3>3, Frame DEF Inv, ReportEnds
    <3>4. CASE u = tt
      <4>1. /\ Nr("Evict", u)' = Nr("Evict", u)
            /\ Nr("CompleteReport", u)' = Nr("CompleteReport", u) + 1
            /\ Nr("CompleteThrottle", u)' = Nr("CompleteThrottle", u)
            /\ Nr("SendHeartbeat", u)' = Nr("SendHeartbeat", u)
        BY <2>1, <3>1, <3>4 DEF Types
      <4>2. NrReports(u)' + Nr("CompleteReport", u)' = NrReports(u) + Nr("CompleteReport", u)
        BY <1>1, <3>1, <3>4, <4>1 DEF Types
      <4>3. NrReports(u)' \in Nat
        BY <1>1, <3>1, <3>4
      <4>4. Live(u)' = Live(u) /\ Wakers(u)' = Wakers(u)
        BY <3>1, <3>2, <4>1, <4>2, <4>3 DEF Live, Wakers, ReportEnds, Types
      <4> QED
        BY <1>4, <3>2, <3>4, <4>1, <4>2, <4>4
           DEF Inv, TokenInv, EvictInv, LiveInv, DoneInv, ReportEnds
    <3> QED
      BY <3>3, <3>4
  <2> QED
    BY <1>1, <1>4, <2>2, <2>3, <2>4, RunningInv DEF ReportEnds
<1>5. CASE loop # "running"
  <2>1. TypeOK'
    BY <1>1, <1>3, <1>5 DEF Inv, TypeOK, ReportEnds, Send
  <2>2. OneReportAtATime'
    <3> SUFFICES ASSUME NEW u \in Tokens
                 PROVE  NrReports(u)' <= (IF activity[u] = "running" THEN 1 ELSE 2)
      BY DEF OneReportAtATime, NrReports, ReportEnds
    <3>1. NrReports(u)' <= NrReports(u) /\ NrReports(u) \in Nat /\ NrReports(u)' \in Nat
      BY <1>1, NrType DEF Inv, NrReports
    <3> QED
      BY <3>1 DEF Inv, OneReportAtATime, NrReports
  <2>3. EvictedIsForgotten'
    BY DEF Inv, ReportEnds, EvictedIsForgotten, IsTracked
  <2> QED
    BY <1>1, <1>5, <2>1, <2>2, <2>3 DEF Inv, ReportEnds
<1> QED
  BY <1>4, <1>5

\* A heartbeat that the loop handles: only a live token has one queued, so an
\* untracked one has no waker yet and gets its report.
LEMMA RecordInv == ASSUME Inv, Record PROVE Inv'
<1>0. PICK tt \in Tokens, d \in 1..MaxBeats :
        tt = Head(incoming_hbs).tt /\ d = Head(incoming_hbs).details
  BY TakeFacts DEF Inv, Record, Types
<1> DEFINE r == [tt |-> tt, details |-> d]
<1>1. /\ loop = "running" /\ loop' = "running"
      /\ incoming_hbs' \in Seq(Messages)
      /\ \A type \in Types, u \in Tokens :
           Nr(type, u) = Nr(type, u)' + (IF type = "SendHeartbeat" /\ u = tt THEN 1 ELSE 0)
  BY <1>0, TakeFacts DEF Inv, Record, Types
<1>2. QueueInv'
  BY <1>1, TakeQueueInv DEF Inv, Record, Types
<1>3. ASSUME NEW u \in Tokens
      PROVE  /\ \A type \in Types : Nr(type, u) \in Nat /\ Nr(type, u)' \in Nat
             /\ NrReports(u) \in Nat /\ NrSleeps(u) \in Nat
             /\ TokenInv(u) /\ NrSleeps(u)' = NrSleeps(u)
  BY <1>1, NrType, CountType DEF Inv, Record, NrSleeps, Nr
<1>4. /\ Nr("Evict", tt)' = Nr("Evict", tt)
      /\ Nr("CompleteReport", tt)' = Nr("CompleteReport", tt)
      /\ Nr("CompleteThrottle", tt)' = Nr("CompleteThrottle", tt)
      /\ Nr("SendHeartbeat", tt) # 0
  BY <1>1, <1>3 DEF Types
<1>5. Live(tt) /\ Live(tt)'
  BY <1>1, <1>3, <1>4 DEF TokenInv, DoneInv, Live, Record
<1>6. CASE ~IsTracked(tt)
  <2>1. r \in Reports /\ reports' = reports \cup {r} /\ r.tt = tt
    BY <1>0, <1>6 DEF Record, Reports
  <2>2. Wakers(tt) = 0
    BY <1>1, <1>3, <1>5, <1>6 DEF TokenInv, LiveInv
  <2>3. /\ NrReports(tt) = 0 /\ Nr("CompleteReport", tt) = 0 /\ NrSleeps(tt) = 0
        /\ Nr("CompleteThrottle", tt) = 0
    BY <2>2, NoWakers DEF Inv
  <2>4. /\ reports' \subseteq Reports /\ IsFiniteSet(reports)'
        /\ \A u \in Tokens : u # tt => InFlight(u)' = InFlight(u)
        /\ NrReports(tt)' = 1
    BY <2>1, <2>3, StartFacts DEF Inv
  <2>5. /\ tt_to_state' \in [Tokens -> States] /\ tt_to_state'[tt] = Reporting
        /\ \A u \in Tokens : u # tt => tt_to_state'[u] = tt_to_state[u]
    <3>1. tt_to_state' = [tt_to_state EXCEPT ![tt] = Reporting]
      BY <1>0, <1>6 DEF Record
    <3> QED
      BY <3>1 DEF Inv, TypeOK, States, Reporting
  <2>6. TypeOK'
    BY <1>1, <2>4, <2>5 DEF Inv, TypeOK, Record
  <2>7. ASSUME NEW u \in Tokens, u # tt PROVE TokenInv(u)'
    BY <1>1, <1>3, <2>4, <2>5, <2>7, Frame DEF Record
  <2>8. TokenInv(tt)'
    <3>1. IsTracked(tt)' /\ tt_to_state'[tt].in_flight
      BY <2>5 DEF IsTracked, Reporting
    <3>2. Wakers(tt)' = 1 /\ NrReports(tt)' + Nr("CompleteReport", tt)' = 1
      BY <1>1, <1>3, <1>4, <2>3, <2>4 DEF Wakers
    <3> QED
      BY <1>1, <1>3, <1>4, <1>5, <3>1, <3>2 DEF TokenInv, EvictInv, LiveInv, DoneInv, Record
  <2> QED
    BY <1>1, <1>2, <2>4, <2>6, <2>7, <2>8, RunningInv
<1>7. CASE IsTracked(tt)
  <2>1. reports' = reports /\ IsFiniteSet(reports)'
    BY <1>0, <1>7 DEF Record, Inv
  <2>2. /\ tt_to_state' \in [Tokens -> States]
        /\ tt_to_state'[tt].tracked = tt_to_state[tt].tracked
        /\ tt_to_state'[tt].in_flight = tt_to_state[tt].in_flight
        /\ \A u \in Tokens : u # tt => tt_to_state'[u] = tt_to_state[u]
    <3>1. tt_to_state' = [tt_to_state EXCEPT ![tt].last = d]
      BY <1>0, <1>7 DEF Record
    <3>2. tt_to_state \in [Tokens -> States] /\ d \in 0..MaxBeats
      BY DEF Inv, TypeOK
    <3>3. tt_to_state'[tt] = [tt_to_state[tt] EXCEPT !.last = d]
      BY <3>1, <3>2
    <3>4. tt_to_state'[tt] \in States
      BY <3>2, <3>3 DEF States
    <3> QED
      BY <3>1, <3>2, <3>3, <3>4 DEF States
  <2>3. TypeOK'
    BY <1>1, <2>1, <2>2 DEF Inv, TypeOK, Record
  <2>4. ASSUME NEW u \in Tokens
        PROVE InFlight(u)' = InFlight(u) /\ NrReports(u)' = NrReports(u)
    BY <2>1 DEF InFlight, NrReports
  <2>5. ASSUME NEW u \in Tokens, u # tt PROVE TokenInv(u)'
    BY <1>1, <1>3, <2>2, <2>4, <2>5, Frame DEF Record
  <2>6. TokenInv(tt)'
    <3>1. Wakers(tt)' = Wakers(tt) /\ IsTracked(tt)' = IsTracked(tt)
      BY <1>1, <1>3, <1>4, <2>2, <2>4 DEF Wakers, IsTracked
    <3> QED
      BY <1>1, <1>3, <1>4, <1>5, <2>2, <2>4, <3>1
         DEF TokenInv, EvictInv, LiveInv, DoneInv, Record
  <2> QED
    BY <1>1, <1>2, <2>1, <2>3, <2>5, <2>6, RunningInv
<1> QED
  BY <1>6, <1>7

\* A report is over: the waker of a tracked token becomes a sleep; an evict that
\* awaits it is answered.
LEMMA ReportCompletedInv == ASSUME Inv, HandleReportCompleted PROVE Inv'
<1>0. PICK tt \in Tokens : tt = Head(incoming_hbs).tt
  BY TakeFacts DEF Inv, HandleReportCompleted, Types
<1>1. /\ loop = "running" /\ loop' = "running"
      /\ incoming_hbs' \in Seq(Messages)
      /\ \A type \in Types, u \in Tokens :
           Nr(type, u) = Nr(type, u)' + (IF type = "CompleteReport" /\ u = tt THEN 1 ELSE 0)
  BY <1>0, TakeFacts DEF Inv, HandleReportCompleted, Types
<1>2. QueueInv'
  BY <1>1, TakeQueueInv DEF Inv, HandleReportCompleted, Types
<1>3. ASSUME NEW u \in Tokens
      PROVE  /\ \A type \in Types : Nr(type, u) \in Nat /\ Nr(type, u)' \in Nat
             /\ NrReports(u) \in Nat /\ NrSleeps(u) \in Nat /\ TokenInv(u)
             /\ InFlight(u)' = InFlight(u) /\ NrReports(u)' = NrReports(u)
  BY <1>1, NrType, CountType DEF Inv, HandleReportCompleted, Nr, InFlight, NrReports
<1>4. /\ Nr("Evict", tt)' = Nr("Evict", tt)
      /\ Nr("CompleteReport", tt) = Nr("CompleteReport", tt)' + 1
      /\ Nr("CompleteThrottle", tt)' = Nr("CompleteThrottle", tt)
      /\ Nr("SendHeartbeat", tt)' = Nr("SendHeartbeat", tt)
      /\ Nr("CompleteThrottle", tt) \in Nat /\ Nr("CompleteReport", tt)' \in Nat
  BY <1>1, <1>3 DEF Types
<1>5. /\ activity' = IF tt \in tt_needs_flush THEN [activity EXCEPT ![tt] = "evicted"] ELSE activity
      /\ tt_needs_flush' = tt_needs_flush \ {tt}
      /\ tt_to_state' = IF IsTracked(tt) THEN [tt_to_state EXCEPT ![tt].in_flight = FALSE]
                                         ELSE tt_to_state
      /\ sleeps' = IF IsTracked(tt) THEN sleeps \cup {tt} ELSE sleeps
      /\ reports' = reports
  BY <1>0 DEF HandleReportCompleted, Notified
<1>6. /\ activity' \in [Tokens -> {"running", "evicting", "evicted"}]
      /\ \A u \in Tokens : u # tt => activity'[u] = activity[u]
      /\ activity'[tt] = IF tt \in tt_needs_flush THEN "evicted" ELSE activity[tt]
  BY <1>5 DEF Inv, TypeOK
<1>7. /\ tt_to_state' \in [Tokens -> States]
      /\ \A u \in Tokens : u # tt => tt_to_state'[u] = tt_to_state[u]
      /\ IsTracked(tt)' = IsTracked(tt)
      /\ IsTracked(tt) => ~tt_to_state'[tt].in_flight
  BY <1>5 DEF Inv, TypeOK, States, IsTracked
<1>8. TypeOK' /\ IsFiniteSet(reports)'
  BY <1>1, <1>5, <1>6, <1>7 DEF Inv, TypeOK, HandleReportCompleted
<1>9. ASSUME NEW u \in Tokens, u # tt PROVE TokenInv(u)'
  <2>1. (u \in tt_needs_flush' <=> u \in tt_needs_flush) /\ (u \in sleeps' <=> u \in sleeps)
    BY <1>5, <1>9
  <2>2. \A type \in Types : Nr(type, u)' = Nr(type, u)
    BY <1>1, <1>3, <1>9
  <2> QED
    BY <1>3, <1>6, <1>7, <1>9, <2>1, <2>2, Frame
<1>10. TokenInv(tt)'
  <2>1. CASE Live(tt)
    <3>1. tt \notin tt_needs_flush /\ Live(tt)' /\ activity'[tt] = activity[tt]
      BY <1>3, <1>4, <1>6, <2>1 DEF TokenInv, LiveInv, Live
    <3>2. IsTracked(tt) /\ Wakers(tt) = 1
      BY <1>3, <1>4, <2>1 DEF TokenInv, LiveInv, Wakers
    <3>3. /\ NrReports(tt) = 0 /\ Nr("CompleteReport", tt)' = 0 /\ NrSleeps(tt) = 0
          /\ Nr("CompleteThrottle", tt) = 0
      BY <1>3, <1>4, <3>2 DEF Wakers
    <3>4. NrSleeps(tt)' = 1
      BY <1>5, <3>2 DEF NrSleeps
    <3>5. Wakers(tt)' = 1 /\ NrReports(tt)' + Nr("CompleteReport", tt)' = 0
      BY <1>3, <1>4, <3>3, <3>4 DEF Wakers
    <3> QED
      BY <1>3, <1>4, <1>5, <1>7, <3>1, <3>2, <3>5 DEF TokenInv, EvictInv, LiveInv, DoneInv
  <2>2. CASE ~Live(tt)
    <3>1. ~IsTracked(tt) /\ tt \notin sleeps /\ activity[tt] # "running" /\ Nr("Evict", tt) # 1
      BY <1>3, <2>2 DEF TokenInv, DoneInv, Live
    <3>2. Nr("Evict", tt) = 0
      BY <1>3, <3>1 DEF TokenInv, EvictInv, Types
    <3>3. ~Live(tt)'
      BY <1>4, <1>6, <3>1, <3>2 DEF Live
    <3>4. NrReports(tt)' + Nr("CompleteReport", tt)' <= 2
      BY <1>3, <1>4, <2>2 DEF TokenInv, DoneInv
    <3> QED
      BY <1>3, <1>4, <1>5, <1>7, <2>2, <3>1, <3>2, <3>3, <3>4 DEF TokenInv, EvictInv, LiveInv, DoneInv
  <2> QED
    BY <2>1, <2>2
<1> QED
  BY <1>1, <1>2, <1>8, <1>9, <1>10, RunningInv

\* A throttle interval is over: its message was the waker of the token, so the
\* report of the kept details is the only one.
LEMMA ThrottleCompletedInv == ASSUME Inv, HandleThrottleCompleted PROVE Inv'
<1>0. PICK tt \in Tokens : tt = Head(incoming_hbs).tt
  BY TakeFacts DEF Inv, HandleThrottleCompleted, Types
<1>1. /\ loop = "running" /\ loop' = "running"
      /\ incoming_hbs' \in Seq(Messages)
      /\ \A type \in Types, u \in Tokens :
           Nr(type, u) = Nr(type, u)' + (IF type = "CompleteThrottle" /\ u = tt THEN 1 ELSE 0)
  BY <1>0, TakeFacts DEF Inv, HandleThrottleCompleted, Types
<1>2. QueueInv'
  BY <1>1, TakeQueueInv DEF Inv, HandleThrottleCompleted, Types
<1>3. ASSUME NEW u \in Tokens
      PROVE  /\ \A type \in Types : Nr(type, u) \in Nat /\ Nr(type, u)' \in Nat
             /\ NrReports(u) \in Nat /\ NrSleeps(u) \in Nat /\ TokenInv(u)
             /\ NrSleeps(u)' = NrSleeps(u)
  BY <1>1, NrType, CountType DEF Inv, HandleThrottleCompleted, Nr, NrSleeps
<1>4. /\ Nr("Evict", tt)' = Nr("Evict", tt)
      /\ Nr("CompleteReport", tt)' = Nr("CompleteReport", tt)
      /\ Nr("CompleteThrottle", tt) = Nr("CompleteThrottle", tt)' + 1
      /\ Nr("SendHeartbeat", tt)' = Nr("SendHeartbeat", tt)
      /\ Nr("CompleteThrottle", tt)' \in Nat /\ Nr("CompleteReport", tt) \in Nat
  BY <1>1, <1>3 DEF Types
<1>5. Live(tt)' = Live(tt)
  BY <1>4 DEF Live, HandleThrottleCompleted
<1>6. ASSUME Live(tt)
      PROVE  /\ IsTracked(tt) /\ NrReports(tt) = 0 /\ Nr("CompleteReport", tt)' = 0
             /\ NrSleeps(tt)' = 0 /\ Nr("CompleteThrottle", tt)' = 0
  <2>1. IsTracked(tt) /\ Wakers(tt) = 1
    BY <1>3, <1>4, <1>6 DEF TokenInv, LiveInv, Wakers
  <2> QED
    BY <1>3, <1>4, <2>1 DEF Wakers
<1>7. CASE IsTracked(tt) /\ tt_to_state[tt].last # 0
  <2>1. PICK d \in 1..MaxBeats : d = tt_to_state[tt].last
    BY <1>7 DEF Inv, TypeOK, States
  <2>2. /\ [tt |-> tt, details |-> d] \in Reports
        /\ reports' = reports \cup {[tt |-> tt, details |-> d]}
        /\ tt_to_state' = [tt_to_state EXCEPT ![tt] = Reporting]
    BY <1>0, <1>7, <2>1 DEF HandleThrottleCompleted, Reports
  <2>3. Live(tt)
    BY <1>3, <1>7 DEF TokenInv, DoneInv
  <2>4. /\ reports' \subseteq Reports /\ IsFiniteSet(reports)'
        /\ \A u \in Tokens : u # tt => InFlight(u)' = InFlight(u)
        /\ NrReports(tt)' = 1
    BY <1>6, <2>2, <2>3, StartFacts DEF Inv
  <2>5. /\ tt_to_state' \in [Tokens -> States] /\ tt_to_state'[tt] = Reporting
        /\ \A u \in Tokens : u # tt => tt_to_state'[u] = tt_to_state[u]
    BY <2>2 DEF Inv, TypeOK, States, Reporting
  <2>6. TypeOK'
    BY <1>1, <2>4, <2>5 DEF Inv, TypeOK, HandleThrottleCompleted
  <2>7. ASSUME NEW u \in Tokens, u # tt PROVE TokenInv(u)'
    BY <1>1, <1>3, <2>4, <2>5, <2>7, Frame DEF HandleThrottleCompleted
  <2>8. TokenInv(tt)'
    <3>1. IsTracked(tt)' /\ tt_to_state'[tt].in_flight
      BY <2>5 DEF IsTracked, Reporting
    <3>2. Wakers(tt)' = 1 /\ NrReports(tt)' + Nr("CompleteReport", tt)' = 1
      BY <1>6, <2>3, <2>4 DEF Wakers
    <3> QED
      BY <1>3, <1>4, <1>5, <2>3, <3>1, <3>2
         DEF TokenInv, EvictInv, LiveInv, DoneInv, HandleThrottleCompleted
  <2> QED
    BY <1>1, <1>2, <2>4, <2>6, <2>7, <2>8, RunningInv
<1>8. CASE ~(IsTracked(tt) /\ tt_to_state[tt].last # 0)
  <2>1. reports' = reports /\ tt_to_state' = [tt_to_state EXCEPT ![tt] = Untracked]
        /\ IsFiniteSet(reports)'
    BY <1>0, <1>8 DEF HandleThrottleCompleted, Inv
  <2>2. /\ tt_to_state' \in [Tokens -> States] /\ ~IsTracked(tt)'
        /\ \A u \in Tokens : u # tt => tt_to_state'[u] = tt_to_state[u]
    BY <2>1 DEF Inv, TypeOK, States, Untracked, IsTracked
  <2>3. TypeOK'
    BY <1>1, <2>1, <2>2 DEF Inv, TypeOK, HandleThrottleCompleted
  <2>4. ASSUME NEW u \in Tokens
        PROVE InFlight(u)' = InFlight(u) /\ NrReports(u)' = NrReports(u)
    BY <2>1 DEF InFlight, NrReports
  <2>5. ASSUME NEW u \in Tokens, u # tt PROVE TokenInv(u)'
    BY <1>1, <1>3, <2>2, <2>4, <2>5, Frame DEF HandleThrottleCompleted
  <2>6. Live(tt) => Wakers(tt)' = 0
    BY <1>3, <1>6, <2>4 DEF Wakers
  <2>7. TokenInv(tt)'
    BY <1>3, <1>4, <1>5, <2>2, <2>4, <2>6
       DEF TokenInv, EvictInv, LiveInv, DoneInv, HandleThrottleCompleted
  <2> QED
    BY <1>1, <1>2, <2>1, <2>3, <2>5, <2>7, RunningInv
<1> QED
  BY <1>7, <1>8

\* No heartbeat of the activity is behind the evict that the loop takes.
LEMMA NothingBehindEvict ==
  ASSUME TypeOK, QueueInv, Take("Evict"), NEW tt \in Tokens, tt = Head(incoming_hbs).tt
  PROVE  Nr("SendHeartbeat", tt)' = 0
<1>1. /\ incoming_hbs' \in Seq(Messages) /\ Head(incoming_hbs) = incoming_hbs[1]
      /\ 1 \in DOMAIN incoming_hbs /\ Head(incoming_hbs).type = "Evict"
      /\ \A i \in DOMAIN incoming_hbs' : i + 1 \in DOMAIN incoming_hbs
                                         /\ incoming_hbs'[i] = incoming_hbs[i + 1]
  BY TakeFacts DEF Types
<1>2. ASSUME NEW i \in DOMAIN incoming_hbs' PROVE incoming_hbs'[i] \notin Kind("SendHeartbeat", tt)
  <2>1. i \in Nat /\ i > 0
    BY <1>1
  <2>2. 1 < i + 1 /\ i + 1 \in DOMAIN incoming_hbs /\ incoming_hbs'[i] = incoming_hbs[i + 1]
    BY <1>1, <2>1
  <2>3. incoming_hbs[i + 1].type = "SendHeartbeat" => incoming_hbs[i + 1].tt # tt
    BY <1>1, <2>2 DEF QueueInv
  <2> QED
    BY <2>2, <2>3 DEF Kind
<1>3. Count(incoming_hbs', Kind("SendHeartbeat", tt)) = 0
  BY <1>1, <1>2, CountZero
<1> QED
  BY <1>3 DEF Nr, Kind

\* The loop handles an evict: the token is done; what is left is at most the
\* report that was in flight and the flush.
LEMMA EvictStepInv == ASSUME Inv, Evict PROVE Inv'
<1>0. PICK tt \in Tokens : tt = Head(incoming_hbs).tt
  BY TakeFacts DEF Inv, Evict, Types
<1>1. /\ loop = "running" /\ loop' = "running"
      /\ incoming_hbs' \in Seq(Messages)
      /\ \A type \in Types, u \in Tokens :
           Nr(type, u) = Nr(type, u)' + (IF type = "Evict" /\ u = tt THEN 1 ELSE 0)
  BY <1>0, TakeFacts DEF Inv, Evict, Types
<1>2. QueueInv' /\ Nr("SendHeartbeat", tt)' = 0
  BY <1>0, <1>1, TakeQueueInv, NothingBehindEvict DEF Inv, Evict, Types
<1>3. ASSUME NEW u \in Tokens
      PROVE  /\ \A type \in Types : Nr(type, u) \in Nat /\ Nr(type, u)' \in Nat
             /\ NrReports(u) \in Nat /\ NrSleeps(u) \in Nat /\ TokenInv(u)
  BY <1>1, NrType, CountType DEF Inv, Evict, Nr
<1>4. /\ Nr("Evict", tt)' = 0 /\ Nr("Evict", tt) = 1
      /\ Nr("CompleteReport", tt)' = Nr("CompleteReport", tt)
      /\ Nr("CompleteThrottle", tt) \in Nat /\ Nr("CompleteReport", tt) \in Nat
  BY <1>1, <1>3 DEF Types, TokenInv, EvictInv
<1>5. activity[tt] = "evicting" /\ Live(tt) /\ tt \notin tt_needs_flush
  BY <1>3, <1>4 DEF TokenInv, EvictInv, LiveInv, Live
<1>6. NrReports(tt) + Nr("CompleteReport", tt) <= 1
  <2>1. Wakers(tt) <= 1
    BY <1>3, <1>5 DEF TokenInv, LiveInv
  <2> QED
    BY <1>3, <1>4, <2>1 DEF Wakers
<1>7. sleeps' = sleeps \ {tt} /\ tt_to_state' = [tt_to_state EXCEPT ![tt] = Untracked]
  BY <1>0 DEF Evict
<1>8. /\ tt_to_state' \in [Tokens -> States] /\ ~IsTracked(tt)'
      /\ \A u \in Tokens : u # tt => tt_to_state'[u] = tt_to_state[u]
  BY <1>7 DEF Inv, TypeOK, States, Untracked, IsTracked
<1>9. /\ activity' \in [Tokens -> {"running", "evicting", "evicted"}]
      /\ \A u \in Tokens : u # tt => activity'[u] = activity[u]
      /\ tt_needs_flush' \subseteq Tokens
      /\ \A u \in Tokens : u # tt => (u \in tt_needs_flush' <=> u \in tt_needs_flush)
      /\ \/ activity'[tt] = "evicting"
         \/ activity'[tt] = "evicted" /\ tt_needs_flush' = tt_needs_flush
  BY <1>0, <1>5 DEF Inv, TypeOK, Evict, Notified
<1>10. /\ reports' \subseteq Reports /\ IsFiniteSet(reports)'
       /\ \A u \in Tokens : u # tt => InFlight(u)' = InFlight(u)
       /\ NrReports(tt)' <= NrReports(tt) + 1 /\ NrReports(tt)' \in Nat
  <2>1. CASE reports' = reports
    <3>1. \A u \in Tokens : InFlight(u)' = InFlight(u) /\ NrReports(u)' = NrReports(u)
      BY <2>1 DEF InFlight, NrReports
    <3> QED
      BY <1>3, <2>1, <3>1 DEF Inv, TypeOK
  <2>2. CASE tt_to_state[tt].last # 0
             /\ reports' = reports \cup {[tt |-> tt, details |-> tt_to_state[tt].last]}
    <3>1. PICK d \in 1..MaxBeats : d = tt_to_state[tt].last
      BY <2>2 DEF Inv, TypeOK, States
    <3> DEFINE r == [tt |-> tt, details |-> d]
    <3>2. r \in Reports /\ r.tt = tt /\ reports' = reports \cup {r}
      BY <2>2, <3>1 DEF Reports
    <3>3. /\ reports' \subseteq Reports /\ IsFiniteSet(reports')
          /\ \A u \in Tokens : u # tt => InFlight(u)' = InFlight(u)
          /\ InFlight(tt)' = InFlight(tt) \cup {r} /\ NrReports(tt)' <= NrReports(tt) + 1
      BY <3>2, StartFacts DEF Inv
    <3>4. IsFiniteSet(InFlight(tt) \cup {r})
      BY NrType, FS_AddElement DEF Inv
    <3>5. NrReports(tt)' \in Nat
      BY <3>3, <3>4, FS_CardinalityType DEF NrReports
    <3> QED
      BY <3>3, <3>5
  <2> QED
    BY <1>0, <2>1, <2>2 DEF Evict
<1>11. TypeOK'
  BY <1>1, <1>7, <1>8, <1>9, <1>10 DEF Inv, TypeOK, Evict
<1>12. ASSUME NEW u \in Tokens, u # tt PROVE TokenInv(u)'
  <2>1. \A type \in Types : Nr(type, u)' = Nr(type, u)
    BY <1>1, <1>3, <1>12
  <2> QED
    BY <1>3, <1>7, <1>8, <1>9, <1>10, <1>12, <2>1, Frame
<1>13. TokenInv(tt)'
  <2>1. ~Live(tt)' /\ tt \notin sleeps'
    BY <1>4, <1>7, <1>9 DEF Live
  <2>2. NrReports(tt)' + Nr("CompleteReport", tt)' <= 2
    BY <1>3, <1>4, <1>6, <1>10
  <2> QED
    BY <1>2, <1>4, <1>5, <1>8, <1>9, <2>1, <2>2 DEF TokenInv, EvictInv, LiveInv, DoneInv
<1> QED
  BY <1>1, <1>2, <1>10, <1>11, <1>12, <1>13, RunningInv

\* Every step preserves Inv.
LEMMA StepInv == Inv /\ [Next]_vars => Inv'
<1> SUFFICES ASSUME Inv, [Next]_vars PROVE Inv'
  OBVIOUS
<1>1. ASSUME NEW tt \in Tokens, RecordHeartbeat(tt) PROVE Inv'
  BY <1>1, RecordHeartbeatInv
<1>2. ASSUME NEW tt \in Tokens, EvictCall(tt) PROVE Inv'
  BY <1>2, EvictCallInv
<1>3. ASSUME NEW tt \in Tokens, SleepEnds(tt) PROVE Inv'
  BY <1>3, SleepEndsInv
<1>4. ASSUME NEW r \in reports, ReportEnds(r) PROVE Inv'
  BY <1>4, ReportEndsInv
<1>5. CASE LoopStep
  BY <1>5, RecordInv, ReportCompletedInv, ThrottleCompletedInv, EvictStepInv DEF LoopStep
<1>6. CASE ShutDown
  <2>1. TypeOK'
    BY <1>6 DEF Inv, TypeOK, ShutDown
  <2> QED
    BY <1>6, <2>1 DEF Inv, ShutDown, OneReportAtATime, EvictedIsForgotten, InFlight, IsTracked
<1>7. CASE Joined
  <2>1. TypeOK'
    BY <1>7 DEF Inv, TypeOK, Joined
  <2> QED
    BY <1>7, <2>1 DEF Inv, Joined, OneReportAtATime, EvictedIsForgotten, InFlight, IsTracked
<1>8. CASE UNCHANGED vars
  <2>1. TypeOK'
    BY <1>8 DEF Inv, TypeOK, vars
  <2>2. CASE loop = "running"
    <3>1. \A tt \in Tokens : TokenInv(tt)'
      <4> SUFFICES ASSUME NEW tt \in Tokens PROVE TokenInv(tt)'
        OBVIOUS
      <4>1. InFlight(tt)' = InFlight(tt) /\ \A type \in Types : Nr(type, tt)' = Nr(type, tt)
        BY <1>8 DEF vars, InFlight, Nr, Kind
      <4> QED
        BY <1>8, <2>2, <4>1, Frame DEF Inv, vars
    <3> QED
      BY <1>8, <2>1, <2>2, <3>1, RunningInv DEF Inv, vars, QueueInv
  <2>3. CASE loop # "running"
    BY <1>8, <2>1, <2>3 DEF Inv, vars, OneReportAtATime, EvictedIsForgotten, InFlight, IsTracked
  <2> QED
    BY <2>2, <2>3
<1> QED
  BY <1>1, <1>2, <1>3, <1>4, <1>5, <1>6, <1>7, <1>8 DEF Next

\* The inductive invariant holds of every behaviour of the manager.
THEOREM HeartbeatInvariant == Spec => []Inv
<1>1. Init => Inv
  BY InitInv
<1>2. Inv /\ [Next]_vars => Inv'
  BY StepInv
<1> QED
  BY <1>1, <1>2, PTL DEF Spec

\* A tracked token has exactly one waker: the counts of Inv are those of the property.
LEMMA OneWaker == Inv => TrackedHasOneWaker
<1> SUFFICES ASSUME Inv, loop = "running", NEW tt \in Tokens, IsTracked(tt)
             PROVE  Cardinality(InFlight(tt)) + Cardinality(Queued("CompleteReport", tt))
                      + Cardinality(sleeps \cap {tt}) + Cardinality(Queued("CompleteThrottle", tt)) = 1
  BY DEF TrackedHasOneWaker
<1>1. /\ Cardinality(Queued("CompleteReport", tt)) = Nr("CompleteReport", tt)
      /\ Cardinality(Queued("CompleteThrottle", tt)) = Nr("CompleteThrottle", tt)
  BY QueuedIsWhere DEF Inv, Types
<1>2. Cardinality(sleeps \cap {tt}) = NrSleeps(tt)
  <2>1. CASE tt \in sleeps
    <3>1. sleeps \cap {tt} = {tt}
      BY <2>1
    <3> QED
      BY <2>1, <3>1, FS_Singleton DEF NrSleeps
  <2>2. CASE tt \notin sleeps
    <3>1. sleeps \cap {tt} = {}
      BY <2>2
    <3> QED
      BY <2>2, <3>1, FS_EmptySet DEF NrSleeps
  <2> QED
    BY <2>1, <2>2
<1>3. Wakers(tt) = 1
  BY DEF Inv, TokenInv, LiveInv, DoneInv
<1> QED
  BY <1>1, <1>2, <1>3 DEF Wakers, NrReports

\* What the manager keeps for a token and what is under way for it always agree
\* (activity_heartbeat_manager.rs): one report at a time, one waker per tracked
\* token, nothing kept after evict.
THEOREM TokensAreConsistent == Spec => []TokensConsistent
<1>1. Inv => TokensConsistent
  BY OneWaker DEF Inv, TokensConsistent
<1> QED
  BY <1>1, HeartbeatInvariant, PTL

----------------------------------------------------------------------------
(* The order of details.                                                   *)

\* Details are numbers.
LEMMA OlderType ==
  ASSUME TypeOK, NEW tt \in Tokens
  PROVE  /\ answered[tt] \subseteq Nat /\ Sent(tt) \subseteq Nat /\ tt_to_state[tt].last \in Nat
         /\ Older(tt) \subseteq Nat /\ beats[tt] \in Nat
         /\ \A i \in DOMAIN incoming_hbs : i \in Nat /\ i > 0
                                           /\ (IsBeat(i, tt) => incoming_hbs[i].details \in 1..MaxBeats)
<1>1. answered[tt] \subseteq Nat /\ tt_to_state[tt].last \in Nat /\ beats[tt] \in Nat
  BY DEF TypeOK, States
<1>2. Sent(tt) \subseteq Nat
  BY DEF Sent, InFlight, TypeOK, Reports
<1>3. \A i \in DOMAIN incoming_hbs : incoming_hbs[i] \in Messages /\ i \in Nat /\ i > 0
  BY DEF TypeOK
<1>4. \A i \in DOMAIN incoming_hbs : IsBeat(i, tt) => incoming_hbs[i].details \in 1..MaxBeats
  BY <1>3 DEF IsBeat, Messages
<1> QED
  BY <1>1, <1>2, <1>3, <1>4 DEF Older

\* A step that adds no heartbeat of the token to the queue keeps its order, also
\* when it takes the first message and its details become older ones.
LEMMA ShrinkOrder ==
  ASSUME TypeOK, NEW tt \in Tokens, QueueOrder(tt), NEW k \in {0, 1}, beats'[tt] = beats[tt],
         \A i \in DOMAIN incoming_hbs' : IsBeat(i, tt)' =>
           i \in Nat /\ i > 0 /\ i + k \in DOMAIN incoming_hbs /\ incoming_hbs'[i] = incoming_hbs[i + k],
         \A d \in Older(tt)' :
           \/ d = 0
           \/ d \in Older(tt)
           \/ k = 1 /\ 1 \in DOMAIN incoming_hbs /\ IsBeat(1, tt) /\ d = incoming_hbs[1].details
  PROVE  QueueOrder(tt)'
<1>1. ASSUME NEW i \in DOMAIN incoming_hbs', IsBeat(i, tt)'
      PROVE  /\ i \in Nat /\ i > 0 /\ i + k \in DOMAIN incoming_hbs /\ IsBeat(i + k, tt)
             /\ incoming_hbs'[i] = incoming_hbs[i + k]
             /\ incoming_hbs[i + k].details \in 1..MaxBeats
  BY <1>1, OlderType DEF IsBeat
<1>2. ASSUME NEW i \in DOMAIN incoming_hbs', IsBeat(i, tt)', NEW d \in Older(tt)'
      PROVE  d < incoming_hbs'[i].details
  <2>1. CASE d = 0
    BY <1>1, <1>2, <2>1
  <2>2. CASE d \in Older(tt)
    BY <1>1, <1>2, <2>2 DEF QueueOrder
  <2>3. CASE k = 1 /\ 1 \in DOMAIN incoming_hbs /\ IsBeat(1, tt) /\ d = incoming_hbs[1].details
    BY <1>1, <1>2, <2>3 DEF QueueOrder
  <2> QED
    BY <2>1, <2>2, <2>3
<1>3. ASSUME NEW i \in DOMAIN incoming_hbs', IsBeat(i, tt)'
      PROVE  incoming_hbs'[i].details <= beats'[tt]
  BY <1>1, <1>3 DEF QueueOrder
<1>4. ASSUME NEW i \in DOMAIN incoming_hbs', NEW j \in DOMAIN incoming_hbs', i < j,
             IsBeat(i, tt)', IsBeat(j, tt)'
      PROVE  incoming_hbs'[i].details < incoming_hbs'[j].details
  BY <1>1, <1>4 DEF QueueOrder
<1> QED
  BY <1>2, <1>3, <1>4 DEF QueueOrder

\* Sending another message adds no heartbeat.
LEMMA SendOther ==
  ASSUME TypeOK, loop = "running", NEW m \in Messages, Send(m), NEW tt \in Tokens,
         ~(m.type = "SendHeartbeat" /\ m.tt = tt)
  PROVE  \A i \in DOMAIN incoming_hbs' : IsBeat(i, tt)' =>
           i \in Nat /\ i > 0 /\ i + 0 \in DOMAIN incoming_hbs /\ incoming_hbs'[i] = incoming_hbs[i + 0]
<1>1. incoming_hbs' = Append(incoming_hbs, m) /\ incoming_hbs \in Seq(Messages)
  BY SendFacts DEF TypeOK
<1>2. /\ DOMAIN incoming_hbs' = 1..(Len(incoming_hbs) + 1)
      /\ incoming_hbs'[Len(incoming_hbs) + 1] = m
      /\ \A i \in DOMAIN incoming_hbs : incoming_hbs'[i] = incoming_hbs[i]
      /\ Len(incoming_hbs) \in Nat /\ DOMAIN incoming_hbs = 1..Len(incoming_hbs)
  BY <1>1, AppendProperties
<1> QED
  BY <1>2 DEF IsBeat

\* Taking a message shifts the queue.
LEMMA TakeShifts ==
  ASSUME TypeOK, NEW t \in Types, Take(t), NEW tt \in Tokens
  PROVE  \A i \in DOMAIN incoming_hbs' : IsBeat(i, tt)' =>
           i \in Nat /\ i > 0 /\ i + 1 \in DOMAIN incoming_hbs /\ incoming_hbs'[i] = incoming_hbs[i + 1]
<1>1. \A i \in DOMAIN incoming_hbs' : i + 1 \in DOMAIN incoming_hbs
                                      /\ incoming_hbs'[i] = incoming_hbs[i + 1]
  BY TakeFacts
<1>2. \A i \in DOMAIN incoming_hbs' : i \in Nat /\ i > 0
  BY TakeFacts
<1> QED
  BY <1>1, <1>2

\* A new heartbeat is newer than everything before it.
LEMMA RecordHeartbeatOrder ==
  ASSUME Inv, DetailsInv, NEW u \in Tokens, RecordHeartbeat(u) PROVE DetailsInv'
<1> SUFFICES ASSUME NEW tt \in Tokens, activity[tt] = "running"
             PROVE  DetailsOrder(tt)'
  BY DEF DetailsInv, DetailsOrder, RecordHeartbeat
<1>1. /\ InFlight(tt)' = InFlight(tt) /\ Sent(tt)' = Sent(tt) /\ Older(tt)' = Older(tt)
      /\ answered' = answered /\ tt_to_state' = tt_to_state /\ loop' = loop
      /\ activity' = activity
  BY DEF RecordHeartbeat, InFlight, Sent, Older
<1>2. DetailsOrder(tt) /\ TypeOK
  BY DEF DetailsInv, Inv
<1>3. Older(tt) \subseteq Nat /\ beats[tt] \in Nat /\ (u # tt => beats'[tt] = beats[tt])
      /\ (u = tt => beats'[tt] = beats[tt] + 1)
  BY <1>2, OlderType DEF RecordHeartbeat, TypeOK
<1>4. \A d \in Older(tt)' : d <= beats'[tt]
  BY <1>1, <1>2, <1>3 DEF DetailsOrder
<1>5. ASSUME loop = "running" PROVE QueueOrder(tt)'
  <2> DEFINE m == [type |-> "SendHeartbeat", tt |-> u, details |-> beats[u] + 1]
  <2>1. m \in Messages /\ m.tt = u /\ m.type = "SendHeartbeat" /\ m.details = beats[u] + 1
    BY <1>2 DEF TypeOK, RecordHeartbeat, Messages
  <2>2. CASE u # tt
    <3>1. \A i \in DOMAIN incoming_hbs' : IsBeat(i, tt)' =>
            i \in Nat /\ i > 0 /\ i + 0 \in DOMAIN incoming_hbs
            /\ incoming_hbs'[i] = incoming_hbs[i + 0]
      BY <1>2, <1>5, <2>1, <2>2, SendOther DEF RecordHeartbeat
    <3> QED
      BY <1>1, <1>2, <1>3, <1>5, <2>2, <3>1, ShrinkOrder DEF DetailsOrder
  <2>3. CASE u = tt
    <3>1. incoming_hbs' = Append(incoming_hbs, m) /\ incoming_hbs \in Seq(Messages)
      BY <1>2, <1>5, <2>1, SendFacts DEF TypeOK, RecordHeartbeat
    <3>2. /\ DOMAIN incoming_hbs' = 1..(Len(incoming_hbs) + 1)
          /\ incoming_hbs'[Len(incoming_hbs) + 1] = m
          /\ \A i \in DOMAIN incoming_hbs : incoming_hbs'[i] = incoming_hbs[i]
          /\ Len(incoming_hbs) \in Nat /\ DOMAIN incoming_hbs = 1..Len(incoming_hbs)
      BY <3>1, AppendProperties
    <3>3. QueueOrder(tt) /\ \A d \in Older(tt) : d <= beats[tt]
      BY <1>2, <1>5 DEF DetailsOrder
    <3>4. \A i \in DOMAIN incoming_hbs : IsBeat(i, tt) => incoming_hbs[i].details \in 1..MaxBeats
      BY <1>2, OlderType
    <3>5. ASSUME NEW i \in DOMAIN incoming_hbs', IsBeat(i, tt)'
          PROVE  /\ incoming_hbs'[i].details <= beats'[tt]
                 /\ \A d \in Older(tt) : d < incoming_hbs'[i].details
      <4>1. CASE i = Len(incoming_hbs) + 1
        BY <1>3, <2>1, <2>3, <3>2, <3>3, <4>1
      <4>2. CASE i \in DOMAIN incoming_hbs
        BY <1>3, <2>3, <3>2, <3>3, <3>4, <3>5, <4>2 DEF QueueOrder, IsBeat
      <4> QED
        BY <3>2, <4>1, <4>2
    <3>6. ASSUME NEW i \in DOMAIN incoming_hbs', NEW j \in DOMAIN incoming_hbs', i < j,
                 IsBeat(i, tt)', IsBeat(j, tt)'
          PROVE  incoming_hbs'[i].details < incoming_hbs'[j].details
      <4>1. i \in DOMAIN incoming_hbs /\ incoming_hbs'[i] = incoming_hbs[i] /\ IsBeat(i, tt)
        BY <3>2, <3>6 DEF IsBeat
      <4>2. CASE j = Len(incoming_hbs) + 1
        <5>1. incoming_hbs[i].details <= beats[tt]
          BY <3>3, <4>1 DEF QueueOrder
        <5> QED
          BY <1>3, <2>1, <2>3, <3>2, <3>4, <4>1, <4>2, <5>1
      <4>3. CASE j \in DOMAIN incoming_hbs
        BY <3>2, <3>3, <3>6, <4>1, <4>3 DEF QueueOrder, IsBeat
      <4> QED
        BY <3>2, <4>2, <4>3
    <3> QED
      BY <1>1, <3>5, <3>6 DEF QueueOrder
  <2> QED
    BY <2>2, <2>3
<1> QED
  BY <1>1, <1>2, <1>4, <1>5 DEF DetailsOrder

\* The queue holds the heartbeats of the token it held, without the first k
\* messages.
Shifted(k, tt) ==
  \A i \in DOMAIN incoming_hbs' : IsBeat(i, tt)' =>
    i \in Nat /\ i > 0 /\ i + k \in DOMAIN incoming_hbs /\ incoming_hbs'[i] = incoming_hbs[i + k]

\* A step that leaves the details of a token where they are keeps their order.
LEMMA OrderFrame ==
  ASSUME TypeOK, NEW tt \in Tokens, DetailsOrder(tt),
         activity'[tt] = "running" => activity[tt] = "running",
         answered'[tt] = answered[tt], InFlight(tt)' = InFlight(tt),
         tt_to_state'[tt].last \in {0, tt_to_state[tt].last}, beats'[tt] = beats[tt],
         NEW k \in {0, 1}, loop' = "running" => loop = "running" /\ Shifted(k, tt)
  PROVE  DetailsOrder(tt)'
<1> SUFFICES ASSUME activity'[tt] = "running" PROVE DetailsOrder(tt)'
  BY DEF DetailsOrder
<1>1. Sent(tt)' = Sent(tt) /\ \A d \in Older(tt)' : d = 0 \/ d \in Older(tt)
  BY DEF Sent, Older
<1>2. beats[tt] \in Nat
  BY OlderType
<1>3. \A d \in Older(tt)' : d <= beats'[tt]
  BY <1>1, <1>2 DEF DetailsOrder
<1>4. loop' = "running" => QueueOrder(tt)'
  BY <1>1, ShrinkOrder DEF DetailsOrder, Shifted
<1> QED
  BY <1>1, <1>3, <1>4 DEF DetailsOrder

\* Evict calls and sleeps that end do not touch details.
LEMMA EvictCallOrder ==
  ASSUME Inv, DetailsInv, NEW u \in Tokens, EvictCall(u) PROVE DetailsInv'
<1> SUFFICES ASSUME NEW tt \in Tokens PROVE DetailsOrder(tt)'
  BY DEF DetailsInv
<1> DEFINE m == [type |-> "Evict", tt |-> u]
<1>1. m \in Messages /\ m.type = "Evict"
  BY DEF Messages
<1>2. InFlight(tt)' = InFlight(tt) /\ (activity'[tt] = "running" => activity[tt] = "running")
  BY DEF EvictCall, InFlight, Inv, TypeOK
<1>3. loop' = "running" => loop = "running" /\ Shifted(0, tt)
  BY <1>1, SendOther DEF EvictCall, Shifted, Inv
<1> QED
  BY <1>2, <1>3, OrderFrame DEF EvictCall, Inv, DetailsInv

\* A throttle sleep ends: the loop gets a message, no report starts or ends.
LEMMA SleepEndsOrder ==
  ASSUME Inv, DetailsInv, NEW u \in Tokens, SleepEnds(u) PROVE DetailsInv'
<1> SUFFICES ASSUME NEW tt \in Tokens PROVE DetailsOrder(tt)'
  BY DEF DetailsInv
<1> DEFINE m == [type |-> "CompleteThrottle", tt |-> u]
<1>1. m \in Messages /\ m.type = "CompleteThrottle"
  BY DEF Messages
<1>2. InFlight(tt)' = InFlight(tt)
  BY DEF SleepEnds, InFlight
<1>3. loop' = "running" => loop = "running" /\ Shifted(0, tt)
  BY <1>1, SendOther DEF SleepEnds, Shifted, Inv
<1> QED
  BY <1>2, <1>3, OrderFrame DEF SleepEnds, Inv, DetailsInv

\* While its activity runs, a token has no second report.
LEMMA OnlyReport ==
  ASSUME Inv, NEW r \in reports, activity[r.tt] = "running"
  PROVE  InFlight(r.tt) = {r}
<1>1. r.tt \in Tokens /\ r \in InFlight(r.tt)
  BY DEF Inv, TypeOK, Reports, InFlight
<1>2. IsFiniteSet(InFlight(r.tt)) /\ Cardinality(InFlight(r.tt)) \in Nat
  BY <1>1, NrType DEF Inv, NrReports
<1>3. Cardinality(InFlight(r.tt)) <= 1
  BY <1>1 DEF Inv, OneReportAtATime
<1>4. Cardinality(InFlight(r.tt)) # 0
  BY <1>1, <1>2, FS_EmptySet
<1>5. Cardinality(InFlight(r.tt)) = 1
  BY <1>2, <1>3, <1>4
<1>6. PICK x : InFlight(r.tt) = {x}
  BY <1>2, <1>5, FS_Singleton
<1> QED
  BY <1>1, <1>6

\* The details of a report that ends become answered ones.
LEMMA ReportEndsOrder ==
  ASSUME Inv, DetailsInv, NEW r \in reports, ReportEnds(r) PROVE DetailsInv'
<1> SUFFICES ASSUME NEW tt \in Tokens PROVE DetailsOrder(tt)'
  BY DEF DetailsInv
<1> DEFINE m == [type |-> "CompleteReport", tt |-> r.tt]
<1>1. r \in Reports /\ r.tt \in Tokens
  BY DEF Inv, TypeOK, Reports
<1>2. m \in Messages /\ m.type = "CompleteReport"
  BY <1>1 DEF Messages
<1>3. loop' = "running" => loop = "running" /\ Shifted(0, tt)
  BY <1>2, SendOther DEF ReportEnds, Shifted, Inv
<1>4. CASE tt # r.tt
  <2>1. InFlight(tt)' = InFlight(tt) /\ answered'[tt] = answered[tt]
    BY <1>4, EndFacts DEF ReportEnds, Inv, TypeOK
  <2> QED
    BY <1>3, <2>1, OrderFrame DEF ReportEnds, Inv, DetailsInv
<1>5. CASE tt = r.tt
  <2> SUFFICES ASSUME activity[tt] = "running" PROVE DetailsOrder(tt)'
    BY DEF DetailsOrder, ReportEnds
  <2>1. InFlight(tt) = {r} /\ InFlight(tt)' = InFlight(tt) \ {r}
    BY <1>5, OnlyReport, EndFacts DEF ReportEnds, Inv
  <2>2. Sent(tt) = {r.details} /\ Sent(tt)' = {}
    BY <2>1 DEF Sent
  <2>3. answered'[tt] = answered[tt] \cup {r.details} /\ tt_to_state' = tt_to_state /\ beats' = beats
        /\ loop' = loop
    BY <1>1, <1>5 DEF ReportEnds, Inv, TypeOK
  <2>4. Older(tt)' = Older(tt)
    BY <2>2, <2>3 DEF Older
  <2>5. loop' = "running" => QueueOrder(tt)'
    BY <1>3, <2>3, <2>4, ShrinkOrder DEF DetailsInv, DetailsOrder, Inv, Shifted
  <2> QED
    BY <2>2, <2>3, <2>4, <2>5 DEF DetailsInv, DetailsOrder
<1> QED
  BY <1>4, <1>5

\* The loop takes a heartbeat: its details are older than the rest of the queue
\* and newer than what was taken before.
LEMMA RecordOrder == ASSUME Inv, DetailsInv, Record PROVE DetailsInv'
<1> SUFFICES ASSUME NEW tt \in Tokens PROVE DetailsOrder(tt)'
  BY DEF DetailsInv
<1>1. PICK u \in Tokens, d \in 1..MaxBeats :
        u = Head(incoming_hbs).tt /\ d = Head(incoming_hbs).details
  BY TakeFacts DEF Inv, Record, Types
<1>2. /\ loop = "running" /\ loop' = "running" /\ 1 \in DOMAIN incoming_hbs
      /\ IsBeat(1, u) /\ incoming_hbs[1].details = d
  BY <1>1, TakeFacts DEF Inv, Record, Types, IsBeat
<1>3. Shifted(1, tt)
  BY TakeShifts DEF Inv, Record, Types, Shifted
<1>4. CASE tt # u
  <2>1. InFlight(tt)' = InFlight(tt)
    BY <1>1, <1>4 DEF Record, InFlight
  <2>2. tt_to_state'[tt] = tt_to_state[tt]
    BY <1>1, <1>4 DEF Record, Inv, TypeOK
  <2> QED
    BY <1>2, <1>3, <2>1, <2>2, OrderFrame DEF Record, Inv, DetailsInv
<1>5. CASE tt = u
  <2> SUFFICES ASSUME activity[tt] = "running" PROVE DetailsOrder(tt)'
    BY DEF DetailsOrder, Record
  <2>1. /\ QueueOrder(tt) /\ \A x \in Older(tt) : x < d
        /\ d <= beats[tt] /\ \A x \in Older(tt) : x <= beats[tt]
        /\ \A a \in answered[tt], x \in Sent(tt) : a < x
    BY <1>2, <1>5 DEF DetailsInv, DetailsOrder, QueueOrder
  <2>2. answered' = answered /\ beats' = beats
    BY DEF Record
  <2>3. CASE ~IsTracked(tt)
    <3>1. tt_to_state' = [tt_to_state EXCEPT ![tt] = Reporting]
          /\ reports' = reports \cup {[tt |-> tt, details |-> d]}
      BY <1>1, <1>5, <2>3 DEF Record
    <3>2. tt_to_state'[tt].last = 0
      BY <3>1 DEF Inv, TypeOK, Reporting
    <3>3. InFlight(tt) = {}
      <4>1. Wakers(tt) = 0
        BY <1>2, <2>3 DEF Inv, TokenInv, LiveInv, Live
      <4> QED
        BY <4>1, NoWakers DEF Inv
    <3>4. InFlight(tt)' = {[tt |-> tt, details |-> d]}
      BY <3>1, <3>3 DEF InFlight
    <3>5. Sent(tt)' = {d}
      BY <3>4 DEF Sent
    <3>6. Older(tt)' = answered[tt] \cup {d, 0}
      BY <2>2, <3>2, <3>5 DEF Older
    <3>7. answered[tt] \subseteq Older(tt) /\ beats[tt] \in Nat
      BY OlderType DEF Older, Inv
    <3>8. QueueOrder(tt)'
      BY <1>2, <1>3, <1>5, <2>1, <2>2, <3>6, <3>7, ShrinkOrder DEF Inv, Shifted
    <3> QED
      BY <1>2, <2>1, <2>2, <3>2, <3>5, <3>6, <3>7, <3>8 DEF DetailsOrder
  <2>4. CASE IsTracked(tt)
    <3>1. tt_to_state' = [tt_to_state EXCEPT ![tt].last = d] /\ reports' = reports
      BY <1>1, <1>5, <2>4 DEF Record
    <3>2. tt_to_state'[tt].last = d
      BY <3>1 DEF Inv, TypeOK, States
    <3>3. InFlight(tt)' = InFlight(tt) /\ Sent(tt)' = Sent(tt)
      BY <3>1 DEF InFlight, Sent
    <3>4. Older(tt)' = answered[tt] \cup Sent(tt) \cup {d}
      BY <2>2, <3>2, <3>3 DEF Older
    <3>5. answered[tt] \cup Sent(tt) \subseteq Older(tt)
      BY DEF Older
    <3>6. QueueOrder(tt)'
      BY <1>2, <1>3, <1>5, <2>1, <2>2, <3>4, <3>5, ShrinkOrder DEF Inv, Shifted
    <3> QED
      BY <1>2, <2>1, <2>2, <3>2, <3>3, <3>4, <3>5, <3>6 DEF DetailsOrder
  <2> QED
    BY <2>3, <2>4
<1> QED
  BY <1>4, <1>5

\* The end of a report moves no details.
LEMMA ReportCompletedOrder == ASSUME Inv, DetailsInv, HandleReportCompleted PROVE DetailsInv'
<1> SUFFICES ASSUME NEW tt \in Tokens PROVE DetailsOrder(tt)'
  BY DEF DetailsInv
<1>1. PICK u \in Tokens : u = Head(incoming_hbs).tt
  BY TakeFacts DEF Inv, HandleReportCompleted, Types
<1>2. loop = "running" /\ Shifted(1, tt)
  BY TakeFacts, TakeShifts DEF Inv, HandleReportCompleted, Types, Shifted
<1>3. InFlight(tt)' = InFlight(tt)
  BY DEF HandleReportCompleted, InFlight
<1>4. tt_to_state'[tt].last = tt_to_state[tt].last
  <2>1. tt_to_state' = tt_to_state \/ tt_to_state' = [tt_to_state EXCEPT ![u].in_flight = FALSE]
    BY <1>1 DEF HandleReportCompleted
  <2>2. tt_to_state[tt] \in States /\ tt_to_state \in [Tokens -> States]
    BY DEF Inv, TypeOK
  <2>3. \/ tt_to_state'[tt] = tt_to_state[tt]
        \/ tt_to_state'[tt] = [tt_to_state[tt] EXCEPT !.in_flight = FALSE]
    BY <2>1, <2>2
  <2> QED
    BY <2>2, <2>3 DEF States
<1>5. activity'[tt] = "running" => activity[tt] = "running"
  BY <1>1 DEF HandleReportCompleted, Notified, Inv, TypeOK
<1> QED
  BY <1>2, <1>3, <1>4, <1>5, OrderFrame DEF HandleReportCompleted, Inv, DetailsInv

\* The kept details are reported: they are newer than what was answered.
LEMMA ThrottleCompletedOrder == ASSUME Inv, DetailsInv, HandleThrottleCompleted PROVE DetailsInv'
<1> SUFFICES ASSUME NEW tt \in Tokens PROVE DetailsOrder(tt)'
  BY DEF DetailsInv
<1>1. PICK u \in Tokens : u = Head(incoming_hbs).tt
  BY TakeFacts DEF Inv, HandleThrottleCompleted, Types
<1>2. loop = "running" /\ loop' = "running" /\ Shifted(1, tt) /\ Nr("CompleteThrottle", u) # 0
  <2>1. Nr("CompleteThrottle", u)' \in Nat
    BY TakeFacts, CountType DEF Inv, HandleThrottleCompleted, Types, Nr
  <2> QED
    BY <1>1, <2>1, TakeFacts, TakeShifts DEF Inv, HandleThrottleCompleted, Types, Shifted
<1>3. answered' = answered /\ beats' = beats /\ activity' = activity
  BY DEF HandleThrottleCompleted
<1>4. CASE tt # u
  <2>1. InFlight(tt)' = InFlight(tt)
    BY <1>1, <1>4 DEF HandleThrottleCompleted, InFlight
  <2>2. tt_to_state'[tt] = tt_to_state[tt]
    BY <1>1, <1>4 DEF HandleThrottleCompleted, Inv, TypeOK
  <2> QED
    BY <1>2, <1>3, <2>1, <2>2, OrderFrame DEF Inv, DetailsInv
<1>5. CASE tt = u /\ ~(IsTracked(tt) /\ tt_to_state[tt].last # 0)
  <2>1. InFlight(tt)' = InFlight(tt)
    BY <1>1, <1>5 DEF HandleThrottleCompleted, InFlight
  <2>2. tt_to_state'[tt].last = 0
    BY <1>1, <1>5 DEF HandleThrottleCompleted, Inv, TypeOK, Untracked
  <2> QED
    BY <1>2, <1>3, <2>1, <2>2, OrderFrame DEF Inv, DetailsInv
<1>6. CASE tt = u /\ IsTracked(tt) /\ tt_to_state[tt].last # 0
  <2> SUFFICES ASSUME activity[tt] = "running" PROVE DetailsOrder(tt)'
    BY <1>3 DEF DetailsOrder
  <2>1. PICK d \in 1..MaxBeats : d = tt_to_state[tt].last
    BY <1>6 DEF Inv, TypeOK, States
  <2>2. /\ tt_to_state' = [tt_to_state EXCEPT ![tt] = Reporting]
        /\ reports' = reports \cup {[tt |-> tt, details |-> d]}
    BY <1>1, <1>6, <2>1 DEF HandleThrottleCompleted
  <2>3. tt_to_state'[tt].last = 0
    BY <2>2 DEF Inv, TypeOK, Reporting
  <2>4. InFlight(tt) = {}
    <3>1. Wakers(tt) = 1
      BY <1>2, <1>6 DEF Inv, TokenInv, LiveInv, Live
    <3>2. /\ NrReports(tt) \in Nat /\ NrSleeps(tt) \in Nat /\ IsFiniteSet(InFlight(tt))
          /\ Nr("CompleteReport", tt) \in Nat /\ Nr("CompleteThrottle", tt) \in Nat
      BY NrType DEF Inv, Types
    <3>3. NrReports(tt) = 0
      BY <1>2, <1>6, <3>1, <3>2 DEF Wakers
    <3> QED
      BY <3>2, <3>3, FS_EmptySet DEF NrReports
  <2>5. InFlight(tt)' = {[tt |-> tt, details |-> d]}
    BY <2>2, <2>4 DEF InFlight
  <2>6. Sent(tt)' = {d}
    BY <2>5 DEF Sent
  <2>7. Older(tt)' = answered[tt] \cup {d, 0}
    BY <1>3, <2>3, <2>6 DEF Older
  <2>8. /\ answered[tt] \cup {d} \subseteq Older(tt) /\ beats[tt] \in Nat
        /\ QueueOrder(tt) /\ (\A x \in Older(tt) : x <= beats[tt])
        /\ \A a \in answered[tt] : a < d
    BY <1>2, <1>6, <2>1, OlderType DEF Older, Inv, DetailsInv, DetailsOrder
  <2>9. QueueOrder(tt)'
    BY <1>2, <1>3, <2>7, <2>8, ShrinkOrder DEF Inv, Shifted
  <2> QED
    BY <1>3, <2>3, <2>6, <2>7, <2>8, <2>9 DEF DetailsOrder
<1> QED
  BY <1>4, <1>5, <1>6

\* An evict concerns an activity that no longer runs.
LEMMA EvictOrder == ASSUME Inv, DetailsInv, Evict PROVE DetailsInv'
<1> SUFFICES ASSUME NEW tt \in Tokens PROVE DetailsOrder(tt)'
  BY DEF DetailsInv
<1>1. PICK u \in Tokens : u = Head(incoming_hbs).tt
  BY TakeFacts DEF Inv, Evict, Types
<1>2. loop = "running" /\ loop' = "running" /\ Shifted(1, tt) /\ Nr("Evict", u) # 0
  <2>1. Nr("Evict", u)' \in Nat
    BY TakeFacts, CountType DEF Inv, Evict, Types, Nr
  <2> QED
    BY <1>1, <2>1, TakeFacts, TakeShifts DEF Inv, Evict, Types, Shifted
<1>3. CASE tt = u
  <2>1. activity[tt] = "evicting"
    BY <1>2, <1>3 DEF Inv, TokenInv, EvictInv
  <2>2. activity'[tt] # "running"
    BY <1>1, <1>3, <2>1 DEF Evict, Notified, Inv, TypeOK
  <2> QED
    BY <2>2 DEF DetailsOrder
<1>4. CASE tt # u
  <2>1. InFlight(tt)' = InFlight(tt)
    BY <1>1, <1>4 DEF Evict, InFlight
  <2>2. tt_to_state'[tt] = tt_to_state[tt]
    BY <1>1, <1>4 DEF Evict, Inv, TypeOK
  <2>3. activity'[tt] = activity[tt]
    BY <1>1, <1>4 DEF Evict, Notified, Inv, TypeOK
  <2> QED
    BY <1>2, <2>1, <2>2, <2>3, OrderFrame DEF Evict, Inv, DetailsInv
<1> QED
  BY <1>3, <1>4

\* Every step keeps the details in order.
LEMMA StepOrder == Inv /\ DetailsInv /\ [Next]_vars => DetailsInv'
<1> SUFFICES ASSUME Inv, DetailsInv, [Next]_vars PROVE DetailsInv'
  OBVIOUS
<1>1. ASSUME NEW tt \in Tokens, RecordHeartbeat(tt) PROVE DetailsInv'
  BY <1>1, RecordHeartbeatOrder
<1>2. ASSUME NEW tt \in Tokens, EvictCall(tt) PROVE DetailsInv'
  BY <1>2, EvictCallOrder
<1>3. ASSUME NEW tt \in Tokens, SleepEnds(tt) PROVE DetailsInv'
  BY <1>3, SleepEndsOrder
<1>4. ASSUME NEW r \in reports, ReportEnds(r) PROVE DetailsInv'
  BY <1>4, ReportEndsOrder
<1>5. CASE LoopStep
  BY <1>5, RecordOrder, ReportCompletedOrder, ThrottleCompletedOrder, EvictOrder DEF LoopStep
<1>6. CASE ShutDown \/ Joined
  <2> SUFFICES ASSUME NEW tt \in Tokens PROVE DetailsOrder(tt)'
    BY DEF DetailsInv
  <2>1. InFlight(tt)' = InFlight(tt) /\ loop' # "running"
    BY <1>6 DEF ShutDown, Joined, InFlight
  <2> QED
    BY <1>6, <2>1, OrderFrame DEF ShutDown, Joined, Inv, DetailsInv
<1>7. CASE UNCHANGED vars
  <2> SUFFICES ASSUME NEW tt \in Tokens PROVE DetailsOrder(tt)'
    BY DEF DetailsInv
  <2>1. InFlight(tt)' = InFlight(tt) /\ incoming_hbs' = incoming_hbs
    BY <1>7 DEF vars, InFlight
  <2>2. Shifted(0, tt)
    <3>1. \A i \in DOMAIN incoming_hbs : i \in Nat /\ i > 0
      BY DEF Inv, TypeOK
    <3> QED
      BY <2>1, <3>1 DEF Shifted
  <2> QED
    BY <1>7, <2>1, <2>2, OrderFrame DEF vars, Inv, DetailsInv
<1> QED
  BY <1>1, <1>2, <1>3, <1>4, <1>5, <1>6, <1>7 DEF Next

\* Initially there are no details at all.
LEMMA InitOrder == Init => DetailsInv
<1> SUFFICES ASSUME Init, NEW tt \in Tokens PROVE DetailsOrder(tt)
  BY DEF DetailsInv
<1>1. Sent(tt) = {} /\ Older(tt) = {0} /\ DOMAIN incoming_hbs = {}
  BY DEF Init, Sent, InFlight, Older, Untracked
<1> QED
  BY <1>1 DEF Init, DetailsOrder, QueueOrder, Untracked

\* The server is never told of older details than it already answered while the
\* activity runs (activity_heartbeat_manager.rs: record, handle_throttle_completed).
THEOREM DetailsInOrder == Spec => InOrderWhileRunning
<1> DEFINE A == \A tt \in Tokens : activity[tt] = "running" =>
                  \A old \in answered[tt], new \in answered'[tt] \ answered[tt] : old < new
<1>1. Init => DetailsInv
  BY InitOrder
<1>2. Inv /\ DetailsInv /\ [Next]_vars => DetailsInv'
  BY StepOrder
<1>3. Inv /\ DetailsInv /\ [Next]_vars => [A]_vars
  <2> SUFFICES ASSUME Inv, DetailsInv, Next, NEW tt \in Tokens, activity[tt] = "running",
                      NEW old \in answered[tt], NEW new \in answered'[tt] \ answered[tt]
               PROVE  old < new
    OBVIOUS
  <2>1. answered' # answered
    OBVIOUS
  <2>2. PICK r \in reports : ReportEnds(r)
    BY <2>1 DEF Next, RecordHeartbeat, EvictCall, SleepEnds, LoopStep, Record, HandleReportCompleted,
                HandleThrottleCompleted, Evict, ShutDown, Joined
  <2>3. r.tt = tt /\ new = r.details
    BY <2>2 DEF ReportEnds, Inv, TypeOK
  <2>4. new \in Sent(tt)
    BY <2>3 DEF Sent, InFlight
  <2> QED
    BY <2>4 DEF DetailsInv, DetailsOrder
<1>4. Spec => [][A]_vars
  BY <1>1, <1>2, <1>3, HeartbeatInvariant, PTL DEF Spec
<1> QED
  BY <1>4 DEF InOrderWhileRunning
=============================================================================
