------------------------ MODULE TemporalClientProofs ------------------------
(***************************************************************************)
(* Machine-checked proofs about TemporalClient: the invariant Inv is       *)
(* inductive, and with it every step of the client is a step of            *)
(* ClientContract or leaves it alone.                                      *)
(***************************************************************************)
EXTENDS TemporalClient, TLAPS

\* Taking the first call from a mailbox without duplicates removes exactly it.
LEMMA Dequeue ==
  ASSUME mailbox \in Seq(CallIds), mailbox # <<>>, mailbox' = Tail(mailbox),
         \A i, j \in 1..Len(mailbox) : mailbox[i] = mailbox[j] => i = j
  PROVE  /\ Head(mailbox) \in CallIds
         /\ Head(mailbox) \in Queued
         /\ mailbox' \in Seq(CallIds)
         /\ Queued' = Queued \ {Head(mailbox)}
         /\ (\A i, j \in 1..Len(mailbox) : mailbox[i] = mailbox[j] => i = j)'
<1> DEFINE L == Len(mailbox)
<1>1. /\ L \in Nat /\ L > 0
      /\ Head(mailbox) = mailbox[1] /\ mailbox[1] \in CallIds
      /\ Tail(mailbox) \in Seq(CallIds)
      /\ Len(Tail(mailbox)) = L - 1
      /\ \A i \in 1..(L - 1) : Tail(mailbox)[i] = mailbox[i + 1]
  OBVIOUS
<1>2. Queued' = {mailbox[i + 1] : i \in 1..(L - 1)}
  BY <1>1 DEF Queued
<1>3. Queued' = Queued \ {Head(mailbox)}
  <2>1. ASSUME NEW x \in Queued' PROVE x \in Queued /\ x # Head(mailbox)
    BY <1>1, <1>2, <2>1 DEF Queued
  <2>2. ASSUME NEW x \in Queued, x # Head(mailbox) PROVE x \in Queued'
    <3>1. PICK i \in 1..L : x = mailbox[i]
      BY DEF Queued
    <3>2. i - 1 \in 1..(L - 1) /\ x = mailbox[(i - 1) + 1]
      BY <1>1, <2>2, <3>1
    <3> QED BY <1>2, <3>2
  <2> QED BY <2>1, <2>2
<1>4. (\A i, j \in 1..Len(mailbox) : mailbox[i] = mailbox[j] => i = j)'
  BY <1>1
<1>5. Head(mailbox) \in Queued
  BY <1>1 DEF Queued
<1> QED BY <1>1, <1>3, <1>4, <1>5

\* A call that arrives joins the queue, and a mailbox that did not hold it
\* still has no duplicates.
LEMMA Enqueue ==
  ASSUME mailbox \in Seq(CallIds), NEW n \in CallIds, mailbox' = Append(mailbox, n),
         \A i, j \in 1..Len(mailbox) : mailbox[i] = mailbox[j] => i = j,
         n \notin Queued
  PROVE  /\ mailbox' \in Seq(CallIds)
         /\ Queued' = Queued \cup {n}
         /\ (\A i, j \in 1..Len(mailbox) : mailbox[i] = mailbox[j] => i = j)'
<1> DEFINE L == Len(mailbox)
<1>1. /\ L \in Nat
      /\ mailbox' \in Seq(CallIds)
      /\ Len(mailbox') = L + 1
      /\ mailbox'[L + 1] = n
      /\ \A i \in 1..L : mailbox'[i] = mailbox[i]
  OBVIOUS
<1>2. \A i \in 1..L : mailbox[i] # n
  BY DEF Queued
<1>3. Queued' = Queued \cup {n}
  <2>1. ASSUME NEW x \in Queued' PROVE x \in Queued \cup {n}
    <3>1. PICK i \in 1..(L + 1) : x = mailbox'[i]
      BY <1>1, <2>1 DEF Queued
    <3>2. CASE i = L + 1 BY <1>1, <3>1, <3>2
    <3>3. CASE i \in 1..L BY <1>1, <3>1, <3>3 DEF Queued
    <3> QED BY <1>1, <3>1, <3>2, <3>3
  <2>2. ASSUME NEW x \in Queued \cup {n} PROVE x \in Queued'
    BY <1>1, <2>2 DEF Queued
  <2> QED BY <2>1, <2>2
<1>4. (\A i, j \in 1..Len(mailbox) : mailbox[i] = mailbox[j] => i = j)'
  BY <1>1, <1>2
<1> QED BY <1>1, <1>3, <1>4

\* An empty mailbox queues nobody.
LEMMA EmptyQueue == mailbox = <<>> => Queued = {}
  BY DEF Queued

\* The invariant holds initially.
LEMMA InitInv == Init => Inv
<1> SUFFICES ASSUME Init PROVE Inv OBVIOUS
<1> USE ClientAssumption DEF Init
<1>1. Queued = {} BY EmptyQueue
<1>2. TypeOK BY DEF TypeOK, Points, Ops, Classes, Answers
<1>3. ConnInv BY DEF ConnInv, ConnectionConsistent
<1>4. QueueInv BY <1>1 DEF QueueInv, NoCallIsForgotten, Pending, Requests
<1>5. AttemptInv BY DEF AttemptInv, InRpc
<1>6. BegunInv BY DEF BegunInv, Begun, InRpc
<1>7. EffectInv BY DEF EffectInv, EffectAtMostOnce
<1> QED BY <1>2, <1>3, <1>4, <1>5, <1>6, <1>7 DEF Inv

\* A reply ends the call it is for and touches no other.
LEMMA ReplyFacts ==
  ASSUME answer \in [CallIds -> Answers], NEW n \in CallIds, NEW a \in Answers,
         a # "pending", Reply(n, a)
  PROVE  /\ answer' \in [CallIds -> Answers]
         /\ op[n] # "none" => answer'[n] # "pending"
         /\ \A k \in CallIds : k # n => answer'[k] = answer[k]
         /\ answer'[n] = answer[n] \/ answer'[n] = a
         /\ at' = "idle" /\ current' = NoCall /\ attempt' = 0 /\ response' = "none"
  BY DEF Reply, Pending

\* When the process dies nobody waits any longer.
LEMMA AllExitFacts ==
  ASSUME answer \in [CallIds -> Answers]
  PROVE  /\ AllExit \in [CallIds -> Answers]
         /\ \A k \in CallIds : op[k] # "none" => AllExit[k] # "pending"
         /\ \A k \in CallIds : AllExit[k] = answer[k] \/ (op[k] # "none" /\ AllExit[k] = "exit")
<1>1. \A k \in CallIds : AllExit[k] = IF Pending(k) THEN "exit" ELSE answer[k]
  BY DEF AllExit
<1>2. AllExit \in [CallIds -> Answers]
  BY DEF AllExit, Answers
<1>3. ASSUME NEW k \in CallIds
      PROVE  /\ op[k] # "none" => AllExit[k] # "pending"
             /\ AllExit[k] = answer[k] \/ (op[k] # "none" /\ AllExit[k] = "exit")
  <2>1. CASE Pending(k) BY <1>1, <2>1 DEF Pending
  <2>2. CASE ~Pending(k)
    <3>1. AllExit[k] = answer[k] BY <1>1, <2>2
    <3> QED BY <2>2, <3>1 DEF Pending
  <2> QED BY <2>1, <2>2
<1> QED BY <1>2, <1>3

\* Whoever is queued is a call.
LEMMA QueuedType == mailbox \in Seq(CallIds) => Queued \subseteq CallIds
  BY DEF Queued

\* A dead process satisfies the invariant again, whatever it was doing.
LEMMA DieInv ==
  ASSUME Inv, Die, answer' \in [CallIds -> Answers],
         \A k \in CallIds : op[k] # "none" => answer'[k] # "pending",
         \A k \in CallIds : answer'[k] = answer[k] \/ (op[k] # "none" /\ answer'[k] \in {"exit", "ok"}),
         orphans' = orphans \/ /\ at \in InRpc
                               /\ orphans' = orphans \cup {[call |-> current, attempt |-> attempt]}
  PROVE  Inv'
<1> USE ClientAssumption DEF Die, connVars, callVars, serverVars
<1>0. TypeOK /\ ConnInv /\ QueueInv /\ AttemptInv /\ BegunInv /\ EffectInv
  BY DEF Inv
<1>q. Queued' = {} BY DEF Queued
<1>o. at \in InRpc => [call |-> current, attempt |-> attempt] \in [call : CallIds, attempt : 0..MaxRetries]
  BY <1>0 DEF TypeOK, QueueInv, InRpc
<1>1. TypeOK'
  <2>1. orphans' \subseteq [call : CallIds, attempt : 0..MaxRetries]
    BY <1>0, <1>o DEF TypeOK
  <2>2. mailbox' \in Seq(CallIds) /\ attempt' \in 0..MaxRetries /\ at' \in Points
    BY DEF Points
  <2> QED BY <1>0, <2>1, <2>2 DEF TypeOK
<1>2. ConnInv' BY <1>0 DEF ConnInv, ConnectionConsistent
<1>3. QueueInv' BY <1>0, <1>q DEF QueueInv, NoCallIsForgotten, Pending, Requests
<1>4. AttemptInv' BY DEF AttemptInv, InRpc
<1>5. BegunInv'
  <2>1. \A n \in CallIds : Begun(n)' => Begun(n)
    BY <1>0 DEF Begun, InRpc
  <2> QED BY <1>0, <1>q, <2>1 DEF BegunInv, TypeOK
<1>6. EffectInv' BY <1>0 DEF EffectInv, EffectAtMostOnce, RidOf
<1> QED BY <1>1, <1>2, <1>3, <1>4, <1>5, <1>6 DEF Inv

\* Every step keeps the invariant.
LEMMA StepInv == Inv /\ [Next]_vars => Inv'
<1> SUFFICES ASSUME Inv, [Next]_vars PROVE Inv'
  OBVIOUS
<1> USE ClientAssumption
<1>0. TypeOK /\ ConnInv /\ QueueInv /\ AttemptInv /\ BegunInv /\ EffectInv
  BY DEF Inv
<1>1. ASSUME NEW n \in CallIds, Invoke(n) PROVE Inv'
  <2> USE <1>0, <1>1 DEF Invoke
  <2>0. /\ op[n] = "none" /\ n \notin Queued /\ n # current
        /\ ~Begun(n) /\ mailbox \in Seq(CallIds)
        /\ Requests \subseteq Ops /\ "none" \notin Ops
    BY DEF QueueInv, BegunInv, TypeOK, Requests, Ops, Points
  <2>q. /\ mailbox' \in Seq(CallIds)
        /\ Queued' = IF alive THEN Queued \cup {n} ELSE Queued
        /\ (\A i, j \in 1..Len(mailbox) : mailbox[i] = mailbox[j] => i = j)'
    <3>1. CASE alive BY <2>0, <3>1, Enqueue DEF QueueInv
    <3>2. CASE ~alive
      <4>1. mailbox' = mailbox BY <3>2
      <4> QED BY <2>0, <3>2, <4>1 DEF QueueInv, Queued
    <3> QED BY <3>1, <3>2
  <2>1. TypeOK'
    <3>1. /\ op' \in [CallIds -> Ops \cup {"none"}]
          /\ class' \in [CallIds -> Classes]
          /\ given' \in [CallIds -> RequestIds \cup {NoId}]
      BY DEF TypeOK
    <3>2. answer' \in [CallIds -> Answers]
      BY DEF TypeOK, Answers
    <3> QED BY <2>q, <3>1, <3>2 DEF TypeOK, connVars, rpcVars, serverVars
  <2>2. ConnInv' BY DEF ConnInv, ConnectionConsistent, connVars
  <2>r. \A k \in CallIds : k # n => op'[k] = op[k] /\ RidOf(k)' = RidOf(k) /\ answer'[k] = answer[k]
    BY DEF RidOf, TypeOK
  <2>3. QueueInv' BY <2>0, <2>q, <2>r DEF QueueInv, NoCallIsForgotten, Pending, TypeOK
  <2>4. AttemptInv' BY DEF AttemptInv, rpcVars
  <2>5. BegunInv' BY <2>0, <2>q, <2>r DEF BegunInv, Begun, TypeOK, serverVars
  <2>6. EffectInv' BY <2>0, <2>r DEF EffectInv, EffectAtMostOnce, Begun, BegunInv, QueueInv, TypeOK, serverVars, rpcVars, InRpc
  <2> QED BY <2>1, <2>2, <2>3, <2>4, <2>5, <2>6 DEF Inv
<1>2. ASSUME NEW n \in CallIds, CallTimeout(n) PROVE Inv'
  <2> USE <1>0, <1>2 DEF CallTimeout, connVars, rpcVars, callVars, serverVars
  <2>0. Queued' = Queued BY DEF Queued
  <2>1. TypeOK' BY DEF TypeOK, Answers
  <2>2. ConnInv' BY DEF ConnInv, ConnectionConsistent
  <2>3. QueueInv' BY <2>0 DEF QueueInv, NoCallIsForgotten, Pending, TypeOK
  <2>4. AttemptInv' BY DEF AttemptInv
  <2>5. BegunInv' BY <2>0 DEF BegunInv, Begun, TypeOK
  <2>6. EffectInv' BY DEF EffectInv, EffectAtMostOnce, RidOf
  <2> QED BY <2>1, <2>2, <2>3, <2>4, <2>5, <2>6 DEF Inv
<1>3. CASE HandleConnected
  <2> DEFINE n == Head(mailbox)
  <2> USE <1>0, <1>3 DEF HandleConnected, connVars, rpcVars, callVars, serverVars
  <2>q. /\ n \in CallIds /\ n \in Queued
        /\ mailbox' \in Seq(CallIds) /\ Queued' = Queued \ {n}
        /\ (\A i, j \in 1..Len(mailbox) : mailbox[i] = mailbox[j] => i = j)'
    BY Dequeue DEF TypeOK, QueueInv
  <2>0. /\ op[n] # "none" /\ ~Begun(n) /\ current = NoCall /\ attempt = 0
    BY <2>q DEF QueueInv, BegunInv, AttemptInv, InRpc
  <2>1. CASE op[n] = "connect" /\ Reply(n, "ok")
    <3> HIDE DEF n
    <3>0. /\ answer' \in [CallIds -> Answers]
          /\ answer'[n] # "pending"
          /\ \A k \in CallIds : k # n => answer'[k] = answer[k]
          /\ answer'[n] = answer[n] \/ answer'[n] = "ok"
          /\ at' = "idle" /\ current' = NoCall /\ attempt' = 0 /\ response' = "none"
      BY <2>q, <2>0, <2>1, ReplyFacts DEF TypeOK, Answers
    <3>1. TypeOK' BY <2>q, <3>0 DEF TypeOK, Points
    <3>2. ConnInv' BY <3>0 DEF ConnInv, ConnectionConsistent
    <3>3. QueueInv' BY <2>q, <2>0, <3>0 DEF QueueInv, NoCallIsForgotten, Pending
    <3>4. AttemptInv' BY <3>0 DEF AttemptInv, InRpc
    <3>5. BegunInv' BY <2>q, <2>0, <3>0 DEF BegunInv, Begun, InRpc
    <3>6. EffectInv' BY <3>0 DEF EffectInv, EffectAtMostOnce, RidOf
    <3> QED BY <3>1, <3>2, <3>3, <3>4, <3>5, <3>6 DEF Inv
  <2>2. CASE op[n] \in Requests /\ current' = n /\ at' = "prepare" /\ UNCHANGED <<answer, rpcVars>>
    <3> HIDE DEF n
    <3>1. TypeOK' BY <2>q, <2>2 DEF TypeOK, Points
    <3>2. ConnInv' BY <2>2 DEF ConnInv, ConnectionConsistent
    <3>3. QueueInv' BY <2>q, <2>0, <2>2 DEF QueueInv, NoCallIsForgotten, Pending
    <3>4. AttemptInv' BY <2>0, <2>2 DEF AttemptInv, InRpc
    <3>5. BegunInv' BY <2>q, <2>0, <2>2 DEF BegunInv, Begun, InRpc
    <3>6. EffectInv' BY <2>2 DEF EffectInv, EffectAtMostOnce, RidOf
    <3> QED BY <3>1, <3>2, <3>3, <3>4, <3>5, <3>6 DEF Inv
  <2> QED BY <2>1, <2>2
<1>4. CASE HandleDisconnected
  <2> DEFINE n == Head(mailbox)
  <2> USE <1>0, <1>4 DEF HandleDisconnected, connVars, rpcVars, callVars, serverVars
  <2>q. /\ n \in CallIds /\ n \in Queued
        /\ mailbox' \in Seq(CallIds) /\ Queued' = Queued \ {n}
        /\ (\A i, j \in 1..Len(mailbox) : mailbox[i] = mailbox[j] => i = j)'
    BY Dequeue DEF TypeOK, QueueInv
  <2>0. /\ op[n] # "none" /\ ~Begun(n) /\ current = NoCall /\ attempt = 0
        /\ op[n] \in Requests \cup {"connect"} /\ current' = n /\ at' = "connect"
    BY <2>q DEF QueueInv, BegunInv, AttemptInv, InRpc, NeedsConnection
  <2> HIDE DEF n
  <2>1. TypeOK' BY <2>q, <2>0 DEF TypeOK, Points
  <2>2. ConnInv' BY <2>0 DEF ConnInv, ConnectionConsistent
  <2>3. QueueInv' BY <2>q, <2>0 DEF QueueInv, NoCallIsForgotten, Pending
  <2>4. AttemptInv' BY <2>0 DEF AttemptInv, InRpc
  <2>5. BegunInv' BY <2>q, <2>0 DEF BegunInv, Begun, InRpc
  <2>6. EffectInv' BY <2>0 DEF EffectInv, EffectAtMostOnce, RidOf
  <2> QED BY <2>1, <2>2, <2>3, <2>4, <2>5, <2>6 DEF Inv
<1>5. CASE HandleStatus
  <2> DEFINE n == Head(mailbox)
  <2> USE <1>0, <1>5 DEF HandleStatus, connVars, rpcVars, callVars, serverVars
  <2>q. /\ n \in CallIds /\ n \in Queued
        /\ mailbox' \in Seq(CallIds) /\ Queued' = Queued \ {n}
        /\ (\A i, j \in 1..Len(mailbox) : mailbox[i] = mailbox[j] => i = j)'
    BY Dequeue DEF TypeOK, QueueInv
  <2>0. /\ answer' \in [CallIds -> Answers]
        /\ answer'[n] # "pending"
        /\ \A k \in CallIds : k # n => answer'[k] = answer[k]
        /\ answer'[n] = answer[n] \/ answer'[n] = "ok"
        /\ at' = "idle" /\ current' = NoCall /\ attempt' = 0 /\ response' = "none"
        /\ ~Begun(n)
    BY <2>q, ReplyFacts DEF TypeOK, Answers, BegunInv, Requests
  <2> HIDE DEF n
  <2>1. TypeOK' BY <2>q, <2>0 DEF TypeOK, Points
  <2>2. ConnInv' BY <2>0 DEF ConnInv, ConnectionConsistent
  <2>3. QueueInv' BY <2>q, <2>0 DEF QueueInv, NoCallIsForgotten, Pending
  <2>4. AttemptInv' BY <2>0 DEF AttemptInv, InRpc
  <2>5. BegunInv' BY <2>q, <2>0 DEF BegunInv, Begun, InRpc
  <2>6. EffectInv' BY <2>0 DEF EffectInv, EffectAtMostOnce, RidOf
  <2> QED BY <2>1, <2>2, <2>3, <2>4, <2>5, <2>6 DEF Inv
<1>6. CASE HandleStop
  <2>q. Head(mailbox) \in CallIds
    BY <1>0, <1>6 DEF HandleStop, TypeOK
  <2>1. /\ answer' \in [CallIds -> Answers]
        /\ \A k \in CallIds : op[k] # "none" => answer'[k] # "pending"
        /\ \A k \in CallIds : answer'[k] = answer[k] \/ (op[k] # "none" /\ answer'[k] \in {"exit", "ok"})
    BY <1>0, <1>6, <2>q, AllExitFacts DEF HandleStop, TypeOK, Answers
  <2> QED BY <1>0, <1>6, <2>1, DieInv DEF HandleStop, Inv
<1>7. CASE PrepareRaises
  BY <1>0, <1>7, AllExitFacts, DieInv DEF PrepareRaises, Inv, TypeOK
<1>8. CASE Kill
  <2>1. \/ orphans' = orphans
        \/ /\ at \in InRpc
           /\ orphans' = orphans \cup {[call |-> current, attempt |-> attempt]}
    BY <1>8 DEF Kill
  <2> QED BY <1>0, <1>8, <2>1, AllExitFacts, DieInv DEF Kill, Inv, TypeOK
<1>9. CASE Restart
  <2> USE <1>0, <1>9 DEF Restart, rpcVars, callVars, serverVars
  <2>0. Queued' = Queued BY DEF Queued
  <2>d. at = "idle" /\ current = NoCall /\ attempt = 0
    BY DEF QueueInv, AttemptInv, InRpc
  <2>1. TypeOK' BY DEF TypeOK, Points
  <2>2. ConnInv' BY DEF ConnInv, ConnectionConsistent
  <2>3. QueueInv' BY <2>0, <2>d DEF QueueInv, NoCallIsForgotten, Pending
  <2>4. AttemptInv' BY <2>d DEF AttemptInv, InRpc
  <2>5. BegunInv' BY <2>0, <2>d DEF BegunInv, Begun, InRpc
  <2>6. EffectInv' BY DEF EffectInv, EffectAtMostOnce, RidOf
  <2> QED BY <2>1, <2>2, <2>3, <2>4, <2>5, <2>6 DEF Inv
<1>10. CASE ConnectOk
  <2> USE <1>0, <1>10 DEF ConnectOk, callVars, serverVars, rpcVars
  <2>0. Queued' = Queued BY DEF Queued
  <2>c. ConnInv'
    <3>1. connections = 0 /\ connections' = 1
      BY DEF ConnInv, ConnectionConsistent, TypeOK
    <3>2. connect_attempts' = 0
      BY DEF ConnInv
    <3>3. at' \in {"idle", "prepare"}
      BY DEF Reply
    <3> QED BY <3>1, <3>2, <3>3 DEF ConnInv, ConnectionConsistent
  <2>t. connections' \in Nat /\ client_resource' \in Nat /\ connect_attempts' \in Nat
        /\ status' = "connected"
    BY DEF TypeOK
  <2>1. CASE at = "continue" /\ at' = "idle" /\ UNCHANGED <<answer, current, rpcVars>>
    <3>1. TypeOK' BY <2>t, <2>1 DEF TypeOK, Points
    <3>3. QueueInv' BY <2>0, <2>1 DEF QueueInv, NoCallIsForgotten, Pending
    <3>4. AttemptInv' BY <2>1 DEF AttemptInv, InRpc
    <3>5. BegunInv' BY <2>0, <2>1 DEF BegunInv, Begun, InRpc
    <3>6. EffectInv' BY <2>1 DEF EffectInv, EffectAtMostOnce, RidOf
    <3> QED BY <2>c, <3>1, <3>3, <3>4, <3>5, <3>6 DEF Inv
  <2>2. CASE at = "connect" /\ op[current] = "connect" /\ Reply(current, "ok")
    <3>n. current \in CallIds /\ ~Begun(current)
      BY <2>2 DEF QueueInv, TypeOK, BegunInv, Requests
    <3>0. /\ answer' \in [CallIds -> Answers]
          /\ answer'[current] # "pending"
          /\ \A k \in CallIds : k # current => answer'[k] = answer[k]
          /\ answer'[current] = answer[current] \/ answer'[current] = "ok"
          /\ at' = "idle" /\ current' = NoCall /\ attempt' = 0 /\ response' = "none"
      BY <2>2, <3>n, ReplyFacts DEF TypeOK, Answers
    <3>1. TypeOK' BY <2>t, <3>0 DEF TypeOK, Points
    <3>3. QueueInv'
      <4>1. \A k \in CallIds : Pending(k)' => Pending(k) /\ k # current
        BY <3>0 DEF Pending
      <4>2. \A k \in CallIds : k # current => answer'[k] = answer[k]
        BY <3>0
      <4>3. mailbox' = mailbox /\ alive' = alive /\ op' = op
        OBVIOUS
      <4>4. \A k \in CallIds : op'[k] = "none" => answer'[k] = "pending"
        BY <3>n, <4>2, <4>3 DEF QueueInv
      <4>5. NoCallIsForgotten'
        BY <2>0, <4>1, <4>3 DEF QueueInv, NoCallIsForgotten
      <4> QED BY <2>0, <3>0, <4>2, <4>3, <4>4, <4>5, QueuedType DEF QueueInv, TypeOK
    <3>4. AttemptInv' BY <3>0 DEF AttemptInv, InRpc
    <3>5. BegunInv' BY <2>0, <3>n, <3>0 DEF BegunInv, Begun, InRpc
    <3>6. EffectInv' BY <3>0 DEF EffectInv, EffectAtMostOnce, RidOf
    <3> QED BY <2>c, <3>1, <3>3, <3>4, <3>5, <3>6 DEF Inv
  <2>3. CASE /\ at = "connect" /\ op[current] \in Requests
             /\ at' = "prepare" /\ UNCHANGED <<answer, current, rpcVars>>
    <3>n. current \in CallIds
      BY <2>3 DEF QueueInv, TypeOK
    <3>1. TypeOK' BY <2>t, <2>3 DEF TypeOK, Points
    <3>3. QueueInv' BY <2>0, <2>3, <3>n DEF QueueInv, NoCallIsForgotten, Pending
    <3>4. AttemptInv' BY <2>3 DEF AttemptInv, InRpc
    <3>5. BegunInv' BY <2>0, <2>3 DEF BegunInv, Begun, InRpc
    <3>6. EffectInv' BY <2>3 DEF EffectInv, EffectAtMostOnce, RidOf
    <3> QED BY <2>c, <3>1, <3>3, <3>4, <3>5, <3>6 DEF Inv
  <2> QED BY <2>1, <2>2, <2>3
<1>11. CASE ConnectFails
  <2> USE <1>0, <1>11 DEF ConnectFails, callVars, serverVars, rpcVars
  <2>0. Queued' = Queued BY DEF Queued
  <2>c. ConnInv'
    <3>1. at' = "idle" /\ connections = 0
      BY DEF Reply, ConnInv, ConnectionConsistent, TypeOK
    <3> QED BY <3>1 DEF ConnInv, ConnectionConsistent
  <2>t. connect_attempts' \in Nat /\ status' = "error"
    BY DEF TypeOK
  <2>1. CASE at = "continue" /\ at' = "idle" /\ UNCHANGED <<answer, current, rpcVars>>
    <3>1. TypeOK' BY <2>t, <2>1 DEF TypeOK, Points
    <3>3. QueueInv' BY <2>0, <2>1 DEF QueueInv, NoCallIsForgotten, Pending
    <3>4. AttemptInv' BY <2>1 DEF AttemptInv, InRpc
    <3>5. BegunInv' BY <2>0, <2>1 DEF BegunInv, Begun, InRpc
    <3>6. EffectInv' BY <2>1 DEF EffectInv, EffectAtMostOnce, RidOf
    <3> QED BY <2>c, <3>1, <3>3, <3>4, <3>5, <3>6 DEF Inv
  <2>2. ASSUME at = "connect", NEW a \in {"error", "not_connected"}, Reply(current, a) PROVE Inv'
    <3>n. current \in CallIds /\ op[current] # "none" /\ ~Begun(current)
      BY <2>2 DEF QueueInv, TypeOK, BegunInv, Requests, InRpc
    <3>0. /\ answer' \in [CallIds -> Answers]
          /\ answer'[current] # "pending"
          /\ \A k \in CallIds : k # current => answer'[k] = answer[k]
          /\ at' = "idle" /\ current' = NoCall /\ attempt' = 0 /\ response' = "none"
      BY <2>2, <3>n, ReplyFacts DEF TypeOK, Answers
    <3>1. TypeOK' BY <2>t, <3>0 DEF TypeOK, Points
    <3>3. QueueInv'
      <4>1. \A k \in CallIds : Pending(k)' => Pending(k) /\ k # current
        BY <3>0 DEF Pending
      <4>2. \A k \in CallIds : k # current => answer'[k] = answer[k]
        BY <3>0
      <4>3. mailbox' = mailbox /\ alive' = alive /\ op' = op
        OBVIOUS
      <4>4. \A k \in CallIds : op'[k] = "none" => answer'[k] = "pending"
        BY <3>n, <4>2, <4>3 DEF QueueInv
      <4>5. NoCallIsForgotten'
        BY <2>0, <4>1, <4>3 DEF QueueInv, NoCallIsForgotten
      <4> QED BY <2>0, <3>0, <4>2, <4>3, <4>4, <4>5, QueuedType DEF QueueInv, TypeOK
    <3>4. AttemptInv' BY <3>0 DEF AttemptInv, InRpc
    <3>5. BegunInv' BY <2>0, <3>n, <3>0 DEF BegunInv, Begun, InRpc
    <3>6. EffectInv' BY <3>0 DEF EffectInv, EffectAtMostOnce, RidOf
    <3> QED BY <2>c, <3>1, <3>3, <3>4, <3>5, <3>6 DEF Inv
  <2> QED BY <2>1, <2>2
<1>12. CASE Prepare
  <2> USE <1>0, <1>12 DEF Prepare, connVars, callVars, serverVars, rpcVars
  <2>0. Queued' = Queued BY DEF Queued
  <2>n. current \in CallIds /\ op[current] \in Requests /\ ~Begun(current) /\ attempt = 0
    BY DEF QueueInv, TypeOK, BegunInv, AttemptInv, InRpc
  <2>1. CASE at' = "send" /\ UNCHANGED <<answer, current, rpcVars>>
    <3>1. TypeOK' BY <2>1 DEF TypeOK, Points
    <3>2. ConnInv' BY <2>1 DEF ConnInv, ConnectionConsistent
    <3>3. QueueInv' BY <2>0, <2>n, <2>1 DEF QueueInv, NoCallIsForgotten, Pending
    <3>4. AttemptInv' BY <2>n, <2>1 DEF AttemptInv, InRpc
    <3>5. BegunInv'
      <4>1. answer[current] \notin {"not_connected", "bad_request"}
        BY <2>n DEF QueueInv
      <4> QED BY <2>0, <2>n, <2>1, <4>1 DEF BegunInv, Begun, InRpc, QueueInv
    <3>6. EffectInv' BY <2>1 DEF EffectInv, EffectAtMostOnce, RidOf
    <3> QED BY <3>1, <3>2, <3>3, <3>4, <3>5, <3>6 DEF Inv
  <2>2. CASE Reply(current, "bad_request")
    <3>0. /\ answer' \in [CallIds -> Answers]
          /\ answer'[current] # "pending"
          /\ \A k \in CallIds : k # current => answer'[k] = answer[k]
          /\ at' = "idle" /\ current' = NoCall /\ attempt' = 0 /\ response' = "none"
      BY <2>2, <2>n, ReplyFacts DEF TypeOK, Answers, Requests
    <3>1. TypeOK' BY <3>0 DEF TypeOK, Points
    <3>2. ConnInv' BY <3>0 DEF ConnInv, ConnectionConsistent
    <3>3. QueueInv'
      <4>1. \A k \in CallIds : Pending(k)' => Pending(k) /\ k # current
        BY <3>0 DEF Pending
      <4>2. \A k \in CallIds : k # current => answer'[k] = answer[k]
        BY <3>0
      <4>3. mailbox' = mailbox /\ alive' = alive /\ op' = op
        OBVIOUS
      <4>4. \A k \in CallIds : op'[k] = "none" => answer'[k] = "pending"
        BY <2>n, <4>2, <4>3 DEF QueueInv, Requests
      <4>5. NoCallIsForgotten'
        BY <2>0, <4>1, <4>3 DEF QueueInv, NoCallIsForgotten
      <4> QED BY <2>0, <3>0, <4>2, <4>3, <4>4, <4>5, QueuedType DEF QueueInv, TypeOK
    <3>4. AttemptInv' BY <3>0 DEF AttemptInv, InRpc
    <3>5. BegunInv' BY <2>0, <2>n, <3>0 DEF BegunInv, Begun, InRpc
    <3>6. EffectInv' BY <3>0 DEF EffectInv, EffectAtMostOnce, RidOf
    <3> QED BY <3>1, <3>2, <3>3, <3>4, <3>5, <3>6 DEF Inv
  <2> QED BY <2>1, <2>2
<1>13. CASE SendAttempt
  <2> USE <1>0, <1>13 DEF SendAttempt, connVars, callVars, serverVars
  <2>0. Queued' = Queued BY DEF Queued
  <2>n. current \in CallIds /\ attempt + 1 \in 1..MaxRetries /\ Begun(current)
    BY DEF QueueInv, AttemptInv, TypeOK, Begun, InRpc
  <2>m. /\ Message(current, attempt + 1) \in [call : CallIds, attempt : 1..MaxRetries, rid : Rids]
        /\ Message(current, attempt + 1).call = current
        /\ Message(current, attempt + 1).rid = RidOf(current)
    <3>1. RidOf(current) \in Rids
      BY <2>n DEF RidOf, Rids, TypeOK
    <3> QED BY <2>n, <3>1 DEF Message
  <2>1. TypeOK'
    <3>1. network' \subseteq [call : CallIds, attempt : 1..MaxRetries, rid : Rids]
      BY <2>m DEF TypeOK
    <3> QED BY <2>n, <3>1 DEF TypeOK, Points
  <2>2. ConnInv' BY DEF ConnInv, ConnectionConsistent
  <2>3. QueueInv' BY <2>0 DEF QueueInv, NoCallIsForgotten, Pending
  <2>4. AttemptInv' BY DEF AttemptInv, InRpc
  <2>5. BegunInv'
    <3>1. \A k \in CallIds : Begun(k)' => Begun(k)
      BY <2>n, <2>m DEF Begun, InRpc
    <3> QED BY <2>0, <3>1 DEF BegunInv, InRpc
  <2>6. EffectInv' BY <2>m DEF EffectInv, EffectAtMostOnce, RidOf
  <2> QED BY <2>1, <2>2, <2>3, <2>4, <2>5, <2>6 DEF Inv
<1>14. ASSUME at = "wait", NEW a \in {"ok", "error"}, Reply(current, a),
              UNCHANGED <<alive, restarts, connVars, mailbox, orphans, callVars, network, serverVars>>
       PROVE  Inv'
  <2> USE <1>0, <1>14 DEF connVars, callVars, serverVars
  <2>0. Queued' = Queued BY DEF Queued
  <2>n. current \in CallIds /\ op[current] \in Requests /\ op[current] # "none"
    BY DEF QueueInv, TypeOK, Requests
  <2>r. /\ answer' \in [CallIds -> Answers]
        /\ answer'[current] # "pending"
        /\ \A k \in CallIds : k # current => answer'[k] = answer[k]
        /\ answer'[current] = answer[current] \/ answer'[current] = a
        /\ at' = "idle" /\ current' = NoCall /\ attempt' = 0 /\ response' = "none"
    BY <2>n, ReplyFacts DEF TypeOK, Answers
  <2>1. TypeOK' BY <2>r DEF TypeOK, Points
  <2>2. ConnInv' BY <2>r DEF ConnInv, ConnectionConsistent
  <2>3. QueueInv'
    <3>1. \A k \in CallIds : Pending(k)' => Pending(k) /\ k # current
      BY <2>r DEF Pending
    <3>2. NoCallIsForgotten'
      BY <2>0, <3>1 DEF QueueInv, NoCallIsForgotten
    <3> QED BY <2>0, <2>n, <2>r, <3>2, QueuedType DEF QueueInv, TypeOK
  <2>4. AttemptInv' BY <2>r DEF AttemptInv, InRpc
  <2>5. BegunInv'
    <3>1. \A k \in CallIds : Begun(k)' => Begun(k)
      BY <2>r DEF Begun, InRpc
    <3> QED BY <2>0, <2>r, <3>1 DEF BegunInv, InRpc
  <2>6. EffectInv' BY <2>r DEF EffectInv, EffectAtMostOnce, RidOf
  <2> QED BY <2>1, <2>2, <2>3, <2>4, <2>5, <2>6 DEF Inv
<1>15. CASE AttemptReturns
  BY <1>14, <1>15 DEF AttemptReturns
<1>16. CASE AttemptFails
  BY <1>14, <1>16 DEF AttemptFails
<1>17. CASE AttemptRetries
  <2> USE <1>0, <1>17 DEF AttemptRetries, connVars, rpcVars, callVars, serverVars
  <2>0. Queued' = Queued BY DEF Queued
  <2>1. TypeOK' BY DEF TypeOK, Points
  <2>2. ConnInv' BY DEF ConnInv, ConnectionConsistent
  <2>3. QueueInv' BY <2>0 DEF QueueInv, NoCallIsForgotten, Pending
  <2>4. AttemptInv' BY DEF AttemptInv, InRpc
  <2>5. BegunInv' BY <2>0 DEF BegunInv, Begun, InRpc
  <2>6. EffectInv' BY DEF EffectInv, EffectAtMostOnce, RidOf
  <2> QED BY <2>1, <2>2, <2>3, <2>4, <2>5, <2>6 DEF Inv
<1>18. ASSUME NEW o \in orphans, OrphanSends(o) PROVE Inv'
  <2> USE <1>0, <1>18 DEF OrphanSends, connVars, rpcVars, callVars, serverVars
  <2>0. Queued' = Queued BY DEF Queued
  <2>n. o.call \in CallIds /\ o.attempt + 1 \in 1..MaxRetries /\ Begun(o.call)
    BY DEF TypeOK, Begun
  <2>m. /\ Message(o.call, o.attempt + 1) \in [call : CallIds, attempt : 1..MaxRetries, rid : Rids]
        /\ Message(o.call, o.attempt + 1).call = o.call
        /\ Message(o.call, o.attempt + 1).rid = RidOf(o.call)
    <3>1. RidOf(o.call) \in Rids
      BY <2>n DEF RidOf, Rids, TypeOK
    <3> QED BY <2>n, <3>1 DEF Message
  <2>o. /\ [call |-> o.call, attempt |-> o.attempt + 1] \in [call : CallIds, attempt : 0..MaxRetries]
        /\ [call |-> o.call, attempt |-> o.attempt + 1].call = o.call
    BY <2>n DEF TypeOK
  <2>1. TypeOK'
    <3>1. network' \subseteq [call : CallIds, attempt : 1..MaxRetries, rid : Rids]
      BY <2>m DEF TypeOK
    <3>2. orphans' \subseteq [call : CallIds, attempt : 0..MaxRetries]
      BY <2>o DEF TypeOK
    <3> QED BY <3>1, <3>2 DEF TypeOK
  <2>2. ConnInv' BY DEF ConnInv, ConnectionConsistent
  <2>3. QueueInv' BY <2>0 DEF QueueInv, NoCallIsForgotten, Pending
  <2>4. AttemptInv' BY DEF AttemptInv
  <2>5. BegunInv'
    <3>1. \A k \in CallIds : Begun(k)' => Begun(k)
      BY <2>n, <2>m, <2>o DEF Begun
    <3> QED BY <2>0, <3>1 DEF BegunInv
  <2>6. EffectInv' BY <2>m DEF EffectInv, EffectAtMostOnce, RidOf
  <2> QED BY <2>1, <2>2, <2>3, <2>4, <2>5, <2>6 DEF Inv
<1>19. ASSUME NEW o \in orphans, OrphanEnds(o) PROVE Inv'
  <2> USE <1>0, <1>19 DEF OrphanEnds, connVars, rpcVars, callVars, serverVars
  <2>0. Queued' = Queued BY DEF Queued
  <2>1. TypeOK' BY DEF TypeOK
  <2>2. ConnInv' BY DEF ConnInv, ConnectionConsistent
  <2>3. QueueInv' BY <2>0 DEF QueueInv, NoCallIsForgotten, Pending
  <2>4. AttemptInv' BY DEF AttemptInv
  <2>5. BegunInv'
    <3>1. \A k \in CallIds : Begun(k)' => Begun(k)
      BY DEF Begun
    <3> QED BY <2>0, <3>1 DEF BegunInv
  <2>6. EffectInv' BY DEF EffectInv, EffectAtMostOnce, RidOf
  <2> QED BY <2>1, <2>2, <2>3, <2>4, <2>5, <2>6 DEF Inv
<1>20. ASSUME NEW m \in network, Deliver(m) PROVE Inv'
  <2> USE <1>0 DEF connVars, callVars
  <2>n. m.call \in CallIds /\ m.rid \in Rids /\ m.rid = RidOf(m.call) /\ Begun(m.call)
    BY DEF TypeOK, Begun, EffectInv
  <2>u. UNCHANGED <<alive, restarts, at, connVars, mailbox, current, attempt, orphans, callVars, answer>>
        /\ network' = network \ {m}
    BY <1>20 DEF Deliver
  <2>0. Queued' = Queued BY <2>u DEF Queued
  <2>s. \/ applied' = applied /\ effects' = effects
        \/ /\ op[m.call] \in Effectful /\ m.rid \notin applied
           /\ applied' = applied \cup {m.rid}
           /\ effects' = [effects EXCEPT ![m.call] = @ + 1]
    BY <1>20 DEF Deliver
  <2>r. /\ response' \in {"none", "ok", "rejected"}
        /\ response' = "ok" => \/ response = "ok"
                               \/ m.call = current /\ (op[m.call] \in Effectful => m.rid \in applied')
    BY <1>20 DEF Deliver, TypeOK
  <2>e. /\ effects' \in [CallIds -> Nat] /\ applied' \subseteq Rids
        /\ applied \subseteq applied'
        /\ \A k \in CallIds : k # m.call => effects'[k] = effects[k]
        /\ effects'[m.call] = effects[m.call]
           \/ /\ effects'[m.call] = effects[m.call] + 1
              /\ op[m.call] \in Effectful /\ m.rid \notin applied /\ m.rid \in applied'
    BY <2>n, <2>s DEF TypeOK
  <2>1. TypeOK' BY <2>u, <2>r, <2>e DEF TypeOK
  <2>2. ConnInv' BY <2>u DEF ConnInv, ConnectionConsistent
  <2>3. QueueInv' BY <2>0, <2>u DEF QueueInv, NoCallIsForgotten, Pending
  <2>4. AttemptInv' BY <2>u DEF AttemptInv
  <2>5. BegunInv'
    <3>1. \A k \in CallIds : Begun(k)' => Begun(k)
      BY <2>n, <2>u, <2>e DEF Begun
    <3> QED BY <2>0, <2>u, <3>1 DEF BegunInv
  <2>6. EffectInv'
    <3>1. \A k \in CallIds : RidOf(k)' = RidOf(k)
      BY <2>u DEF RidOf
    <3>2. (\A k \in network : k.rid = RidOf(k.call))'
      BY <2>u, <3>1 DEF EffectInv, TypeOK
    <3>3. ASSUME NEW k \in CallIds
          PROVE /\ effects'[k] > 0 => op'[k] \in Effectful /\ RidOf(k)' \in applied'
                /\ effects'[k] <= 1
      <4>1. effects[k] \in Nat /\ (effects[k] > 0 => op[k] \in Effectful /\ RidOf(k) \in applied) /\ effects[k] <= 1
        BY DEF EffectInv, EffectAtMostOnce, TypeOK
      <4>2. CASE effects'[k] = effects[k]
        BY <2>u, <2>e, <3>1, <4>1, <4>2
      <4>3. CASE k = m.call /\ effects'[k] = effects[k] + 1
        BY <2>n, <2>u, <2>e, <3>1, <4>1, <4>3
      <4> QED BY <2>e, <4>2, <4>3
    <3>4. (at = "wait" /\ response = "ok" /\ op[current] \in Effectful => RidOf(current) \in applied)'
      <4>1. at = "wait" => current \in CallIds
        BY DEF QueueInv, TypeOK
      <4> QED BY <2>n, <2>u, <2>r, <2>e, <3>1, <4>1 DEF EffectInv
    <3> QED BY <3>2, <3>3, <3>4 DEF EffectInv, EffectAtMostOnce
  <2> QED BY <2>1, <2>2, <2>3, <2>4, <2>5, <2>6 DEF Inv
<1>21. CASE UNCHANGED vars
  <2> USE <1>0, <1>21 DEF vars, connVars, rpcVars, callVars, serverVars
  <2>0. Queued' = Queued BY DEF Queued
  <2>1. TypeOK' BY DEF TypeOK
  <2>2. ConnInv' BY DEF ConnInv, ConnectionConsistent
  <2>3. QueueInv' BY <2>0 DEF QueueInv, NoCallIsForgotten, Pending
  <2>4. AttemptInv' BY DEF AttemptInv
  <2>5. BegunInv' BY <2>0 DEF BegunInv, Begun
  <2>6. EffectInv' BY DEF EffectInv, EffectAtMostOnce, RidOf
  <2> QED BY <2>1, <2>2, <2>3, <2>4, <2>5, <2>6 DEF Inv
<1> QED
  BY <1>1, <1>2, <1>3, <1>4, <1>5, <1>6, <1>7, <1>8, <1>9, <1>10, <1>11, <1>12, <1>13,
     <1>15, <1>16, <1>17, <1>18, <1>19, <1>20, <1>21
  DEF Next, Handle, Connect, PrepareStep, Rpc

\* Every behaviour of the client satisfies the inductive invariant.
LEMMA SpecInv == Spec => []Inv
<1>1. Init => Inv BY InitInv
<1>2. Inv /\ [Next]_vars => Inv' BY StepInv
<1> QED BY <1>1, <1>2, PTL DEF Spec

\* Type correctness of the client's state.
THEOREM ClientTypeCorrect == Spec => []TypeOK
<1>1. Inv => TypeOK BY DEF Inv
<1> QED BY <1>1, SpecInv, PTL

\* An incarnation of the client connects at most once, its status tells the
\* truth about its resource, and no request NIF runs without one, for any
\* number of calls, retries and restarts.
THEOREM ConnectionIsConsistent == Spec => []ConnectionConsistent
<1>1. Inv => ConnectionConsistent BY DEF Inv, ConnInv
<1> QED BY <1>1, SpecInv, PTL

\* No call takes effect twice, however its attempts are lost, delayed, retried
\* or continued by an orphaned NIF.
THEOREM EffectsAtMostOnce == Spec => []EffectAtMostOnce
<1>1. Inv => EffectAtMostOnce BY DEF Inv, EffectInv
<1> QED BY <1>1, SpecInv, PTL

\* Whoever waits is queued or being handled by a live process.
THEOREM NobodyIsForgotten == Spec => []NoCallIsForgotten
<1>1. Inv => NoCallIsForgotten BY DEF Inv, QueueInv
<1> QED BY <1>1, SpecInv, PTL

\* The initial state of the client is an initial state of its contract.
LEMMA InitContract == Init => Contract!Init
<1> SUFFICES ASSUME Init PROVE Contract!Init OBVIOUS
<1>1. [n \in CallIds |-> RidOf(n)] \in [CallIds -> Rids]
  BY ClientAssumption DEF Init, RidOf, Rids
<1>2. [n \in CallIds |-> effects[n] > 0] = [n \in CallIds |-> FALSE]
  <2>1. \A n \in CallIds : (effects[n] > 0) = FALSE
    BY DEF Init
  <2> QED BY <2>1, Zenon
<1> QED BY <1>1, <1>2 DEF Init, Contract!Init

\* A step that only ends calls, each in a way the contract allows, is an End
\* step of the contract.
LEMMA EndStep ==
  ASSUME TypeOK, op' = op, given' = given, UNCHANGED serverVars,
         answer' \in [CallIds -> Answers],
         \A n \in CallIds : answer'[n] # answer[n] =>
           /\ Pending(n)
           /\ answer'[n] = "ok" /\ op[n] \in Effectful => RidOf(n) \in applied
           /\ answer'[n] \in {"not_connected", "bad_request"} => ~(effects[n] > 0)
  PROVE  Contract!End
<1>1. [n \in CallIds |-> RidOf(n)]' = [n \in CallIds |-> RidOf(n)]
  BY DEF RidOf
<1>2. [n \in CallIds |-> effects[n] > 0]' = [n \in CallIds |-> effects[n] > 0]
  BY DEF serverVars
<1>3. ASSUME NEW n \in CallIds, answer'[n] # answer[n]
      PROVE  Contract!AnswerAllowed(n, answer'[n])
  BY <1>3 DEF Pending, Contract!AnswerAllowed, Contract!Refused
<1> QED BY <1>1, <1>2, <1>3 DEF Contract!End, serverVars

\* A step that leaves calls, answers and the server alone is a stutter of the
\* contract.
LEMMA Stutter ==
  ASSUME op' = op, given' = given, answer' = answer, UNCHANGED serverVars
  PROVE  UNCHANGED Contract!vars
<1>1. [n \in CallIds |-> RidOf(n)]' = [n \in CallIds |-> RidOf(n)]
  BY DEF RidOf
<1>2. [n \in CallIds |-> effects[n] > 0]' = [n \in CallIds |-> effects[n] > 0]
  BY DEF serverVars
<1> QED BY <1>1, <1>2 DEF Contract!vars, serverVars

\* Every step of the client is a step of its contract or a stutter.
LEMMA StepContract == Inv /\ [Next]_vars => [Contract!Next]_(Contract!vars)
<1> SUFFICES ASSUME Inv, [Next]_vars PROVE Contract!Next \/ UNCHANGED Contract!vars
  OBVIOUS
<1> USE ClientAssumption
<1>0. TypeOK /\ QueueInv /\ BegunInv /\ EffectInv
  BY DEF Inv
<1>1. ASSUME NEW n \in CallIds, Invoke(n) PROVE Contract!Next
  <2>1. op' \in {[op EXCEPT ![n] = o] : o \in Ops} /\ op[n] = "none"
    BY <1>1 DEF Invoke
  <2>2. [k \in CallIds |-> RidOf(k)]' = [[k \in CallIds |-> RidOf(k)] EXCEPT ![n] = RidOf(n)']
    BY <1>0, <1>1 DEF Invoke, RidOf, TypeOK
  <2>3. RidOf(n)' \in Rids
    BY <1>0, <1>1 DEF Invoke, RidOf, Rids, TypeOK
  <2>4. \E a \in {"pending", "exit"} : answer' = [answer EXCEPT ![n] = a]
    BY <1>0, <1>1, <2>1 DEF Invoke, QueueInv, TypeOK
  <2>5. UNCHANGED <<[k \in CallIds |-> effects[k] > 0], applied>>
    BY <1>1 DEF Invoke, serverVars
  <2>6. Contract!Invoke(n)
    BY <2>1, <2>2, <2>3, <2>4, <2>5 DEF Contract!Invoke
  <2> QED BY <2>6 DEF Contract!Next
<1>2. ASSUME NEW n \in CallIds, CallTimeout(n) PROVE Contract!End
  BY <1>0, <1>2, EndStep DEF CallTimeout, callVars, TypeOK, Answers
<1>3. ASSUME NEW n \in CallIds, NEW a \in Answers \ {"pending"}, Reply(n, a), op' = op, given' = given,
             UNCHANGED serverVars,
             a = "ok" /\ op[n] \in Effectful => RidOf(n) \in applied,
             a \in {"not_connected", "bad_request"} => ~Begun(n)
      PROVE  Contract!End
  <2>1. a \in {"not_connected", "bad_request"} => ~(effects[n] > 0)
    BY <1>3 DEF Begun
  <2>2. /\ answer' \in [CallIds -> Answers]
        /\ \A k \in CallIds : answer'[k] # answer[k] => k = n /\ Pending(n) /\ answer'[k] = a
    BY <1>0, <1>3 DEF Reply, TypeOK
  <2> QED BY <1>0, <1>3, <2>1, <2>2, EndStep
<1>4. ASSUME Die, answer' = AllExit PROVE Contract!End
  <2>1. \A k \in CallIds : AllExit[k] = IF Pending(k) THEN "exit" ELSE answer[k]
    BY DEF AllExit
  <2>2. AllExit \in [CallIds -> Answers]
    BY <1>0, AllExitFacts DEF TypeOK
  <2> QED BY <1>0, <1>4, <2>1, <2>2, EndStep DEF Die, callVars
<1>5. CASE Handle
  <2>n. Head(mailbox) \in CallIds /\ Head(mailbox) \in Queued
    BY <1>0, <1>5 DEF Handle, HandleConnected, HandleDisconnected, HandleStatus, HandleStop, TypeOK, Queued
  <2>1. CASE HandleConnected /\ Reply(Head(mailbox), "ok") /\ op[Head(mailbox)] = "connect"
    BY <1>3, <2>n, <2>1 DEF HandleConnected, callVars, Effectful, Answers, Contract!Next
  <2>2. CASE HandleConnected /\ UNCHANGED answer
    BY <2>2, Stutter DEF HandleConnected, callVars
  <2>3. CASE HandleDisconnected
    BY <2>3, Stutter DEF HandleDisconnected, callVars
  <2>4. CASE HandleStatus
    BY <1>3, <2>n, <2>4 DEF HandleStatus, callVars, Effectful, Answers, Contract!Next
  <2>5. CASE HandleStop
    <3> DEFINE n == Head(mailbox)
    <3>1. Pending(n) /\ op[n] = "stop" /\ Die
      BY <1>0, <2>5, <2>n DEF HandleStop, QueueInv, Pending
    <3>2. \A k \in CallIds : AllExit[k] = IF Pending(k) THEN "exit" ELSE answer[k]
      BY DEF AllExit
    <3>3. AllExit \in [CallIds -> Answers]
      BY <1>0, AllExitFacts DEF TypeOK
    <3>4. answer' = [AllExit EXCEPT ![n] = "ok"]
      BY <2>5 DEF HandleStop
    <3> HIDE DEF n
    <3>5. answer' \in [CallIds -> Answers]
      BY <3>3, <3>4 DEF Answers
    <3>6. \A k \in CallIds : answer'[k] # answer[k] =>
            /\ Pending(k)
            /\ answer'[k] = "exit" \/ (answer'[k] = "ok" /\ k = n)
      BY <3>1, <3>2, <3>3, <3>4
    <3> QED BY <1>0, <3>1, <3>5, <3>6, EndStep DEF Die, callVars, Effectful, Contract!Next
  <2> QED BY <1>5, <2>1, <2>2, <2>3, <2>4, <2>5 DEF Handle, HandleConnected
<1>6. CASE Connect
  <2>n. at = "connect" => current \in CallIds /\ ~Begun(current)
    BY <1>0 DEF QueueInv, BegunInv, TypeOK, InRpc
  <2>1. CASE UNCHANGED answer
    BY <1>6, <2>1, Stutter DEF Connect, ConnectOk, ConnectFails, callVars
  <2>2. CASE at = "connect" /\ op[current] = "connect" /\ Reply(current, "ok")
    BY <1>3, <1>6, <2>n, <2>2 DEF Connect, ConnectOk, ConnectFails, callVars, Effectful, Answers, Contract!Next
  <2>3. ASSUME at = "connect", NEW a \in {"error", "not_connected"}, Reply(current, a)
        PROVE  Contract!Next
    BY <1>3, <1>6, <2>n, <2>3 DEF Connect, ConnectOk, ConnectFails, callVars, Answers, Contract!Next
  <2> QED BY <1>6, <2>1, <2>2, <2>3 DEF Connect, ConnectOk, ConnectFails
<1>7. CASE PrepareStep
  <2>n. at = "prepare" => current \in CallIds /\ ~Begun(current)
    BY <1>0 DEF QueueInv, BegunInv, TypeOK, InRpc
  <2>1. CASE Prepare /\ UNCHANGED answer
    BY <2>1, Stutter DEF Prepare, callVars
  <2>2. CASE Prepare /\ Reply(current, "bad_request")
    BY <1>3, <2>n, <2>2 DEF Prepare, callVars, Answers, Contract!Next
  <2>3. CASE PrepareRaises
    BY <1>4, <2>3 DEF PrepareRaises, Contract!Next
  <2> QED BY <1>7, <2>1, <2>2, <2>3 DEF PrepareStep, Prepare
<1>8. CASE Rpc
  <2>n. at = "wait" => current \in CallIds
    BY <1>0 DEF QueueInv, TypeOK
  <2>1. CASE SendAttempt \/ AttemptRetries
    BY <2>1, Stutter DEF SendAttempt, AttemptRetries, callVars
  <2>2. CASE AttemptReturns /\ response = "ok" /\ Reply(current, "ok")
    BY <1>0, <1>3, <2>n, <2>2 DEF AttemptReturns, callVars, Answers, EffectInv, Contract!Next
  <2>3. CASE (AttemptReturns \/ AttemptFails) /\ Reply(current, "error")
    BY <1>3, <2>n, <2>3 DEF AttemptReturns, AttemptFails, callVars, Answers, Contract!Next
  <2> QED BY <1>8, <2>1, <2>2, <2>3 DEF Rpc, AttemptReturns, AttemptFails
<1>9. CASE Kill
  BY <1>4, <1>9 DEF Kill, Contract!Next
<1>10. CASE Restart
  BY <1>10, Stutter DEF Restart, callVars
<1>11. ASSUME NEW o \in orphans, OrphanSends(o) \/ OrphanEnds(o) PROVE UNCHANGED Contract!vars
  BY <1>11, Stutter DEF OrphanSends, OrphanEnds, callVars
<1>12. ASSUME NEW m \in network, Deliver(m) PROVE Contract!Next \/ UNCHANGED Contract!vars
  <2>n. m.call \in CallIds /\ m.rid = RidOf(m.call) /\ Begun(m.call)
    BY <1>0 DEF TypeOK, Begun, EffectInv
  <2>u. op' = op /\ given' = given /\ answer' = answer
    BY <1>12 DEF Deliver, callVars
  <2>1. CASE UNCHANGED serverVars
    BY <2>u, <2>1, Stutter
  <2>2. CASE /\ op[m.call] \in Effectful /\ m.rid \notin applied
             /\ applied' = applied \cup {m.rid}
             /\ effects' = [effects EXCEPT ![m.call] = @ + 1]
    <3>1. [k \in CallIds |-> RidOf(k)]' = [k \in CallIds |-> RidOf(k)]
      BY <2>u DEF RidOf
    <3>2. [k \in CallIds |-> effects[k] > 0]' = [[k \in CallIds |-> effects[k] > 0] EXCEPT ![m.call] = TRUE]
      <4>1. effects[m.call] \in Nat /\ effects'[m.call] = effects[m.call] + 1
        BY <1>0, <2>n, <2>2 DEF TypeOK
      <4>2. effects'[m.call] > 0
        BY <4>1
      <4>3. \A k \in CallIds : k # m.call => effects'[k] = effects[k]
        BY <1>0, <2>2 DEF TypeOK
      <4> QED BY <2>n, <4>2, <4>3
    <3>3. answer[m.call] \notin Contract!Refused
      BY <1>0, <2>n DEF BegunInv, Contract!Refused
    <3>4. Contract!Apply(m.call)
      BY <2>n, <2>u, <2>2, <3>1, <3>2, <3>3 DEF Contract!Apply
    <3> QED BY <2>n, <3>4 DEF Contract!Next
  <2> QED BY <1>12, <2>1, <2>2 DEF Deliver, serverVars
<1>13. CASE UNCHANGED vars
  BY <1>13, Stutter DEF vars, callVars, serverVars
<1> QED
  BY <1>1, <1>2, <1>5, <1>6, <1>7, <1>8, <1>9, <1>10, <1>11, <1>12, <1>13
  DEF Next, Contract!Next

\* The client implements its contract, for every number of calls, request ids,
\* attempts and restarts.
THEOREM ClientImplementsContract == Spec => ImplementsContract
<1>1. Init => Contract!Init BY InitContract
<1>2. Inv /\ [Next]_vars => [Contract!Next]_(Contract!vars) BY StepContract
<1> QED BY <1>1, <1>2, SpecInv, PTL DEF Spec, ImplementsContract, Contract!Spec

\* The client is coherent at every moment, for any number of calls and retries.
THEOREM ClientIsSafe == Spec => []ClientSafe
<1>1. TypeOK /\ ConnectionConsistent /\ EffectAtMostOnce /\ NoCallIsForgotten => ClientSafe
  BY DEF ClientSafe
<1> QED BY <1>1, ClientTypeCorrect, ConnectionIsConsistent, EffectsAtMostOnce, NobodyIsForgotten, PTL
=============================================================================
