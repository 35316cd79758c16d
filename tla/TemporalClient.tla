--------------------------- MODULE TemporalClient ---------------------------
(***************************************************************************)
(* Temporal.Client: the GenServer of lib/temporal/client.ex together with  *)
(* the client NIFs it blocks in (lib.rs, client.rs) and the retry loop of  *)
(* the SDK's RetryClient.                                                  *)
(*                                                                         *)
(* One process handles one message at a time.  A handler may connect, then *)
(* runs an RPC of several attempts, each of which may be lost, answered,   *)
(* or executed with its answer lost.  Meanwhile callers give up after 5 s, *)
(* the process may be stopped, crash on a parameter it cannot convert, or  *)
(* be killed inside the NIF, which then goes on without it; a supervisor   *)
(* may restart it.  The Temporal server is external: it runs a request     *)
(* once per request id.                                                    *)
(***************************************************************************)
EXTENDS Naturals, Sequences, FiniteSets

CONSTANTS
  CallIds,         \* the calls made to the client, each made once
  RequestIds,      \* request ids that callers choose themselves
  MaxRetries,      \* RetryConfig::max_retries: how many attempts an RPC has
  MaxRestarts,     \* bound on restarts by the supervisor
  ConnectOnStart,  \* the :connect_on_start option
  NoId, NoCall

ASSUME ClientAssumption ==
  /\ MaxRetries \in Nat \ {0}
  /\ MaxRestarts \in Nat
  /\ ConnectOnStart \in BOOLEAN
  /\ NoId \notin RequestIds
  /\ NoCall \notin CallIds

VARIABLES
  alive,             \* the GenServer process exists
  restarts,          \* how often the supervisor has restarted it
  at,                \* where it is: see Points
  status,            \* state.status
  client_resource,   \* state.client_resource: 0 is nil, k the k-th connection
  connect_attempts,  \* state.connect_attempts
  connections,       \* connections made by this incarnation
  mailbox,           \* calls waiting, in order of arrival
  current,           \* the call being handled
  attempt,           \* attempts of the current RPC already sent
  response,          \* what the server answered to the last attempt
  orphans,           \* [call, attempt]: RPCs whose process was killed
  op, class, given,  \* per call: operation, kind of parameters, chosen request id
  answer,            \* per call: how it ended for the caller
  network,           \* requests on their way to the server
  applied,           \* server: request ids that took effect
  effects            \* server: how often each call took effect

connVars   == <<status, client_resource, connect_attempts, connections>>
rpcVars    == <<attempt, response>>
callVars   == <<op, class, given>>
serverVars == <<applied, effects>>
vars == <<alive, restarts, at, connVars, mailbox, current, rpcVars, orphans,
          callVars, answer, network, serverVars>>

Requests  == {"start", "signal", "query"}
Effectful == {"start", "signal"}
Ops       == Requests \cup {"connect", "status", "stop"}
Classes   == {"good", "unencodable", "missing", "raises"}
Points    == {"continue", "idle", "connect", "prepare", "send", "wait"}
InRpc     == {"send", "wait"}
Answers   == {"pending", "ok", "error", "bad_request", "not_connected", "timeout", "exit"}

\* client.rs: a start keeps the caller's request_id, everything else gets a
\* fresh uuid.  The id is made once, before the retry loop.
RidOf(n) == IF given[n] # NoId THEN given[n] ELSE <<n, 1>>

Rids == RequestIds \cup (CallIds \X (1..MaxRetries))

Init ==
  /\ alive = TRUE
  /\ restarts = 0
  /\ at = IF ConnectOnStart THEN "continue" ELSE "idle"
  /\ status = "disconnected"
  /\ client_resource = 0
  /\ connect_attempts = 0
  /\ connections = 0
  /\ mailbox = <<>>
  /\ current = NoCall
  /\ attempt = 0
  /\ response = "none"
  /\ orphans = {}
  /\ op = [n \in CallIds |-> "none"]
  /\ class = [n \in CallIds |-> "good"]
  /\ given = [n \in CallIds |-> NoId]
  /\ answer = [n \in CallIds |-> "pending"]
  /\ network = {}
  /\ applied = {}
  /\ effects = [n \in CallIds |-> 0]

----------------------------------------------------------------------------
(* Callers.                                                                *)

Pending(n) == op[n] # "none" /\ answer[n] = "pending"

\* GenServer.call / GenServer.stop; with no process the caller exits (noproc).
Invoke(n) ==
  /\ op[n] = "none"
  /\ \E o \in Ops, c \in Classes, g \in RequestIds \cup {NoId} :
       /\ o \notin Requests => c = "good"
       /\ o # "start" => g = NoId
       /\ op' = [op EXCEPT ![n] = o]
       /\ class' = [class EXCEPT ![n] = c]
       /\ given' = [given EXCEPT ![n] = g]
  /\ \/ alive /\ mailbox' = Append(mailbox, n) /\ UNCHANGED answer
     \/ ~alive /\ answer' = [answer EXCEPT ![n] = "exit"] /\ UNCHANGED mailbox
  /\ UNCHANGED <<alive, restarts, at, connVars, current, rpcVars, orphans, network, serverVars>>

\* The 5 s of GenServer.call elapse.  The message stays in the mailbox or in
\* its handler; a late reply is dropped.  GenServer.stop waits for ever.
CallTimeout(n) ==
  /\ Pending(n)
  /\ op[n] # "stop"
  /\ answer' = [answer EXCEPT ![n] = "timeout"]
  /\ UNCHANGED <<alive, restarts, at, connVars, mailbox, current, rpcVars, orphans,
                 callVars, network, serverVars>>

----------------------------------------------------------------------------
(* The GenServer.                                                          *)

\* {:reply, a, state}: the caller sees it if it still waits.
Reply(n, a) ==
  /\ answer' = IF Pending(n) THEN [answer EXCEPT ![n] = a] ELSE answer
  /\ at' = "idle"
  /\ current' = NoCall
  /\ attempt' = 0
  /\ response' = "none"

\* The process ends: everybody who waits for it exits.
Die ==
  /\ alive' = FALSE
  /\ at' = "idle"
  /\ mailbox' = <<>>
  /\ current' = NoCall
  /\ attempt' = 0
  /\ response' = "none"
  /\ UNCHANGED <<restarts, connVars, callVars, network, serverVars>>

AllExit == [n \in CallIds |-> IF Pending(n) THEN "exit" ELSE answer[n]]

\* The next message: what needs a connection and has none connects first.
NeedsConnection(o) == o \in Requests \cup {"connect"}

HandleConnected ==
  LET n == Head(mailbox) IN
  /\ alive /\ at = "idle" /\ mailbox # <<>>
  /\ NeedsConnection(op[n])
  /\ status = "connected"
  /\ mailbox' = Tail(mailbox)
  /\ \/ op[n] = "connect" /\ Reply(n, "ok")
     \/ /\ op[n] \in Requests
        /\ current' = n
        /\ at' = "prepare"
        /\ UNCHANGED <<answer, rpcVars>>
  /\ UNCHANGED <<alive, restarts, connVars, orphans, callVars, network, serverVars>>

HandleDisconnected ==
  LET n == Head(mailbox) IN
  /\ alive /\ at = "idle" /\ mailbox # <<>>
  /\ NeedsConnection(op[n])
  /\ status # "connected"
  /\ mailbox' = Tail(mailbox)
  /\ current' = n
  /\ at' = "connect"
  /\ UNCHANGED <<alive, restarts, connVars, rpcVars, orphans, callVars, answer, network, serverVars>>

HandleStatus ==
  LET n == Head(mailbox) IN
  /\ alive /\ at = "idle" /\ mailbox # <<>>
  /\ op[n] = "status"
  /\ mailbox' = Tail(mailbox)
  /\ Reply(n, "ok")
  /\ UNCHANGED <<alive, restarts, connVars, orphans, callVars, network, serverVars>>

HandleStop ==
  LET n == Head(mailbox) IN
  /\ alive /\ at = "idle" /\ mailbox # <<>>
  /\ op[n] = "stop"
  /\ Die
  /\ answer' = [AllExit EXCEPT ![n] = "ok"]
  /\ UNCHANGED orphans

\* do_connect succeeded, called from handle_continue, handle_call(:connect)
\* or ensure_connected.
ConnectOk ==
  /\ alive
  /\ at \in {"continue", "connect"}
  /\ connections' = connections + 1
  /\ client_resource' = connections + 1
  /\ status' = "connected"
  /\ connect_attempts' = IF at = "continue" THEN connect_attempts ELSE 0
  /\ \/ at = "continue" /\ at' = "idle" /\ UNCHANGED <<answer, current, rpcVars>>
     \/ at = "connect" /\ op[current] = "connect" /\ Reply(current, "ok")
     \/ /\ at = "connect" /\ op[current] \in Requests
        /\ at' = "prepare"
        /\ UNCHANGED <<answer, current, rpcVars>>
  /\ UNCHANGED <<alive, restarts, mailbox, orphans, callVars, network, serverVars>>

ConnectFails ==
  /\ alive
  /\ at \in {"continue", "connect"}
  /\ status' = "error"
  /\ connect_attempts' = IF at = "continue" THEN connect_attempts ELSE connect_attempts + 1
  /\ \/ at = "continue" /\ at' = "idle" /\ UNCHANGED <<answer, current, rpcVars>>
     \/ at = "connect" /\ op[current] = "connect" /\ Reply(current, "error")
     \/ at = "connect" /\ op[current] \in Requests /\ Reply(current, "not_connected")
  /\ UNCHANGED <<alive, restarts, client_resource, connections, mailbox, orphans,
                 callVars, network, serverVars>>

\* normalize_*_params and the parameter checks of the NIF.  An input that no
\* payload converter takes is replaced by no input at all.
Prepare ==
  /\ alive
  /\ at = "prepare"
  /\ \/ /\ class[current] \in {"good", "unencodable"}
        /\ at' = "send"
        /\ UNCHANGED <<answer, current, rpcVars>>
     \/ class[current] = "missing" /\ Reply(current, "bad_request")
  /\ UNCHANGED <<alive, restarts, connVars, mailbox, orphans, callVars, network, serverVars>>

\* to_string/1 raises on the parameter: the GenServer crashes.
PrepareRaises ==
  /\ alive
  /\ at = "prepare"
  /\ class[current] = "raises"
  /\ Die
  /\ answer' = AllExit
  /\ UNCHANGED orphans

\* The process is killed (a linked process or its supervisor ends it).  A NIF
\* on a dirty scheduler is not interrupted: its RPC goes on.
Kill ==
  /\ alive
  /\ Die
  /\ answer' = AllExit
  /\ orphans' = orphans \cup
       (IF at \in InRpc THEN {[call |-> current, attempt |-> attempt]} ELSE {})

\* The supervisor starts the client again: init/1 with the same options.
Restart ==
  /\ ~alive
  /\ restarts < MaxRestarts
  /\ restarts' = restarts + 1
  /\ alive' = TRUE
  /\ at' = IF ConnectOnStart THEN "continue" ELSE "idle"
  /\ status' = "disconnected"
  /\ client_resource' = 0
  /\ connect_attempts' = 0
  /\ connections' = 0
  /\ UNCHANGED <<mailbox, current, rpcVars, orphans, callVars, answer, network, serverVars>>

----------------------------------------------------------------------------
(* The RPC: RetryClient::call around start, signal and query.              *)

\* Mutant: the request id is made per attempt, inside the retry loop.
Mut_FreshIdPerAttempt(n, k) ==
  [call |-> n, attempt |-> k, rid |-> IF given[n] # NoId THEN given[n] ELSE <<n, k>>]

Message(n, k) == [call |-> n, attempt |-> k, rid |-> RidOf(n)]

\* One attempt: a clone of the request goes out.
SendAttempt ==
  /\ at = "send"
  /\ attempt' = attempt + 1
  /\ response' = "none"
  /\ network' = network \cup {Message(current, attempt + 1)}
  /\ at' = "wait"
  /\ UNCHANGED <<alive, restarts, connVars, mailbox, current, orphans, callVars, answer, serverVars>>

\* The answer of the server arrives in time.
AttemptReturns ==
  /\ at = "wait"
  /\ \/ response = "ok" /\ Reply(current, "ok")
     \/ response = "rejected" /\ Reply(current, "error")
  /\ UNCHANGED <<alive, restarts, connVars, mailbox, orphans, callVars, network, serverVars>>

\* Mutant: every attempt gets a new error handler, which counts from 0.
Mut_RetryCountRestarts ==
  /\ at = "wait"
  /\ attempt < MaxRetries
  /\ at' = "send"
  /\ attempt' = 0
  /\ UNCHANGED <<alive, restarts, connVars, mailbox, current, response, orphans,
                 callVars, answer, network, serverVars>>

\* TonicErrorHandler::handle: a retryable status, attempts and time left.
AttemptRetries ==
  /\ at = "wait"
  /\ attempt < MaxRetries
  /\ at' = "send"
  /\ UNCHANGED <<alive, restarts, connVars, mailbox, current, rpcVars, orphans,
                 callVars, answer, network, serverVars>>

\* Mutant: a request that was given up is answered like one that was never sent.
Mut_GiveUpIsRefusal ==
  /\ at = "wait"
  /\ Reply(current, "not_connected")
  /\ UNCHANGED <<alive, restarts, connVars, mailbox, orphans, callVars, network, serverVars>>

\* ForwardError: not retryable, or attempts or time exhausted.
AttemptFails ==
  /\ at = "wait"
  /\ Reply(current, "error")
  /\ UNCHANGED <<alive, restarts, connVars, mailbox, orphans, callVars, network, serverVars>>

\* The NIF of a killed process sends its next attempt, or ends.
OrphanSends(o) ==
  /\ o.attempt < MaxRetries
  /\ network' = network \cup {Message(o.call, o.attempt + 1)}
  /\ orphans' = (orphans \ {o}) \cup {[call |-> o.call, attempt |-> o.attempt + 1]}
  /\ UNCHANGED <<alive, restarts, at, connVars, mailbox, current, rpcVars, callVars,
                 answer, serverVars>>

OrphanEnds(o) ==
  /\ orphans' = orphans \ {o}
  /\ UNCHANGED <<alive, restarts, at, connVars, mailbox, current, rpcVars, callVars,
                 answer, network, serverVars>>

\* The server receives a request.  It refuses it, or runs it unless its id
\* has run before.  Only the attempt being waited for hears the answer.
Deliver(m) ==
  /\ network' = network \ {m}
  /\ \E r \in {"ok", "rejected"} :
       /\ response' = IF at = "wait" /\ m.call = current /\ m.attempt = attempt
                        THEN r ELSE response
       /\ LET runs == r = "ok" /\ op[m.call] \in Effectful /\ m.rid \notin applied IN
          /\ applied' = IF runs THEN applied \cup {m.rid} ELSE applied
          /\ effects' = IF runs THEN [effects EXCEPT ![m.call] = @ + 1] ELSE effects
  /\ UNCHANGED <<alive, restarts, at, connVars, mailbox, current, attempt, orphans,
                 callVars, answer>>

----------------------------------------------------------------------------
Handle == HandleConnected \/ HandleDisconnected \/ HandleStatus \/ HandleStop
Connect == ConnectOk \/ ConnectFails
PrepareStep == Prepare \/ PrepareRaises
Rpc == SendAttempt \/ AttemptReturns \/ AttemptRetries \/ AttemptFails

Next ==
  \/ \E n \in CallIds : Invoke(n) \/ CallTimeout(n)
  \/ Handle \/ Connect \/ PrepareStep \/ Rpc
  \/ Kill \/ Restart
  \/ \E o \in orphans : OrphanSends(o) \/ OrphanEnds(o)
  \/ \E m \in network : Deliver(m)

Spec == Init /\ [][Next]_vars

(***************************************************************************)
(* Fairness: the process runs, a connection attempt ends, and so does every*)
(* attempt of an RPC, which carries a 30 s deadline (OTHER_CALL_TIMEOUT).  *)
(* Nothing is assumed of the server, the callers or the supervisor.        *)
(***************************************************************************)
Fairness == WF_vars(Handle) /\ WF_vars(Connect) /\ WF_vars(PrepareStep) /\ WF_vars(Rpc)

FairSpec == Spec /\ Fairness

----------------------------------------------------------------------------
(* Properties.                                                             *)

Queued == {mailbox[i] : i \in 1..Len(mailbox)}

\* Every variable has its type.
TypeOK ==
  /\ alive \in BOOLEAN
  /\ restarts \in 0..MaxRestarts
  /\ at \in Points
  /\ status \in {"disconnected", "connected", "error"}
  /\ client_resource \in Nat /\ connections \in Nat /\ connect_attempts \in Nat
  /\ mailbox \in Seq(CallIds)
  /\ current \in CallIds \cup {NoCall}
  /\ attempt \in 0..MaxRetries
  /\ response \in {"none", "ok", "rejected"}
  /\ orphans \subseteq [call : CallIds, attempt : 0..MaxRetries]
  /\ op \in [CallIds -> Ops \cup {"none"}]
  /\ class \in [CallIds -> Classes]
  /\ given \in [CallIds -> RequestIds \cup {NoId}]
  /\ answer \in [CallIds -> Answers]
  /\ network \subseteq [call : CallIds, attempt : 1..MaxRetries, rid : Rids]
  /\ applied \subseteq Rids
  /\ effects \in [CallIds -> Nat]

\* The connection state is consistent whatever path made it: an incarnation
\* connects once, status says connected exactly when there is a resource, the
\* failure counter is then 0, and no request NIF is called without a resource.
ConnectionConsistent ==
  /\ connections <= 1
  /\ client_resource = connections
  /\ status = "connected" <=> client_resource # 0
  /\ status = "connected" => connect_attempts = 0
  /\ alive /\ at \in {"prepare", "send", "wait"} => client_resource # 0

\* However often an RPC is attempted, delayed or continued by an orphaned NIF,
\* one call takes effect at most once.
EffectAtMostOnce == \A n \in CallIds : effects[n] <= 1

\* A call is forgotten neither by the process nor by its mailbox: who still
\* waits for a live client is queued or being handled, and nobody waits for a
\* dead one.
NoCallIsForgotten ==
  \A n \in CallIds : Pending(n) => alive /\ (n \in Queued \/ n = current)

\* The client is coherent through retries, lost answers, kills and restarts: one
\* connection, at most one effect per call, and nobody waits for nothing.
ClientSafe == TypeOK /\ ConnectionConsistent /\ EffectAtMostOnce /\ NoCallIsForgotten

\* Every queued request is handled, or the process dies, even when each RPC
\* is retried and callers have long given up.
QueueDrains == \A n \in CallIds : n \in Queued ~> n \notin Queued

(***************************************************************************)
(* The inductive strengthening.  Each call is in one place: not made yet,  *)
(* queued once, being handled, or done; only a call whose RPC has begun    *)
(* (Begun) can have requests out, and everything sent for it carries its   *)
(* one request id.                                                         *)
(***************************************************************************)
ConnInv ==
  /\ ConnectionConsistent
  /\ at \in {"continue", "connect"} => status # "connected"
  /\ at = "continue" => connect_attempts = 0

QueueInv ==
  /\ \A i, j \in 1..Len(mailbox) : mailbox[i] = mailbox[j] => i = j
  /\ \A n \in Queued : op[n] # "none" /\ n # current
  /\ \A n \in CallIds : op[n] = "none" => answer[n] = "pending"
  /\ \A n \in CallIds : n \in Queued \/ n = current =>
       answer[n] = "pending" \/ (answer[n] = "timeout" /\ op[n] # "stop")
  /\ ~alive => mailbox = <<>> /\ at = "idle"
  /\ at \in {"idle", "continue"} <=> current = NoCall
  /\ at = "connect" => op[current] \in Requests \cup {"connect"}
  /\ at \in {"prepare", "send", "wait"} => op[current] \in Requests
  /\ NoCallIsForgotten

AttemptInv ==
  /\ at \notin InRpc => attempt = 0
  /\ at = "send" => attempt < MaxRetries

Begun(n) ==
  \/ n = current /\ at \in InRpc
  \/ \E o \in orphans : o.call = n
  \/ \E m \in network : m.call = n
  \/ effects[n] > 0

BegunInv ==
  \A n \in CallIds : Begun(n) =>
    /\ op[n] \in Requests
    /\ n \notin Queued
    /\ n = current => at \in InRpc
    /\ answer[n] \notin {"not_connected", "bad_request"}

EffectInv ==
  /\ \A m \in network : m.rid = RidOf(m.call)
  /\ \A n \in CallIds : effects[n] > 0 => op[n] \in Effectful /\ RidOf(n) \in applied
  /\ EffectAtMostOnce
  /\ at = "wait" /\ response = "ok" /\ op[current] \in Effectful => RidOf(current) \in applied

Inv == TypeOK /\ ConnInv /\ QueueInv /\ AttemptInv /\ BegunInv /\ EffectInv

Contract == INSTANCE ClientContract WITH
  RequestIds <- Rids,
  rid        <- [n \in CallIds |-> RidOf(n)],
  effect     <- [n \in CallIds |-> effects[n] > 0]

\* The client implements its contract: effects at most once per request id and
\* under the call's own id, ok only after the effect, refusals without one.
ImplementsContract == Contract!Spec
=============================================================================
