--------------------------- MODULE ClientContract ---------------------------
(***************************************************************************)
(* What Temporal.Client promises the processes that call it, whatever      *)
(* happens to the connection, to the RPCs, to the client process and to    *)
(* the caller's own 5 s call timeout:                                      *)
(*   - a request takes effect at the Temporal server at most once per      *)
(*     request id, and only under the id of the call it belongs to;        *)
(*   - a call answered ok has taken effect;                                *)
(*   - a call refused before anything was sent (not_connected,             *)
(*     bad_request) has not taken effect and never will.                   *)
(* A call that ends in another error, in a timeout or in an exit may have  *)
(* taken effect or may still do so.                                        *)
(***************************************************************************)
CONSTANTS CallIds, RequestIds, Ops, Effectful, Answers

Refused == {"not_connected", "bad_request"}

VARIABLES
  op,       \* what each call asks for, "none" until it is made
  rid,      \* the request id of each call
  answer,   \* how each call ended for its caller, "pending" until it does
  effect,   \* whether a call's own request took effect
  applied   \* the request ids that have taken effect

vars == <<op, rid, answer, effect, applied>>

Init ==
  /\ op = [n \in CallIds |-> "none"]
  /\ rid \in [CallIds -> RequestIds]
  /\ answer = [n \in CallIds |-> "pending"]
  /\ effect = [n \in CallIds |-> FALSE]
  /\ applied = {}

\* A caller makes a call; with no client process it exits at once.
Invoke(n) ==
  /\ op[n] = "none"
  /\ \E o \in Ops : op' = [op EXCEPT ![n] = o]
  /\ \E r \in RequestIds : rid' = [rid EXCEPT ![n] = r]
  /\ \E a \in {"pending", "exit"} : answer' = [answer EXCEPT ![n] = a]
  /\ UNCHANGED <<effect, applied>>

\* A request takes effect, before or after its call has ended.
Apply(n) ==
  /\ op[n] \in Effectful
  /\ answer[n] \notin Refused
  /\ rid[n] \notin applied
  /\ applied' = applied \cup {rid[n]}
  /\ effect' = [effect EXCEPT ![n] = TRUE]
  /\ UNCHANGED <<op, rid, answer>>

AnswerAllowed(n, a) ==
  /\ op[n] # "none"
  /\ answer[n] = "pending"
  /\ a = "ok" /\ op[n] \in Effectful => rid[n] \in applied
  /\ a \in Refused => ~effect[n]

\* Calls end: one that is answered, or all of them when the client dies.
End ==
  /\ answer' \in [CallIds -> Answers]
  /\ \A n \in CallIds : answer'[n] # answer[n] => AnswerAllowed(n, answer'[n])
  /\ UNCHANGED <<op, rid, effect, applied>>

Next == End \/ \E n \in CallIds : Invoke(n) \/ Apply(n)

Spec == Init /\ [][Next]_vars
=============================================================================
