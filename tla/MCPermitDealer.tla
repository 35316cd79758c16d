--------------------------- MODULE MCPermitDealer ---------------------------
(* Model-checking instances of PermitDealer.                               *)
EXTENDS PermitDealer

CONSTANTS Acquirers, Tries, ClosableTries

\* How many tasks use each entry point.
MCTasks == [v \in {"acquire", "try", "closable"} |->
  CASE v = "acquire" -> Acquirers [] v = "try" -> Tries [] OTHER -> ClosableTries]
=============================================================================
