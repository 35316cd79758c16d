--------------------------- MODULE MCWorkflowRuns ---------------------------
(* WorkflowRuns for TLC. *)
EXTENDS WorkflowRuns, TLC

\* Runs are interchangeable: no definition tells one from another.
Symmetry == Permutations(Runs)
=============================================================================
