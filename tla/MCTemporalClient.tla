-------------------------- MODULE MCTemporalClient --------------------------
(* TemporalClient for TLC: the .cfg gives the calls and ids as model values. *)
EXTENDS TemporalClient, TLC
=============================================================================
