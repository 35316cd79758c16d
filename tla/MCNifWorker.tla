---------------------------- MODULE MCNifWorker ----------------------------
(* NifWorker for TLC: the .cfg gives the processes as model values. *)
EXTENDS NifWorker, TLC
=============================================================================
