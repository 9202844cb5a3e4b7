------------------------------- MODULE MCTask -------------------------------
(* The task system with a few tasks, for TLC. *)
EXTENDS Task
=============================================================================
