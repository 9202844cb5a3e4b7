----------------------------- MODULE MCExecutor -----------------------------
(* The executor with two tasks, for TLC. *)
EXTENDS Executor
=============================================================================
