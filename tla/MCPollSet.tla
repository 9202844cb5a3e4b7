----------------------------- MODULE MCPollSet ------------------------------
(* A set of three tasks, for TLC. *)
EXTENDS PollSet
=============================================================================
