---------------------------- MODULE MCThreadPark ----------------------------
(* A thread that parks and another that unparks it, for TLC. *)
EXTENDS ThreadPark
=============================================================================
