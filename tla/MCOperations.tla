---------------------------- MODULE MCOperations ----------------------------
(* The operations with a few addresses, for TLC. *)
EXTENDS Operations
=============================================================================
