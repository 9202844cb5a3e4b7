----------------------------- MODULE MCUnparker -----------------------------
(* The unparker with a few threads, for TLC. *)
EXTENDS Unparker
=============================================================================
