----------------------------- MODULE MCStreams -----------------------------
(* A half of a stream, for TLC. *)
EXTENDS Streams
=============================================================================
