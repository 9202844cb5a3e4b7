--------------------------- MODULE MCDescriptors ---------------------------
(* The descriptors with a few numbers, files and operations, for TLC. *)
EXTENDS Descriptors
=============================================================================
