------------------------------- MODULE Parker -------------------------------
(***************************************************************************)
(* What norn-executor asks of a park layer (park/mod.rs): a thread may     *)
(* block in Park::park, park may return early at any time, and an unpark   *)
(* while the thread is blocked forces it to return.  Modules Unparker and  *)
(* ThreadPark are measured against it.                                     *)
(***************************************************************************)
VARIABLES
  blocked,   (* the thread is blocked in Park::park, or bound to block      *)
  forced     (* unpark was called since                                     *)

kvars == <<blocked, forced>>

KInit == blocked = FALSE /\ forced = FALSE

Block   == ~blocked /\ blocked' = TRUE /\ UNCHANGED forced
Unpark  == blocked /\ ~forced /\ forced' = TRUE /\ UNCHANGED blocked
Unblock == blocked /\ blocked' = FALSE /\ forced' = FALSE

KNext == Block \/ Unpark \/ Unblock
KSafety == KInit /\ [][KNext]_kvars

(* An unparked thread returns. *)
Returns == forced ~> ~blocked
=============================================================================
