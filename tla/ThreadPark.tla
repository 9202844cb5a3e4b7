----------------------------- MODULE ThreadPark -----------------------------
(***************************************************************************)
(* ThreadPark (norn-executor/park/thread.rs): a park waits on a condition  *)
(* variable, an unpark notifies it.  The mutex guards nothing and only the *)
(* parking thread takes it, so it is never contended.                      *)
(*                                                                         *)
(* A notification reaches those that wait.  The condition variable keeps   *)
(* none for later, and the code has no flag that would.                    *)
(***************************************************************************)
VARIABLES
  thread,    (* where the parking thread is                                *)
  mode,      (* the ParkMode of the park under way                         *)
  unparked   (* Unpark was called during the park under way                *)

tvars == <<thread, mode, unparked>>

(* "running" outside of park; "locking" between the call of park and the   *)
(* wait, which unlocks the mutex; "waiting"; "woken", before the mutex is  *)
(* locked again.                                                           *)
ParkMode == {"NoPark", "NextCompletion", "Timeout"}

TInit == thread = "running" /\ mode = "NoPark" /\ unparked = FALSE

Park ==
  /\ thread = "running" /\ mode' \in ParkMode /\ UNCHANGED unparked
  /\ thread' = IF mode' = "NoPark" THEN "running" ELSE "locking"

Wait ==
  /\ thread = "locking" /\ thread' = "waiting" /\ UNCHANGED <<mode, unparked>>

(* notify_all. *)
Unpark ==
  /\ thread' = IF thread = "waiting" THEN "woken" ELSE thread
  /\ unparked' = (thread # "running") /\ UNCHANGED mode

TimedOut ==
  /\ thread = "waiting" /\ mode = "Timeout" /\ thread' = "woken"
  /\ UNCHANGED <<mode, unparked>>

(* A condition variable may wake on its own, and is not bound to.          *)
WakesByItself ==
  /\ thread = "waiting" /\ thread' = "woken" /\ UNCHANGED <<mode, unparked>>

Return ==
  /\ thread = "woken" /\ thread' = "running" /\ unparked' = FALSE /\ UNCHANGED mode

Thread == Wait \/ TimedOut \/ Return

TNext == Park \/ Thread \/ Unpark \/ WakesByItself

(* The thread goes on, and a timeout comes; nothing else need happen.      *)
TSpec == TInit /\ [][TNext]_tvars /\ WF_tvars(Thread)

-----------------------------------------------------------------------------
(* What a park layer owes (Parker): a thread that is in park, or about to  *)
(* wait there, returns once it is unparked.                                *)
P == INSTANCE Parker WITH blocked <- thread # "running", forced <- unparked

ParkerReturns == P!Returns
=============================================================================
