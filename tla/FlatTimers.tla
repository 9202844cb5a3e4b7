----------------------------- MODULE FlatTimers -----------------------------
(***************************************************************************)
(* What the timer driver promises, without wheels: a set of sleeps with    *)
(* the ticks they are due at.  A sleep ends once its tick has come, and    *)
(* when the driver has served its timers none that is due is left.         *)
(* Module Wheels is shown to implement this.                               *)
(***************************************************************************)
EXTENDS Naturals

CONSTANT Timers

VARIABLES
  status,    (* of each sleep: "idle", "waiting" or "done"                  *)
  due,       (* the tick it is due at                                       *)
  now,       (* the tick the driver knows                                   *)
  serving,   (* the driver is ending sleeps                                 *)
  closed     (* the driver was shut down                                    *)

fvars == <<status, due, now, serving, closed>>

Due(t) == due[t] <= now

FInit ==
  /\ status = [t \in Timers |-> "idle"] /\ due = [t \in Timers |-> 0]
  /\ now = 0 /\ serving = FALSE /\ closed = FALSE

(* A sleep starts, due at any tick; it has ended already if it is due or   *)
(* the driver closed.                                                      *)
Start(t) ==
  /\ status[t] = "idle" /\ ~serving
  /\ due' = [due EXCEPT ![t] = due'[t]]
  /\ \/ status' = [status EXCEPT ![t] = "waiting"] /\ ~Due(t)' /\ ~closed
     \/ status' = [status EXCEPT ![t] = "done"] /\ (Due(t)' \/ closed)
  /\ UNCHANGED <<now, serving, closed>>

(* A sleep is dropped, or another one takes its place. *)
Cancel(t) ==
  /\ status' = [status EXCEPT ![t] = "idle"] /\ due' = [due EXCEPT ![t] = 0]
  /\ UNCHANGED <<now, serving, closed>>

(* The tick that an ended sleep was due at is forgotten. *)
Forget(t) ==
  /\ status[t] = "done" /\ due' = [due EXCEPT ![t] = 0]
  /\ UNCHANGED <<status, now, serving, closed>>

Serve == ~serving /\ serving' = TRUE /\ now' >= now /\ UNCHANGED <<status, due, closed>>

Fire ==
  /\ serving
  /\ \A t \in Timers : status'[t] # status[t] =>
       status[t] = "waiting" /\ Due(t) /\ status'[t] = "done"
  /\ UNCHANGED <<due, now, serving, closed>>

Rest ==
  /\ serving /\ serving' = FALSE
  /\ \A t \in Timers : status[t] = "waiting" => ~Due(t)
  /\ UNCHANGED <<status, due, now, closed>>

Close ==
  /\ ~serving /\ closed' = TRUE
  /\ status' = [t \in Timers |-> IF status[t] = "waiting" THEN "done" ELSE status[t]]
  /\ UNCHANGED <<due, now, serving>>

FNext == (\E t \in Timers : Start(t) \/ Cancel(t) \/ Forget(t)) \/ Serve \/ Fire \/ Rest \/ Close
FSafety == FInit /\ [][FNext]_fvars
=============================================================================
