----------------------------- MODULE JoinPromise -----------------------------
(***************************************************************************)
(* What norn-task promises about one spawned future, without reference     *)
(* counts, queues or a thread: it gets one result, which becomes readable  *)
(* when the task is done and is consumed at most once; it is cancelled     *)
(* only if that was asked for, by JoinHandle::abort or by shutdown; and    *)
(* what was asked to stop does stop.  Module Task implements it.           *)
(***************************************************************************)
CONSTANT Tasks

VARIABLES
  result,   (* what the task has produced                                   *)
  done,     (* the tasks that are complete: their handles resolve           *)
  asked,    (* the tasks that were asked to stop                            *)
  shut      (* whether the executor was shut down                           *)

pvars == <<result, done, asked, shut>>

Result == {"ok", "panic", "cancelled"}

PInit ==
  /\ result = [t \in Tasks |-> "unborn"]
  /\ done = {} /\ asked = {} /\ shut = FALSE

Begin(t) ==
  /\ ~shut /\ result[t] = "unborn"
  /\ result' = [result EXCEPT ![t] = "none"]
  /\ UNCHANGED <<done, asked, shut>>

(* Shutdown refuses a new future, and cancels an old one, at once. *)
Cancel(t) ==
  /\ shut /\ result[t] \in {"unborn", "none"} /\ t \notin done
  /\ result' = [result EXCEPT ![t] = "cancelled"]
  /\ done' = done \cup {t} /\ asked' = asked \cup {t}
  /\ UNCHANGED shut

Ask(t) ==
  /\ result[t] # "unborn" /\ t \notin done \cup asked
  /\ asked' = asked \cup {t}
  /\ UNCHANGED <<result, done, shut>>

Resolve(t) ==
  /\ ~shut /\ result[t] = "none"
  /\ \E r \in Result : /\ r = "cancelled" => t \in asked
                       /\ result' = [result EXCEPT ![t] = r]
  /\ UNCHANGED <<done, asked, shut>>

(* The task is done; nobody may be left to read its result. *)
Complete(t) ==
  /\ ~shut /\ result[t] \in Result /\ t \notin done
  /\ done' = done \cup {t}
  /\ result' \in {result, [result EXCEPT ![t] = "gone"]}
  /\ UNCHANGED <<asked, shut>>

Consume(t) ==
  /\ result[t] \in Result /\ t \in done
  /\ result' = [result EXCEPT ![t] = "gone"]
  /\ UNCHANGED <<done, asked, shut>>

Shut ==
  /\ ~shut /\ shut' = TRUE
  /\ \A t \in Tasks : result[t] \in Result => t \in done
  /\ UNCHANGED <<result, done, asked>>

PNext == \/ \E t \in Tasks : \/ Begin(t) \/ Cancel(t) \/ Ask(t) \/ Resolve(t)
                             \/ Complete(t) \/ Consume(t)
         \/ Shut

PSpec == PInit /\ [][PNext]_pvars

(* A result becomes readable, and what was asked to stop stops: by itself  *)
(* or because the executor stops.                                          *)
Stops == \A t \in Tasks : t \in asked ~> t \in done
Resolves == \A t \in Tasks : result[t] \in Result ~> t \in done

PLive == Stops /\ Resolves
=============================================================================
