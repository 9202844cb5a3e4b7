------------------------------ MODULE TaskState ------------------------------
(***************************************************************************)
(* The state word of a task (norn-task/src/state.rs): a set of flags and a *)
(* reference count.  Every transition of `State` is an operator on the     *)
(* flags; its result enum is named by the predicate that selects it, and   *)
(* its assert!s by an operator ending in Ok.  `StateCell::update` aborts   *)
(* the process when an assert fails; module Task models that.              *)
(* A definition marked as a mutant is a plausible bug in the one it        *)
(* stands before, used only to show that a property would notice it.       *)
(***************************************************************************)
EXTENDS Naturals

Flag == {"NOTIFIED", "RUNNING", "COMPLETE", "JOIN_HANDLE", "CANCELLED"}

(* State::new: the flags of a fresh task; its reference count starts at 2. *)
NewFlags    == {"JOIN_HANDLE", "NOTIFIED"}
NewRefcount == 2

(* State::prepare_poll. *)
PreparePollOk(f, rc) == rc > 0 /\ "NOTIFIED" \in f /\ "RUNNING" \notin f
PreparePoll(f) ==
  IF "COMPLETE" \in f THEN f ELSE (f \cup {"RUNNING"}) \ {"NOTIFIED"}

(* State::complete_poll; a cancelled task stays RUNNING until complete_task. *)
CompletePollOk(f, rc) == rc > 0 /\ "RUNNING" \in f
CompletePoll(f) == IF "CANCELLED" \in f THEN f ELSE f \ {"RUNNING"}

(* State::complete_task. *)
CompleteTaskOk(f, rc) == rc > 0 /\ "RUNNING" \in f /\ "COMPLETE" \notin f
CompleteTask(f) == (f \cup {"COMPLETE"}) \ {"RUNNING"}

(* State::drop_ref: the last reference must not be a join handle's. *)
DropRefOk(f, rc) == rc > 0 /\ (rc = 1 => "JOIN_HANDLE" \notin f)

(* State::notify, and whether it returns SubmitTask. *)
NotifySubmits(f) == f \cap {"COMPLETE", "NOTIFIED", "RUNNING"} = {}
Notify(f) == IF "COMPLETE" \in f THEN f ELSE f \cup {"NOTIFIED"}

(* State::shutdown. *)
ShutdownIncomplete(f) == f \cup {"CANCELLED"}              (* mutant *)
ShutdownOk(f, rc) == rc > 0 /\ "RUNNING" \notin f
Shutdown(f) == f \cup {"CANCELLED", "COMPLETE"}

(* State::abort, and whether it returns SubmitTask. *)
AbortResubmits(f) == f \cap {"CANCELLED", "COMPLETE", "RUNNING"} = {}  (* mutant *)
AbortCompleted(f) ==                                      (* mutant *)
  IF "CANCELLED" \in f THEN f ELSE f \cup {"CANCELLED", "NOTIFIED"}
AbortOk(f, rc) == rc > 0 /\ "JOIN_HANDLE" \in f
AbortSubmits(f) ==
  f \cap {"CANCELLED", "COMPLETE", "RUNNING", "NOTIFIED"} = {}
Abort(f) ==
  IF f \cap {"CANCELLED", "COMPLETE"} # {} THEN f
  ELSE f \cup {"CANCELLED", "NOTIFIED"}

(* State::drop_join_handle. *)
DropJoinHandleOk(f, rc) == rc > 0 /\ "JOIN_HANDLE" \in f
DropJoinHandle(f) == f \ {"JOIN_HANDLE"}
=============================================================================
