------------------------------ MODULE PollSet -------------------------------
(***************************************************************************)
(* PollSet (norn-util/pollset.rs): a future that runs a set of tasks.  It  *)
(* has a run queue of its own and keeps the waker of whoever polled it     *)
(* last, its parent.  A task that is woken is queued and wakes the parent, *)
(* which polls the set again; a poll runs tasks until the queue is empty.  *)
(* A set is not Sync, and its poll takes &mut: it is not polled, spawned   *)
(* on or dropped from one of its own tasks.                                *)
(***************************************************************************)
EXTENDS Naturals, Sequences

CONSTANT Tasks

VARIABLES
  queue,    (* Shared::runqueue                                            *)
  waker,    (* Shared::waker is there                                      *)
  parentWoken,  (* the parent was woken and has not polled the set since   *)
  status,   (* what becomes of each task                                   *)
  phase     (* "out" of poll, at "next" in its loop, in the "poll" of a    *)
            (* task, or the set is "dropped"                               *)

pvars == <<queue, waker, parentWoken, status, phase>>

(* A task that was spawned is queued though nobody woke it; one that is    *)
(* woken in its own poll is to be polled "again".                          *)
Status == {"absent", "spawned", "idle", "queued", "running", "again", "done"}
Phase  == {"out", "next", "poll", "dropped"}

Current == CHOOSE t \in Tasks : status[t] \in {"running", "again"}

PInit ==
  /\ queue = <<>> /\ waker = FALSE /\ parentWoken = FALSE
  /\ status = [t \in Tasks |-> "absent"] /\ phase = "out"

(* The parent's waker is not called: whoever spawns is to poll.            *)
Spawn(t) ==
  /\ phase = "out" /\ status[t] = "absent"
  /\ status' = [status EXCEPT ![t] = "spawned"] /\ queue' = Append(queue, t)
  /\ UNCHANGED <<waker, parentWoken, phase>>

(* mutant: the parent is thought to know of a queue that is not empty. *)
ScheduleFirst(t) ==
  /\ queue' = Append(queue, t)
  /\ IF queue = <<>> THEN waker' = FALSE /\ parentWoken' = (parentWoken \/ waker)
     ELSE UNCHANGED <<waker, parentWoken>>

(* Scheduler::schedule.  A waker is used once.                             *)
Schedule(t) ==
  /\ queue' = Append(queue, t)
  /\ waker' = FALSE /\ parentWoken' = (parentWoken \/ waker)

(* A task that was polled is woken: by another one of the set in its poll, *)
(* or from outside, on the same thread, while the set is not polled.  When *)
(* the set is dropped its tasks are still there, and in each other's way.  *)
Wake(t) ==
  /\ phase # "next" /\ status[t] = "idle"
  /\ status' = [status EXCEPT ![t] = "queued"] /\ Schedule(t)
  /\ UNCHANGED phase

WakeSelf ==
  /\ phase = "poll" /\ status[Current] = "running"
  /\ status' = [status EXCEPT ![Current] = "again"]
  /\ UNCHANGED <<queue, waker, parentWoken, phase>>

(* poll_tasks: the parent polls because it was woken, or for reasons of    *)
(* its own.                                                                *)
Poll ==
  /\ phase = "out" /\ phase' = "next" /\ parentWoken' = FALSE
  /\ UNCHANGED <<queue, waker, status>>

(* mutant: the task that was queued last is run first. *)
RunLast ==
  /\ phase = "next" /\ queue # <<>> /\ phase' = "poll"
  /\ queue' = SubSeq(queue, 1, Len(queue) - 1)
  /\ status' = [status EXCEPT ![queue[Len(queue)]] = "running"]
  /\ UNCHANGED <<waker, parentWoken>>

Run ==
  /\ phase = "next" /\ queue # <<>> /\ phase' = "poll"
  /\ queue' = Tail(queue) /\ status' = [status EXCEPT ![Head(queue)] = "running"]
  /\ UNCHANGED <<waker, parentWoken>>

Pending ==
  /\ phase = "poll" /\ phase' = "next"
  /\ \/ /\ status[Current] = "running" /\ status' = [status EXCEPT ![Current] = "idle"]
        /\ UNCHANGED <<queue, waker, parentWoken>>
     \/ /\ status[Current] = "again" /\ status' = [status EXCEPT ![Current] = "queued"]
        /\ Schedule(Current)

Finish ==
  /\ phase = "poll" /\ phase' = "next" /\ status' = [status EXCEPT ![Current] = "done"]
  /\ UNCHANGED <<queue, waker, parentWoken>>

(* The set is never ready, even when all its tasks are.                    *)
EndPoll ==
  /\ phase = "next" /\ queue = <<>> /\ phase' = "out" /\ waker' = TRUE
  /\ UNCHANGED <<queue, parentWoken, status>>

(* PollSet::drop empties the queue, and no more: the tasks hold what they  *)
(* are held by, and are neither dropped nor polled again.                  *)
Drop ==
  /\ phase = "out" /\ phase' = "dropped" /\ queue' = <<>>
  /\ UNCHANGED <<waker, parentWoken, status>>

Step == Run \/ Pending \/ Finish \/ EndPoll

PNext ==
  \/ Poll \/ Step \/ WakeSelf \/ Drop
  \/ \E t \in Tasks : Spawn(t) \/ Wake(t)

(* A poll goes on, and a parent that is woken polls the set.               *)
PSpec == PInit /\ [][PNext]_pvars /\ WF_pvars(Step) /\ WF_pvars(parentWoken /\ Poll)

-----------------------------------------------------------------------------
PTypeOK ==
  /\ queue \in Seq(Tasks) /\ waker \in BOOLEAN /\ parentWoken \in BOOLEAN
  /\ status \in [Tasks -> Status] /\ phase \in Phase

(* Between two polls, a task that is woken has woken the parent, or one    *)
(* before it has: the waker is used once, and is there again when the      *)
(* queue is empty.                                                         *)
ParentIsWoken ==
  phase = "out" /\ (\E t \in Tasks : status[t] = "queued") => parentWoken

(* The types, and ParentIsWoken.                                           *)
PInv == PTypeOK /\ ParentIsWoken

(* A task of the set that is woken is polled, however often the others     *)
(* wake themselves and each other, unless the set is dropped.              *)
WokenIsRun ==
  \A t \in Tasks : status[t] = "queued" ~> status[t] = "running" \/ phase = "dropped"
=============================================================================
