------------------------------ MODULE Streams ------------------------------
(***************************************************************************)
(* A half of a TcpStream (net/tcp.rs): its reads or writes are system      *)
(* calls that may block, and between them it waits for events of a         *)
(* multishot Poll of the socket (net/socket.rs).                           *)
(*                                                                         *)
(* The socket has room for the operation or not: bytes to read, or space   *)
(* to write.  The kernel tells of a change, not of a state, so a half that *)
(* believes that it was told remembers it until a call would block.        *)
(***************************************************************************)
EXTENDS Naturals, Sequences

CONSTANTS
  Room,        (* bound: how much the socket holds                         *)
  MaxEvents    (* bound: events that were not polled yet                   *)

ASSUME StreamsAssumption == Room \in Nat \ {0} /\ MaxEvents \in Nat \ {0}

VARIABLES
  notified,   (* ReadyStream::notified                                     *)
  armed,      (* ReadyStream::armed                                        *)
  events,     (* completions of the Poll, not taken by poll_next yet       *)
  signal,     (* whether the kernel is to look at the socket for the Poll  *)
  room,       (* how much the socket has                                   *)
  at,         (* where the task of the half is                             *)
  woken       (* whether the task is to be polled                          *)

vars == <<notified, armed, events, signal, room, at, woken>>

(* No Poll; one that is in the submission queue, in the kernel, or was     *)
(* ended by the kernel.                                                    *)
Armed == {"none", "pushed", "live", "ended"}

(* The task does something else, is in poll_ready, is about to try the     *)
(* system call, or returned Pending.                                       *)
At == {"idle", "poll_ready", "try", "pending"}

Init ==
  /\ notified = TRUE /\ armed = "none" /\ events = <<>> /\ signal = FALSE
  /\ room \in 0..Room /\ at = "idle" /\ woken = FALSE

-----------------------------------------------------------------------------
(* ReadyStream::poll_op.                                                   *)

(* A call, or the poll of a task that waited in one.                       *)
Call ==
  /\ at = "idle" \/ (at = "pending" /\ woken)
  /\ at' = "poll_ready" /\ woken' = FALSE
  /\ UNCHANGED <<notified, armed, events, signal, room>>

(* A task may give up a call that waits, as after a timeout.               *)
GiveUp ==
  /\ at = "pending" /\ at' = "idle" /\ woken' = FALSE
  /\ UNCHANGED <<notified, armed, events, signal, room>>

(* mutant: a success clears the notification, as if it had used it up. *)
SucceedOnce ==
  /\ at = "try" /\ room > 0 /\ at' = "idle"
  /\ \E n \in 1..room : room' = room - n
  /\ notified' = FALSE
  /\ UNCHANGED <<armed, events, signal, woken>>

(* The system call uses some of what there is; there may be more.          *)
Succeed ==
  /\ at = "try" /\ room > 0 /\ at' = "idle"
  /\ \E n \in 1..room : room' = room - n
  /\ UNCHANGED <<notified, armed, events, signal, woken>>

(* Other calls neither need nor use any: flush, and shutdown, which may    *)
(* fail, as any may.                                                       *)
SucceedWithout ==
  /\ at = "try" /\ at' = "idle"
  /\ UNCHANGED <<notified, armed, events, signal, room, woken>>

(* mutant: a call that would block leaves the half notified. *)
WouldBlockDeaf ==
  /\ at = "try" /\ room = 0 /\ at' = "poll_ready"
  /\ UNCHANGED <<notified, armed, events, signal, room, woken>>

WouldBlock ==
  /\ at = "try" /\ room = 0 /\ notified' = FALSE /\ at' = "poll_ready"
  /\ UNCHANGED <<armed, events, signal, room, woken>>

(* ReadyStream::poll_ready.                                                *)
Ready ==
  /\ at = "poll_ready" /\ notified /\ at' = "try"
  /\ UNCHANGED <<notified, armed, events, signal, room, woken>>

(* The latest event first; an error is the call's.                         *)
TakeEvent ==
  /\ at = "poll_ready" /\ ~notified /\ armed # "none" /\ events # <<>>
  /\ events' = SubSeq(events, 1, Len(events) - 1)
  /\ IF events[Len(events)] = "error" THEN at' = "idle" /\ UNCHANGED notified
     ELSE notified' = TRUE /\ UNCHANGED at
  /\ UNCHANGED <<armed, signal, room, woken>>

(* mutant: a Poll that ended stays armed, and the task waits for it. *)
KeepEnded ==
  /\ at = "poll_ready" /\ ~notified /\ armed = "ended" /\ events = <<>>
  /\ at' = "pending"
  /\ UNCHANGED <<notified, armed, events, signal, room, woken>>

Disarm ==
  /\ at = "poll_ready" /\ ~notified /\ armed = "ended" /\ events = <<>>
  /\ armed' = "none"
  /\ UNCHANGED <<notified, events, signal, room, at, woken>>

(* A Poll is armed, and pushed by the poll_next that follows.              *)
Arm ==
  /\ at = "poll_ready" /\ ~notified /\ armed = "none"
  /\ armed' = "pushed" /\ at' = "pending"
  /\ UNCHANGED <<notified, events, signal, room, woken>>

Wait ==
  /\ at = "poll_ready" /\ ~notified /\ armed \in {"pushed", "live"} /\ events = <<>>
  /\ at' = "pending"
  /\ UNCHANGED <<notified, armed, events, signal, room, woken>>

-----------------------------------------------------------------------------
(* The kernel, which looks at the socket when it gets the Poll.            *)

Submit ==
  /\ armed = "pushed" /\ armed' = "live" /\ signal' = TRUE
  /\ UNCHANGED <<notified, events, room, at, woken>>

(* The peer sends bytes, or takes some. *)
Refill ==
  /\ room < Room /\ \E n \in (room + 1)..Room : room' = n
  /\ signal' = (signal \/ armed = "live")
  /\ UNCHANGED <<notified, armed, events, at, woken>>

Post(e) ==
  /\ events' = Append(events, e) /\ woken' = (woken \/ at = "pending")

(* It posts an event if there is something by then; the last one if the    *)
(* completion queue is full.                                               *)
Look ==
  /\ armed = "live" /\ signal /\ signal' = FALSE
  /\ IF room = 0 THEN UNCHANGED <<armed, events, woken>>
     ELSE /\ Len(events) < MaxEvents /\ Post("ready")
          /\ armed' \in {"live", "ended"}
  /\ UNCHANGED <<notified, room, at>>

(* The Poll fails: it is cancelled, or the ring has no memory for it.      *)
Fail ==
  /\ armed = "live" /\ Len(events) < MaxEvents /\ Post("error")
  /\ armed' = "ended" /\ signal' = FALSE
  /\ UNCHANGED <<notified, room, at>>

-----------------------------------------------------------------------------
PollOp ==
  Succeed \/ SucceedWithout \/ WouldBlock \/ Ready \/ TakeEvent \/ Disarm \/ Arm \/ Wait

Next == Call \/ GiveUp \/ PollOp \/ Submit \/ Refill \/ Look \/ Fail

Spec == Init /\ [][Next]_vars

(* The executor polls a task that is woken, a call goes on, and the kernel *)
(* gets what is pushed and looks when it is told.                          *)
FairSpec ==
  /\ Spec
  /\ WF_vars(at = "pending" /\ Call) /\ WF_vars(PollOp) /\ WF_vars(Submit) /\ WF_vars(Look)

-----------------------------------------------------------------------------
(* Properties.                                                             *)

TypeOK ==
  /\ notified \in BOOLEAN /\ armed \in Armed /\ signal \in BOOLEAN
  /\ events \in Seq({"ready", "error"}) /\ Len(events) <= MaxEvents
  /\ room \in 0..Room /\ at \in At /\ woken \in BOOLEAN

(* No readiness is lost: while a task waits and the socket has something,  *)
(* the task is woken, or a Poll is on its way to the kernel or about to    *)
(* find it, although the half was told once and forgot, calls took part of *)
(* what there was, and Polls end and are armed again.                      *)
WaitIsCovered ==
  at = "pending" /\ room > 0 => woken \/ armed = "pushed" \/ (armed = "live" /\ signal)

(* The types, and WaitIsCovered.                                           *)
Inv == TypeOK /\ WaitIsCovered

(* A half that waits goes on when the socket has something.                *)
WaitEnds == at = "pending" /\ room > 0 ~> at # "pending"

(* A call returns, or waits: it does not go around its loops forever.      *)
CallReturns == at = "poll_ready" ~> at \in {"idle", "pending"}
=============================================================================
