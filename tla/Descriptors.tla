---------------------------- MODULE Descriptors ----------------------------
(***************************************************************************)
(* The descriptors of norn-uring: NornFd, its reference count and the two  *)
(* ways to close it (fd.rs), and the operations that hold one or make one  *)
(* (net/socket.rs, fs/file.rs).                                            *)
(*                                                                         *)
(* Nothing here waits for room, and requests reach the kernel in any       *)
(* order: io_uring promises none, and Operations models the rest.  What an *)
(* operation does with its data, its result and a result that nobody takes *)
(* is modelled here, and left out there.                                   *)
(*                                                                         *)
(* A number is not a file: the kernel gives the lowest free one, so a      *)
(* number that is closed twice may be another file's by then.  Each        *)
(* request to close carries, for the properties only, the file it was      *)
(* meant for and why it was made.                                          *)
(***************************************************************************)
EXTENDS Naturals, Sequences, FiniteSets

CONSTANTS
  Numbers,     (* descriptor numbers; 0 is the standard input              *)
  Files,       (* open files, used again when closed                       *)
  Ops,         (* operations, used again when freed                        *)
  None,        (* no file                                                  *)
  Stdin,       (* the file of number 0 at the start                        *)
  MaxResults   (* bound: results of a multishot accept before its last     *)

ASSUME DescriptorsAssumption ==
  /\ Numbers \subseteq Nat /\ 0 \in Numbers /\ IsFiniteSet(Numbers)
  /\ IsFiniteSet(Files) /\ IsFiniteSet(Ops)
  /\ None \notin Files /\ Stdin \notin Files /\ None # Stdin
  /\ MaxResults \in Nat

VARIABLES
  table,    (* the kernel's table: the file of each number                 *)
  fd,       (* the NornFd of each file                                     *)
  op,       (* each operation                                              *)
  closes,   (* requests to close that nobody waits for                     *)
  leaked,   (* files whose request to close could not be pushed            *)
  harm      (* why a file was closed that was not meant, if one was        *)

vars == <<table, fd, op, closes, leaked, harm>>

(* The operations, by what they do with descriptors.  OpenSocket and Open  *)
(* make one.  Accept uses one, and makes one or, as a stream, many.        *)
Opens   == {"open"}
Accepts == {"accept", "incoming"}

(* Connect uses one.  So do the other operations of sockets (SendTo and    *)
(* RecvFrom, which name a peer; Shutdown, Recv, Send and Poll, which do    *)
(* not) and of files: what else they do with their results is left out.    *)
Connects    == {"connect"}
Datagrams   == {"transfer"}
SocketUses  == {"transfer"}
FileUses    == {"transfer"}

Makes == Opens \cup Accepts
Uses  == Accepts \cup Connects \cup Datagrams \cup SocketUses \cup FileUses
Kind == Makes \cup Uses

(* NornFd::close: its future is to be polled, waits in Notify, waits for   *)
(* room to push its CloseFd, has it in the kernel, or has its result.      *)
Closer == {"none", "polled", "waiting", "pushing", "sent", "done", "failed"}

(* Why a request to close is made: the last owner is dropped; the result   *)
(* of a dropped operation; a close that is awaited; one whose future was   *)
(* dropped; the last owner is dropped after either was sent; or Connect.   *)
Cause == {"drop", "cleanup", "explicit", "cancelled", "again", "connect"}

Fd == [num : Numbers, app : 0..2, closer : Closer, tried : BOOLEAN]
NoFd == [num |-> 0, app |-> 0, closer |-> "none", tried |-> FALSE]
NewFd(n) == [num |-> n, app |-> 1, closer |-> "none", tried |-> FALSE]

Made == [num : Numbers, file : Files \cup {None}]
Request == [num : Numbers, file : Files \cup {None}, cause : Cause]

(* An operation is new until its entry is pushed, sent until the kernel    *)
(* reports its last result, and done until its memory is freed.            *)
Operation ==
  [kind : Kind, uses : Files \cup {None}, stage : {"none", "new", "sent", "done"},
   future : BOOLEAN, results : Seq(Made)]
NoOp == [kind |-> "open", uses |-> None, stage |-> "none", future |-> FALSE, results |-> <<>>]
NewOp(k, f) == [NoOp EXCEPT !.kind = k, !.uses = f, !.stage = "new", !.future = TRUE]

Init ==
  /\ table = [n \in Numbers |-> IF n = 0 THEN Stdin ELSE None]
  /\ fd = [f \in Files |-> NoFd] /\ op = [o \in Ops |-> NoOp]
  /\ closes = {} /\ leaked = {} /\ harm = "none"

-----------------------------------------------------------------------------
(* Owners.  An operation holds a clone of the NornFd until its result is   *)
(* taken or its memory is freed.                                           *)

Users(f)  == {o \in Ops : op[o].uses = f}
Strong(f) == fd[f].app + Cardinality(Users(f))
Alive(f)  == fd[f].app > 0 \/ Users(f) # {}

(* mutant: the drop of a clone notifies nobody. *)
QuietDrop(F, f) ==
  IF f = None THEN F ELSE IF Strong(f) = 1 THEN [F EXCEPT ![f] = NoFd] ELSE F

(* The drop of a clone notifies the closer; that of the last frees Inner.  *)
DropClone(F, f) ==
  IF f = None THEN F
  ELSE IF Strong(f) = 1 THEN [F EXCEPT ![f] = NoFd]
  ELSE [F EXCEPT ![f].closer = IF @ = "waiting" THEN "polled" ELSE @]

(* Drop for Inner, if not marked as closed: the file is closed.            *)
DropInner(f) ==
  IF f # None /\ Strong(f) = 1
  THEN {[num |-> fd[f].num, file |-> f, cause |-> IF fd[f].tried THEN "again" ELSE "drop"]}
  ELSE {}

(* close_fd fails if the queue is full and the kernel takes nothing; that  *)
(* is logged, and forgotten.                                               *)
PushCloses(before, rs) ==
  \E lost \in SUBSET rs :
    /\ closes' = before \cup (rs \ lost)
    /\ leaked' = leaked \cup ({r.file : r \in lost} \ {None})

(* mutant: a descriptor that nobody takes is not closed. *)
CleanupNone(o) == {}

(* Operation::cleanup, for each result that nobody takes.  That of Connect *)
(* treats a success, which is 0, as a descriptor.                          *)
Cleanup(o) ==
  {[num |-> op[o].results[i].num, file |-> op[o].results[i].file,
    cause |-> IF op[o].kind \in Connects THEN "connect" ELSE "cleanup"] :
     i \in {j \in DOMAIN op[o].results : op[o].kind \in Makes \cup Connects}}

-----------------------------------------------------------------------------
(* The application.  Its handles of a file are one, or the two halves of a *)
(* stream; a close takes the one handle.                                   *)

Free(f) == fd[f].app > 0 /\ fd[f].closer = "none"

Open(o) ==
  /\ op[o].stage = "none"
  /\ op' = [op EXCEPT ![o] = NewOp("open", None)]
  /\ UNCHANGED <<table, fd, closes, leaked, harm>>

Start(o, k, f) ==
  /\ op[o].stage = "none" /\ Free(f)
  /\ op' = [op EXCEPT ![o] = NewOp(k, f)]
  /\ UNCHANGED <<table, fd, closes, leaked, harm>>

Push(o) ==
  /\ op[o].stage = "new" /\ op' = [op EXCEPT ![o].stage = "sent"]
  /\ UNCHANGED <<table, fd, closes, leaked, harm>>

(* The result is taken, and the operation's data with it.                  *)
Complete(o) ==
  LET rs == op[o].results IN
  /\ op[o].stage = "done" /\ op[o].future
  /\ op[o].kind = "incoming" => rs = <<>>
  /\ op' = [op EXCEPT ![o] = NoOp]
  /\ fd' = LET dropped == DropClone(fd, op[o].uses) IN
           IF op[o].kind \in Makes /\ rs # <<>>
           THEN [dropped EXCEPT ![rs[1].file] = NewFd(rs[1].num)] ELSE dropped
  /\ PushCloses(closes, DropInner(op[o].uses))
  /\ UNCHANGED <<table, harm>>

(* Multishot::update for an accepted socket, the latest first.             *)
Update(o) ==
  LET rs == op[o].results last == rs[Len(rs)] IN
  /\ op[o].kind = "incoming" /\ op[o].future /\ rs # <<>>
  /\ op' = [op EXCEPT ![o].results = SubSeq(rs, 1, Len(rs) - 1)]
  /\ fd' = [fd EXCEPT ![last.file] = NewFd(last.num)]
  /\ UNCHANGED <<table, closes, leaked, harm>>

(* An operation in the kernel is cancelled, and keeps its data until then. *)
DropSent(o) ==
  /\ op[o].future /\ op[o].stage = "sent"
  /\ op' = [op EXCEPT ![o].future = FALSE]
  /\ UNCHANGED <<table, fd, closes, leaked, harm>>

(* The memory is freed: by the drop of a future, or by the last result.    *)
Destroy(o) ==
  /\ IF op[o].future THEN op[o].stage \in {"new", "done"} ELSE op[o].stage = "done"
  /\ op' = [op EXCEPT ![o] = NoOp] /\ fd' = DropClone(fd, op[o].uses)
  /\ PushCloses(closes, Cleanup(o) \cup DropInner(op[o].uses))
  /\ UNCHANGED <<table, harm>>

(* TcpSocket::into_stream, whose halves are clones. *)
Split(f) ==
  /\ Free(f) /\ fd[f].app = 1 /\ fd' = [fd EXCEPT ![f].app = 2]
  /\ UNCHANGED <<table, op, closes, leaked, harm>>

(* A handle is dropped, or the future of a close that holds it.            *)
LoseHandle(f) ==
  fd' = IF Strong(f) = 1 THEN [fd EXCEPT ![f] = NoFd]
        ELSE [fd EXCEPT ![f].app = @ - 1, ![f].closer = "none"]

DropHandle(f) ==
  /\ Free(f) /\ LoseHandle(f) /\ PushCloses(closes, DropInner(f))
  /\ UNCHANGED <<table, op, harm>>

BeginClose(f) ==
  /\ Free(f) /\ fd[f].app = 1 /\ fd' = [fd EXCEPT ![f].closer = "polled"]
  /\ UNCHANGED <<table, op, closes, leaked, harm>>

(* mutant: a close does not wait for the operations. *)
PollCloseAtOnce(f) ==
  /\ fd[f].closer = "polled" /\ fd' = [fd EXCEPT ![f].closer = "pushing"]
  /\ UNCHANGED <<table, op, closes, leaked, harm>>

(* NornFd::close, from the start or from a notification.                   *)
PollClose(f) ==
  /\ fd[f].closer = "polled"
  /\ fd' = [fd EXCEPT ![f].closer = IF Strong(f) = 1 THEN "pushing" ELSE "waiting"]
  /\ UNCHANGED <<table, op, closes, leaked, harm>>

PushClose(f) ==
  /\ fd[f].closer = "pushing"
  /\ fd' = [fd EXCEPT ![f].closer = "sent", ![f].tried = TRUE]
  /\ UNCHANGED <<table, op, closes, leaked, harm>>

(* The end of NornFd::close: the descriptor is marked as closed, and       *)
(* dropped without another close.                                          *)
FinishClose(f) ==
  /\ fd[f].closer = "done" /\ LoseHandle(f)
  /\ UNCHANGED <<table, op, closes, leaked, harm>>

(* The close failed: it returns by the question mark, and marks nothing.   *)
FailClose(f) ==
  /\ fd[f].closer = "failed" /\ LoseHandle(f)
  /\ PushCloses(closes, DropInner(f))
  /\ UNCHANGED <<table, op, harm>>

(* The drop of the future of a close, whatever it waits for.  A CloseFd in *)
(* the kernel is cancelled; one whose result was not read does not count.  *)
DropClose(f) ==
  /\ fd[f].closer # "none" /\ LoseHandle(f)
  /\ PushCloses(IF fd[f].closer # "sent" THEN closes
                ELSE closes \cup {[num |-> fd[f].num, file |-> f, cause |-> "cancelled"]},
                DropInner(f))
  /\ UNCHANGED <<table, op, harm>>

-----------------------------------------------------------------------------
(* The kernel.                                                             *)

FreeNumbers == {n \in Numbers : table[n] = None}

(* A file that nothing refers to. *)
Fresh(f) ==
  /\ ~Alive(f) /\ \A n \in Numbers : table[n] # f
  /\ \A r \in closes : r.file # f

(* An operation makes a descriptor, with the lowest free number.           *)
KernelOpens(o) ==
  /\ op[o].stage = "sent" /\ op[o].kind \in Makes
  /\ op[o].kind = "incoming" => Len(op[o].results) < MaxResults
  /\ \E n \in FreeNumbers, f \in Files :
       /\ \A m \in FreeNumbers : n <= m
       /\ Fresh(f) /\ table' = [table EXCEPT ![n] = f]
       /\ op' = [op EXCEPT ![o].results = Append(@, [num |-> n, file |-> f]),
                           ![o].stage = IF op[o].kind = "incoming" THEN @ ELSE "done"]
       /\ leaked' = leaked \ {f}
  /\ UNCHANGED <<fd, closes, harm>>

(* An operation ends: it succeeds with a number of bytes or with zero, it  *)
(* fails or is cancelled, or a multishot gives its last result.            *)
KernelEnds(o) ==
  /\ op[o].stage = "sent"
  /\ \/ op' = [op EXCEPT ![o].stage = "done"]
     \/ /\ op[o].kind \in Connects
        /\ op' = [op EXCEPT ![o].stage = "done", ![o].results = <<[num |-> 0, file |-> None]>>]
  /\ UNCHANGED <<table, fd, closes, leaked, harm>>

(* The kernel closes whatever has the number, if something has.            *)
Release(r) ==
  /\ table' = [table EXCEPT ![r.num] = None]
  /\ harm' = IF table[r.num] \in {None, r.file} THEN harm ELSE r.cause

(* A CloseFd fails after the file is closed, or before.                    *)
KernelCloses(f) ==
  /\ fd[f].closer = "sent"
  /\ \/ /\ Release([num |-> fd[f].num, file |-> f, cause |-> "explicit"])
        /\ \E result \in {"done", "failed"} : fd' = [fd EXCEPT ![f].closer = result]
     \/ fd' = [fd EXCEPT ![f].closer = "failed"] /\ UNCHANGED <<table, harm>>
  /\ UNCHANGED <<op, closes, leaked>>

KernelReleases(r) ==
  /\ Release(r) /\ closes' = closes \ {r}
  /\ UNCHANGED <<fd, op, leaked>>

(* A CloseFd whose future was dropped may be cancelled in time.            *)
KernelCancels(r) ==
  /\ r.cause = "cancelled" /\ closes' = closes \ {r}
  /\ UNCHANGED <<table, fd, op, leaked, harm>>

-----------------------------------------------------------------------------
Application(f) ==
  \/ \E o \in Ops, k \in Uses : Start(o, k, f)
  \/ Split(f) \/ DropHandle(f) \/ BeginClose(f)

Closing(f) == PollClose(f) \/ PushClose(f) \/ FinishClose(f) \/ FailClose(f)

(* The properties tell what leads to the first harm; no step follows it.   *)
Next ==
  /\ harm = "none"
  /\ \/ \E o \in Ops : \/ Open(o) \/ Push(o) \/ Complete(o) \/ Update(o) \/ DropSent(o)
                       \/ Destroy(o) \/ KernelOpens(o) \/ KernelEnds(o)
     \/ \E f \in Files : Application(f) \/ Closing(f) \/ DropClose(f) \/ KernelCloses(f)
     \/ \E r \in closes : KernelReleases(r) \/ KernelCancels(r)

Spec == Init /\ [][Next]_vars

(* A close that is woken is polled, and the kernel closes what it is to.   *)
FairSpec ==
  /\ Spec
  /\ \A f \in Files : WF_vars(harm = "none" /\ (Closing(f) \/ KernelCloses(f)))

-----------------------------------------------------------------------------
(* Properties.                                                             *)

Accepted(f) == \E o \in Ops : \E i \in DOMAIN op[o].results : op[o].results[i].file = f

TypeOK ==
  /\ table \in [Numbers -> Files \cup {None, Stdin}]
  /\ fd \in [Files -> Fd] /\ op \in [Ops -> Operation]
  /\ closes \subseteq Request /\ leaked \subseteq Files
  /\ harm \in Cause \cup {"none"}

(* No descriptor is closed while it is used: the file of an operation that *)
(* is not over, or of a handle that is not being closed, is open under the *)
(* number that its entry names, whatever was closed meanwhile.             *)
UsedIsOpen ==
  harm = "none" =>
    \A f \in Files : Users(f) # {} \/ Free(f) => table[fd[f].num] = f

(* A request to close closes the file that it was made for, or none, with  *)
(* two exceptions: an owner that is dropped after a close was sent, and    *)
(* not seen to succeed, closes twice; and a dropped Connect closes 0.      *)
ClosesItsOwn == harm \in {"none", "cancelled", "again", "connect"}

(* The types, UsedIsOpen, and ClosesItsOwn.                                *)
Inv == TypeOK /\ UsedIsOpen /\ ClosesItsOwn

(* No file stays open that nobody has and nobody will close, except those  *)
(* whose request could not be pushed: also results of dropped operations,  *)
(* and of one that is dropped when some were accepted and some not.        *)
NoneLeaked ==
  harm = "none" =>
    \A n \in Numbers : table[n] \in Files =>
      \/ Alive(table[n]) \/ Accepted(table[n]) \/ table[n] \in leaked
      \/ \E r \in closes : r.file = table[n] /\ r.cause # "cancelled"

(* A close does not wait forever once no operation holds the descriptor:   *)
(* the drop of the last clone wakes it, whoever drops it.                  *)
CloseEnds ==
  \A f \in Files :
    []<>(fd[f].closer = "none" \/ Users(f) # {} \/ harm # "none")

-----------------------------------------------------------------------------
(* What the documentation says, and the code does not do.                  *)

(* A descriptor is never closed while another owner uses it.               *)
DescriptorsAreKept == harm = "none"
=============================================================================
