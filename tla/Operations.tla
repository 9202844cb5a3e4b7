---------------------------- MODULE Operations -----------------------------
(***************************************************************************)
(* The io_uring operations of norn-uring, from Op::new to the last         *)
(* reference: the futures (operation/mod.rs), their memory, shared with    *)
(* the kernel (operation/raw.rs, header.rs), the wait for room in the      *)
(* submission queue (driver/futures.rs, util/notify.rs), and the driver    *)
(* that submits, reaps, cancels and shuts down (driver/mod.rs).            *)
(*                                                                         *)
(* One thread runs the application, the executor and the driver; between   *)
(* any two of its steps the kernel may post completions.  How the thread   *)
(* falls asleep and is woken is the subject of Unparker.                   *)
(***************************************************************************)
EXTENDS Naturals, Sequences, FiniteSets

CONSTANTS
  Ops,          (* the addresses of operations, used again when freed       *)
  Multi,        (* those whose operation is a Multishot                     *)
  SqSize,       (* entries in the submission queue                          *)
  MaxMore       (* bound: completions of an operation that announce more    *)

ASSUME OperationsAssumption ==
  /\ IsFiniteSet(Ops) /\ Multi \subseteq Ops
  /\ SqSize \in Nat \ {0} /\ MaxMore \in Nat

VARIABLES
  op,         (* each operation: its future, its memory, and its waiting    *)
  waiters,    (* Notify::waiters of Shared::backpressure                    *)
  sq,         (* the submission queue                                       *)
  cq,         (* the completion queue                                       *)
  armed,      (* the operations in the kernel                               *)
  cancelled,  (* those of them that were cancelled                          *)
  unsent,     (* the dropped ones whose cancellation failed                 *)
  drain,      (* whether the kernel has the entry with the DRAIN_TOKEN      *)
  status,     (* Shared::status                                             *)
  at,         (* where the thread is                                        *)
  sleep,      (* whether the park under way may sleep                       *)
  entered     (* how many entries a sleep has submitted                     *)

kernel == <<cq, armed, cancelled, drain>>
thread == <<status, at, sleep, entered>>
vars == <<op, waiters, sq, kernel, unsent, thread>>

(* The stage of a future: none, UnsubmittedOp, SubmittedOp, completed, or  *)
(* dropped while the kernel has its operation.                             *)
FutureStage == {"none", "unsubmitted", "submitted", "completed", "dropped"}

(* The Notified of its PushFuture, if it has one. *)
Waiting == {"none", "Linked", "Fired"}

(* Where the thread can be: in the application or the executor; in a park  *)
(* that drains, prepares, enters the kernel or sleeps in it; in the loop   *)
(* of shutdown, or after it; stopped by a failed assertion of operation/,  *)
(* or by an unwrap of Driver::shutdown.                                    *)
At == {"run", "drain", "submit", "enter", "asleep", "shutdown", "stopped",
       "crashed", "failed"}

OpEntry(o)     == [kind |-> "op", op |-> o]
CancelEntry(o) == [kind |-> "cancel", op |-> o]
OtherEntry     == [kind |-> "other"]
DrainEntry     == [kind |-> "drain"]
Entry == {OpEntry(o) : o \in Ops} \cup {CancelEntry(o) : o \in Ops}
         \cup {OtherEntry, DrainEntry}

(* A completion of an operation, and whether it announces more. *)
Result(o, m) == [kind |-> "op", op |-> o, more |-> m]
Completion == {Result(o, m) : o \in Ops, m \in BOOLEAN} \cup {DrainEntry}

Operation == [
  stage       : FutureStage,
  wait        : Waiting,
  woken       : BOOLEAN,        (* its task is to poll it                   *)
  refcount    : Nat,            (* Header::refcount                         *)
  waker       : BOOLEAN,        (* Header::waker                            *)
  completions : Seq(BOOLEAN),   (* Header::completions, each with its more  *)
  complete    : BOOLEAN,        (* Header::complete                         *)
  data        : BOOLEAN,        (* RawOp::data                              *)
  updates     : Nat,            (* how often the kernel announced more      *)
  held        : Nat ]           (* results of the kernel not consumed yet   *)

Unused == [stage |-> "none", wait |-> "none", woken |-> FALSE, refcount |-> 0,
           waker |-> FALSE, completions |-> <<>>, complete |-> FALSE,
           data |-> FALSE, updates |-> 0, held |-> 0]

Room == Len(sq) < SqSize

Init ==
  /\ op = [o \in Ops |-> Unused] /\ waiters = <<>>
  /\ sq = <<>> /\ cq = <<>> /\ armed = {} /\ cancelled = {} /\ unsent = {}
  /\ drain = FALSE /\ status = "running" /\ at = "run"
  /\ sleep = FALSE /\ entered = 0

-----------------------------------------------------------------------------
(* Notify: notify(n) fires the first n waiters, which wakes their tasks.   *)

FirstWaiters(n) == {waiters[i] : i \in {j \in DOMAIN waiters : j <= n}}

Fire(f, who) ==
  [o \in Ops |-> IF o \in who THEN [f[o] EXCEPT !.wait = "Fired", !.woken = TRUE]
                 ELSE f[o]]

Notify(f, n) ==
  /\ op' = Fire(f, FirstWaiters(n))
  /\ waiters' = SubSeq(waiters, n + 1, Len(waiters))

(* The memory of an operation, RawOp. *)

(* mutant: the results that nobody took are not cleaned up. *)
DestroyedAsIs(r) == [Unused EXCEPT !.held = r.held]

(* RawOp::destroy cleans up every result that nobody took, and panics if   *)
(* there is one and no data to do it.                                      *)
Destroyed(r) == [Unused EXCEPT !.held = r.held - Len(r.completions)]
UnrefOk(r)   == r.refcount = 1 => r.data \/ r.completions = <<>>
Unref(r)     == IF r.refcount = 1 THEN Destroyed(r)
                ELSE [r EXCEPT !.refcount = @ - 1]

(* io_uring_enter takes every entry, in order: a cancellation reaches an   *)
(* operation that the kernel has by then.                                  *)
Submitted == {o \in Ops : \E i \in DOMAIN sq : sq[i] = OpEntry(o)}
Hit == {o \in Ops : \E i \in DOMAIN sq :
          /\ sq[i] = CancelEntry(o)
          /\ o \in armed \/ \E j \in 1..(i - 1) : sq[j] = OpEntry(o)}
Take ==
  /\ armed' = armed \cup Submitted
  /\ cancelled' = cancelled \cup Hit
  /\ drain' = (drain \/ \E i \in DOMAIN sq : sq[i] = DrainEntry)

(* It may fail with EBUSY, and take none, while completions are pending.   *)
Busy == cq # <<>>

-----------------------------------------------------------------------------
(* The application: tasks poll and drop futures.  It polls none once the   *)
(* executor has shut its tasks down; it may still drop some.               *)

Polls == at = "run" /\ status = "running"

(* mutant: the entry shares the reference of the future. *)
NewOnce(o) ==
  /\ Polls /\ op[o].refcount = 0
  /\ op' = [op EXCEPT ![o] = [Unused EXCEPT !.stage = "unsubmitted",
              !.woken = TRUE, !.refcount = 1, !.data = TRUE]]
  /\ UNCHANGED <<waiters, sq, kernel, unsent, thread>>

(* Op::new.  The memory has two references, of the future and of the       *)
(* entry to be pushed.                                                     *)
New(o) ==
  /\ Polls /\ op[o].refcount = 0
  /\ op' = [op EXCEPT ![o] = [Unused EXCEPT !.stage = "unsubmitted",
              !.woken = TRUE, !.refcount = 2, !.data = TRUE]]
  /\ UNCHANGED <<waiters, sq, kernel, unsent, thread>>

(* PushFutureInner::poll: a waiter that was notified tries again, and goes *)
(* to the end of the list if the queue is full.  An operation that is      *)
(* pushed stores its task's waker at once.                                 *)
PollUnsubmitted(o) ==
  /\ Polls /\ op[o].stage = "unsubmitted"
  /\ IF op[o].wait = "Linked" \/ ~Room
     THEN /\ op' = [op EXCEPT ![o].wait = "Linked", ![o].woken = FALSE]
          /\ waiters' = IF op[o].wait = "Linked" THEN waiters ELSE Append(waiters, o)
          /\ UNCHANGED sq
     ELSE /\ op' = [op EXCEPT ![o].wait = "none", ![o].woken = FALSE,
                              ![o].stage = "submitted", ![o].waker = TRUE]
          /\ sq' = Append(sq, OpEntry(o))
          /\ UNCHANGED waiters
  /\ UNCHANGED <<kernel, unsent, thread>>

(* A poll that finds nothing stores its waker.                             *)
Pend(r) == [r EXCEPT !.waker = TRUE, !.woken = FALSE]

(* The order that try_complete asserts: the last result ends the others.   *)
InOrder(results) ==
  results # <<>> /\ \A i \in DOMAIN results : results[i] <=> i < Len(results)

(* Future for Stage: all results are taken once the last has come.         *)
PollFuture(o) ==
  LET r == op[o] IN
  /\ Polls /\ r.stage = "submitted" /\ o \notin Multi
  /\ IF r.complete
     THEN /\ op' = [op EXCEPT ![o] = [r EXCEPT !.stage = "completed", !.data = FALSE,
                      !.woken = FALSE, !.completions = <<>>,
                      !.held = @ - Len(r.completions)]]
          /\ at' = IF r.data /\ InOrder(r.completions) THEN at ELSE "crashed"
     ELSE op' = [op EXCEPT ![o] = Pend(r)] /\ UNCHANGED at
  /\ UNCHANGED <<waiters, sq, kernel, unsent, status, sleep, entered>>

(* Stream for Stage: the latest result first.  A stream that gave one, or  *)
(* will be polled again by whoever reads it.                               *)
PollStream(o) ==
  LET r == op[o] IN
  /\ Polls /\ r.stage = "submitted" /\ o \in Multi
  /\ IF r.completions # <<>>
     THEN /\ op' = [op EXCEPT ![o] = [r EXCEPT !.woken = TRUE, !.held = @ - 1,
                      !.completions = SubSeq(@, 1, Len(@) - 1)]]
          /\ at' = IF r.data THEN at ELSE "crashed"
     ELSE /\ op' = [op EXCEPT ![o] = IF r.complete
                      THEN [r EXCEPT !.stage = "completed", !.woken = FALSE]
                      ELSE Pend(r)]
          /\ UNCHANGED at
  /\ UNCHANGED <<waiters, sq, kernel, unsent, status, sleep, entered>>

Poll(o) == PollUnsubmitted(o) \/ PollFuture(o) \/ PollStream(o)

Drops == at \in {"run", "stopped"}

(* A waiter that is dropped leaves the list. *)
Unlink(o) ==
  \E i \in DOMAIN waiters :
    /\ waiters[i] = o
    /\ waiters' = SubSeq(waiters, 1, i - 1) \o SubSeq(waiters, i + 1, Len(waiters))

(* mutant: a notified waiter keeps the notification that it did not use. *)
DropSilently(o) ==
  /\ Drops /\ op[o].stage = "unsubmitted"
  /\ op' = [op EXCEPT ![o] = Unused]
  /\ IF op[o].wait = "Linked" THEN Unlink(o) ELSE UNCHANGED waiters
  /\ UNCHANGED <<sq, kernel, unsent, thread>>

(* The drop of an UnsubmittedOp, of its PushFuture with the entry, and of  *)
(* its Notified: one that waits leaves the list, one that was notified     *)
(* notifies the next.                                                      *)
DropUnsubmitted(o) ==
  LET gone == [op EXCEPT ![o] = Unused] IN
  /\ Drops /\ op[o].stage = "unsubmitted"
  /\ \/ op[o].wait = "none"   /\ op' = gone /\ UNCHANGED waiters
     \/ op[o].wait = "Linked" /\ op' = gone /\ Unlink(o)
     \/ op[o].wait = "Fired"  /\ Notify(gone, 1)
  /\ UNCHANGED <<sq, kernel, unsent, thread>>

(* mutant: a future that is dropped does not cancel its operation. *)
DropUncancelled(o) ==
  /\ Drops /\ op[o].stage = "submitted"
  /\ op' = [op EXCEPT ![o] = Unref([@ EXCEPT !.stage = "dropped", !.woken = FALSE])]
  /\ at' = IF UnrefOk(op[o]) THEN at ELSE "crashed"
  /\ UNCHANGED <<waiters, sq, kernel, unsent, status, sleep, entered>>

(* The drop of a future that did not complete: Shared::cancel submits the  *)
(* queue, so that the kernel knows the operation, and pushes the           *)
(* cancellation.  If the submission fails the error is ignored.            *)
DropSubmitted(o) ==
  LET gone == [op EXCEPT ![o] = Unref([@ EXCEPT !.stage = "dropped", !.woken = FALSE])] IN
  /\ Drops /\ op[o].stage = "submitted"
  /\ \/ /\ Notify(gone, Len(sq)) /\ Take
        /\ sq' = <<CancelEntry(o)>> /\ UNCHANGED unsent
     \/ /\ Busy
        /\ op' = gone /\ unsent' = IF op[o].refcount = 1 THEN unsent ELSE unsent \cup {o}
        /\ UNCHANGED <<waiters, sq, armed, cancelled, drain>>
  /\ at' = IF UnrefOk(op[o]) THEN at ELSE "crashed"
  /\ UNCHANGED <<cq, status, sleep, entered>>

DropCompleted(o) ==
  /\ Drops /\ op[o].stage = "completed"
  /\ op' = [op EXCEPT ![o] = Unref([@ EXCEPT !.stage = "dropped"])]
  /\ at' = IF UnrefOk(op[o]) THEN at ELSE "crashed"
  /\ UNCHANGED <<waiters, sq, kernel, unsent, status, sleep, entered>>

(* Shared::close_fd, called by destructors, also by those of operations    *)
(* that a drain frees: the queue is submitted if it is full.               *)
CloseFd ==
  /\ at \in {"run", "drain", "stopped"}
  /\ IF Room
     THEN sq' = Append(sq, OtherEntry) /\ UNCHANGED <<op, waiters, armed, cancelled, drain>>
     ELSE Notify(op, Len(sq)) /\ Take /\ sq' = <<OtherEntry>>
  /\ UNCHANGED <<cq, unsent, thread>>

-----------------------------------------------------------------------------
(* Driver::park.                                                           *)

Return == at' = IF status = "running" THEN "run" ELSE "shutdown"

(* Driver::needs_park makes block_on park with tasks in its queue. *)
NeedsPark == waiters # <<>> \/ ~Room

(* block_on parks for as long as it takes if no task is to run, or if the  *)
(* driver needs a park.                                                    *)
Park(m) ==
  /\ \/ Polls /\ (m => NeedsPark \/ \A o \in Ops : ~op[o].woken)
     \/ at = "shutdown" /\ status = "draining" /\ m
  /\ at' = "drain" /\ sleep' = m
  /\ UNCHANGED <<op, waiters, sq, kernel, unsent, status, entered>>

(* mutant: only the last completion wakes. *)
ReceivedQuietly(r, m) ==
  LET s == [r EXCEPT !.completions = Append(@, m), !.complete = @ \/ ~m] IN
  IF m THEN s
  ELSE Unref([s EXCEPT !.waker = FALSE, !.woken = @ \/ (r.waker /\ r.stage = "submitted")])

(* RawOp::complete and RawOpRef::complete: the last completion releases    *)
(* the kernel's reference.                                                 *)
Received(r, m) ==
  LET s == [r EXCEPT !.completions = Append(@, m), !.complete = @ \/ ~m, !.waker = FALSE,
                     !.woken = @ \/ (r.waker /\ r.stage = "submitted")] IN
  IF m THEN s ELSE Unref(s)

(* One round of drain. *)
Reap ==
  LET c == Head(cq) IN
  /\ at = "drain" /\ cq # <<>>
  /\ cq' = Tail(cq) /\ sleep' = FALSE
  /\ IF c.kind = "op"
     THEN /\ op' = [op EXCEPT ![c.op] = Received(@, c.more)]
          /\ at' = IF op[c.op].complete \/ (~c.more /\ op[c.op].refcount = 1 /\ ~op[c.op].data)
                   THEN "crashed" ELSE at
          /\ UNCHANGED <<waiters, status>>
     ELSE /\ Notify(op, Len(waiters)) /\ status' = "shutdown"
          /\ UNCHANGED at
  /\ UNCHANGED <<sq, armed, cancelled, drain, unsent, entered>>

EndDrain ==
  /\ at = "drain" /\ cq = <<>> /\ at' = "submit"
  /\ UNCHANGED <<op, waiters, sq, kernel, unsent, status, sleep, entered>>

(* Driver::submit up to the system call, with any outcome of prepare_park: *)
(* it may push the read of the eventfd, and may forbid the sleep.          *)
Prepare ==
  /\ at = "submit" /\ at' = "enter"
  /\ sleep' \in {sleep, sleep /\ status # "running"}
  /\ \/ UNCHANGED sq
     \/ sleep /\ status = "running" /\ Room /\ sq' = Append(sq, OtherEntry)
  /\ UNCHANGED <<op, waiters, kernel, unsent, status, entered>>

(* Shared::submit, which notifies when the system call is over.            *)
Enter ==
  /\ at = "enter" /\ Take /\ sq' = <<>>
  /\ IF sleep
     THEN at' = "asleep" /\ entered' = Len(sq) /\ UNCHANGED <<op, waiters>>
     ELSE Return /\ Notify(op, Len(sq)) /\ UNCHANGED entered
  /\ UNCHANGED <<cq, unsent, status, sleep>>

EnterBusy ==
  /\ at = "enter" /\ Busy
  /\ at' = "drain" /\ sleep' = FALSE
  /\ UNCHANGED <<op, waiters, sq, kernel, unsent, status, entered>>

(* A signal in a sleep that submitted nothing: park submits again (EINTR). *)
Interrupted ==
  /\ at = "asleep" /\ cq = <<>> /\ entered = 0 /\ at' = "submit"
  /\ UNCHANGED <<op, waiters, sq, kernel, unsent, status, sleep, entered>>

(* A sleep ends with a completion, an unpark or a timeout.  A timeout of a *)
(* sleep that submitted nothing is an error, and the caller's to handle.   *)
WakeUp ==
  /\ at = "asleep" /\ Return
  /\ Notify(op, entered) /\ entered' = 0
  /\ UNCHANGED <<sq, kernel, unsent, status, sleep>>

-----------------------------------------------------------------------------
(* The kernel: an operation may announce more completions, until its last. *)

PostMore(o) ==
  /\ o \in armed \ cancelled /\ op[o].updates < MaxMore
  /\ op' = [op EXCEPT ![o].updates = @ + 1, ![o].held = @ + 1]
  /\ cq' = Append(cq, Result(o, TRUE))
  /\ UNCHANGED <<waiters, sq, armed, cancelled, drain, unsent, thread>>

PostLast(o) ==
  /\ o \in armed
  /\ armed' = armed \ {o} /\ cancelled' = cancelled \ {o} /\ unsent' = unsent \ {o}
  /\ op' = [op EXCEPT ![o].held = @ + 1]
  /\ cq' = Append(cq, Result(o, FALSE))
  /\ UNCHANGED <<waiters, sq, drain, thread>>

(* An entry with IO_DRAIN completes after all that came before.            *)
PostDrain ==
  /\ drain /\ armed = {}
  /\ drain' = FALSE /\ cq' = Append(cq, DrainEntry)
  /\ UNCHANGED <<op, waiters, sq, armed, cancelled, unsent, thread>>

-----------------------------------------------------------------------------
(* Driver::shutdown.                                                       *)

BeginShutdown ==
  /\ Polls /\ at' = "shutdown"
  /\ UNCHANGED <<op, waiters, sq, kernel, unsent, status, sleep, entered>>

(* mutant: what is in the kernel is not cancelled. *)
CancelNone ==
  /\ at = "shutdown" /\ status = "running"
  /\ Take /\ sq' = <<DrainEntry>> /\ status' = "draining"
  /\ Notify(op, Len(waiters))
  /\ UNCHANGED <<cq, unsent, at, sleep, entered>>

(* The queue is submitted, everything is cancelled, the entry with the     *)
(* DRAIN_TOKEN is pushed, and the change of status fires all waiters.      *)
CancelAll ==
  /\ at = "shutdown" /\ status = "running"
  /\ armed' = armed \cup Submitted /\ cancelled' = armed'
  /\ sq' = <<DrainEntry>> /\ status' = "draining"
  /\ Notify(op, Len(waiters))
  /\ UNCHANGED <<cq, drain, unsent, at, sleep, entered>>

(* The result of that submission is unwrapped. *)
CancelBusy ==
  /\ at = "shutdown" /\ status = "running" /\ Busy
  /\ at' = "failed"
  /\ UNCHANGED <<op, waiters, sq, kernel, unsent, status, sleep, entered>>

EndShutdown ==
  /\ at = "shutdown" /\ status = "shutdown" /\ at' = "stopped"
  /\ UNCHANGED <<op, waiters, sq, kernel, unsent, status, sleep, entered>>

-----------------------------------------------------------------------------
Driver ==
  \/ Reap \/ EndDrain \/ Prepare \/ Enter \/ EnterBusy
  \/ CancelAll \/ CancelBusy \/ EndShutdown

Next ==
  \/ \E o \in Ops : \/ New(o) \/ Poll(o) \/ DropUnsubmitted(o) \/ DropSubmitted(o)
                    \/ DropCompleted(o) \/ PostMore(o) \/ PostLast(o)
  \/ CloseFd \/ (\E m \in BOOLEAN : Park(m)) \/ Driver \/ Interrupted \/ WakeUp
  \/ PostDrain \/ BeginShutdown

Spec == Init /\ [][Next]_vars

(* The thread goes on, and a sleep ends when there is a completion; the    *)
(* executor polls the tasks that were woken, and parks; the kernel         *)
(* completes what is cancelled, and the entry with IO_DRAIN.  An operation *)
(* that is not cancelled may take forever.                                 *)
FairSpec ==
  /\ Spec
  /\ WF_vars(Driver) /\ WF_vars(\E m \in BOOLEAN : Park(m))
  /\ WF_vars(cq # <<>> /\ WakeUp) /\ WF_vars(PostDrain)
  /\ \A o \in Ops : /\ WF_vars(o \in cancelled /\ PostLast(o))
                    /\ SF_vars(op[o].woken /\ Poll(o))

-----------------------------------------------------------------------------
(* Properties.                                                             *)

TypeOK ==
  /\ op \in [Ops -> Operation] /\ waiters \in Seq(Ops)
  /\ sq \in Seq(Entry) /\ Len(sq) <= SqSize /\ cq \in Seq(Completion)
  /\ cancelled \subseteq armed /\ armed \subseteq Ops /\ unsent \subseteq Ops
  /\ drain \in BOOLEAN /\ status \in {"running", "draining", "shutdown"}
  /\ at \in At /\ sleep \in BOOLEAN /\ entered \in 0..SqSize

(* No assertion about an operation fails: no completion comes after the    *)
(* last, no data is gone when a result needs it, and none is used twice.   *)
NoCrash == at # "crashed"

Queued(o)  == {i \in DOMAIN sq : sq[i] = OpEntry(o)}
Reported(o) == {i \in DOMAIN cq : cq[i].kind = "op" /\ cq[i].op = o}
Last(o)    == {i \in DOMAIN cq : cq[i] = Result(o, FALSE)}

One(p) == IF p THEN 1 ELSE 0

(* The references of an operation are the future's, and one that is in the *)
(* entry to be pushed, then with the kernel until its last completion is   *)
(* reaped; they are counted exactly, so memory is neither freed while the  *)
(* kernel may write to it nor kept when nobody has it.                     *)
RefcountExact ==
  \A o \in Ops :
    op[o].refcount = One(op[o].stage \notin {"none", "dropped"})
      + One(op[o].stage = "unsubmitted") + Cardinality(Queued(o))
      + One(o \in armed) + Cardinality(Last(o))

(* The types, NoCrash and RefcountExact, which need each other.            *)
Inv == TypeOK /\ NoCrash /\ RefcountExact

(* Every result of the kernel (a descriptor, a buffer) is taken by the     *)
(* application or cleaned up exactly once, whenever the future is dropped: *)
(* those not consumed are where drain or a poll will find them.            *)
ResultsKept ==
  \A o \in Ops :
    op[o].held = Cardinality(Reported(o)) + Len(op[o].completions)

Fired == {o \in Ops : op[o].wait = "Fired"}

(* No room in the submission queue is forgotten: while some wait and the   *)
(* thread does not sleep, there is a waiter already notified for every     *)
(* free entry, who uses it, or passes it on.                               *)
RoomIsOffered ==
  waiters # <<>> /\ status = "running" /\ at \notin {"asleep", "failed", "crashed"} =>
    Cardinality(Fired) >= SqSize - Len(sq)

(* No wakeup is lost: the task of a future that has something to find, a   *)
(* notification or a result, is to poll it.                                *)
TaskIsWoken ==
  \A o \in Ops :
    /\ op[o].stage = "unsubmitted" /\ op[o].wait # "Linked" => op[o].woken
    /\ op[o].stage = "submitted" /\ op[o].complete => op[o].woken
    /\ op[o].stage = "submitted" /\ o \in Multi /\ op[o].completions # <<>> => op[o].woken

(* A cancellation reaches the operation it is for: although it names an    *)
(* address, and addresses are used again, no live future loses its         *)
(* operation before shutdown.                                              *)
CancelsItsOwn ==
  [][status = "running" /\ status' = "running" =>
       \A o \in cancelled' \ cancelled : op'[o].stage = "dropped"]_vars

(* A dropped operation does not stay in the kernel, unless its             *)
(* cancellation could not be submitted.                                    *)
DroppedIsFreed ==
  \A o \in Ops : op[o].stage = "dropped" ~>
    op[o].stage # "dropped" \/ o \in unsent \/ at \in {"failed", "crashed"}

(* Driver::shutdown ends, or fails. *)
ShutdownEnds == at = "shutdown" ~> at \in {"stopped", "failed", "crashed"}

-----------------------------------------------------------------------------
(* What the documentation says, and the code does not do.                  *)

(* A waiter for room is notified.  A thread that sleeps in the submission  *)
(* that made room notifies nobody before the sleep is over.                *)
WaiterIsNotified ==
  \A o \in Ops : op[o].wait = "Linked" ~> op[o].wait # "Linked" \/ status # "running"
=============================================================================
