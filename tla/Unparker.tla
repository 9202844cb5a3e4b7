------------------------------ MODULE Unparker ------------------------------
(***************************************************************************)
(* How the io_uring driver sleeps and is woken: Driver::park, submit,      *)
(* drain and shutdown (norn-uring/src/driver/mod.rs) with the status word  *)
(* and the eventfd of the Unparker (driver/unpark.rs).                     *)
(*                                                                         *)
(* The reactor's thread runs the driver; other threads call unpark.  They  *)
(* share the status word and the eventfd only, so a step is one atomic     *)
(* operation on the word, one system call, or what a thread does between.  *)
(* The kernel completes what was submitted, in any order.  An entry is     *)
(* queued in the submission queue, armed in the kernel, or done and in the *)
(* completion queue.                                                       *)
(***************************************************************************)
EXTENDS Naturals, FiniteSets

CONSTANTS
  Threads,      (* the threads that may call unpark; one of them may be the *)
                (* reactor's own, whose calls come while it is at "run"     *)
  SqSize,       (* entries in the submission queue                          *)
  MaxOps        (* bound: operations of the application that are pending    *)

ASSUME UnparkerAssumption ==
  IsFiniteSet(Threads) /\ SqSize \in Nat \ {0} /\ MaxOps \in Nat

VARIABLES
  flag,      (* Inner::flag of the Unparker: a set of bits                  *)
  eventfd,   (* the counter of the eventfd                                  *)
  waker,     (* whether a thread in wake_inner must still write             *)
  read,      (* how many reads of the eventfd are in each stage             *)
  ops,       (* how many other operations are in each stage                 *)
  nop,       (* the stage of the entry with the DRAIN_TOKEN                 *)
  status,    (* Shared::status                                              *)
  at,        (* where the reactor's thread is                               *)
  mode       (* the ParkMode of the park it is in                           *)

vars == <<flag, eventfd, waker, read, ops, nop, status, at, mode>>

Bit   == {"PARK", "REMOTE"}
Stage == {"queued", "armed", "done"}
Mode  == {"NoPark", "Timeout", "NextCompletion"}

(* Where the reactor's thread can be.                                      *)
(*   run       in block_on, outside Driver::park                           *)
(*   submit    in Driver::park, after the completion queue was drained     *)
(*   enter     after prepare_park, before io_uring_enter                   *)
(*   asleep    in io_uring_enter, waiting for a completion                 *)
(*   shutdown  in the loop of Driver::shutdown                             *)
(*   cancel    the same, after unparker.wake()                             *)
(*   stopped   Driver::shutdown has returned                               *)
(*   failed    it panicked, for one of its two unwraps                     *)
At == {"run", "submit", "enter", "asleep", "shutdown", "cancel", "stopped",
       "failed"}

Move(r, from, to) == [r EXCEPT ![from] = @ - 1, ![to] = @ + 1]
MoveAll(r, from, to) == [r EXCEPT ![from] = 0, ![to] = @ + r[from]]
Pending(r) == r["queued"] + r["armed"] + r["done"]

InQueue == read["queued"] + ops["queued"] + (IF nop = "queued" THEN 1 ELSE 0)
HasRoom == InQueue < SqSize
Completions == read["done"] > 0 \/ ops["done"] > 0 \/ nop = "done"

Return == at' = IF status = "running" THEN "run" ELSE "shutdown"

Init ==
  /\ flag = {} /\ eventfd = 0 /\ waker = [t \in Threads |-> "idle"]
  /\ read = [s \in Stage |-> 0] /\ ops = [s \in Stage |-> 0]
  /\ nop = "none" /\ status = "running" /\ at = "run" /\ mode = "NoPark"

-----------------------------------------------------------------------------
(* Unpark, from any thread.                                                *)

(* mutant: a wake whose bit is not set yet never writes. *)
WakeNever(t) ==
  /\ waker[t] = "idle"
  /\ flag' = flag \cup {"REMOTE"}
  /\ UNCHANGED <<eventfd, waker, read, ops, nop, status, at, mode>>

(* wake_inner: fetch_or, which tells whether the eventfd must be written. *)
Wake(t) ==
  /\ waker[t] = "idle"
  /\ flag' = flag \cup {"REMOTE"}
  /\ waker' = [waker EXCEPT ![t] = IF flag = {"PARK"} THEN "write" ELSE "idle"]
  /\ UNCHANGED <<eventfd, read, ops, nop, status, at, mode>>

WriteEventfd(t) ==
  /\ waker[t] = "write"
  /\ waker' = [waker EXCEPT ![t] = "idle"]
  /\ eventfd' = eventfd + 1
  /\ UNCHANGED <<flag, read, ops, nop, status, at, mode>>

-----------------------------------------------------------------------------
(* The reactor.                                                            *)

ToKernel ==
  /\ read' = MoveAll(read, "queued", "armed")
  /\ ops' = MoveAll(ops, "queued", "armed")
  /\ nop' = IF nop = "queued" THEN "armed" ELSE nop

(* The application pushes an operation. *)
PushOp ==
  /\ at = "run" /\ status = "running"
  /\ HasRoom /\ Pending(ops) < MaxOps
  /\ ops' = [ops EXCEPT !["queued"] = @ + 1]
  /\ UNCHANGED <<flag, eventfd, waker, read, nop, status, at, mode>>

(* To cancel an operation, or to close a descriptor when the queue is      *)
(* full, all entries are submitted at once, without a sleep.               *)
SubmitNow ==
  /\ at = "run" /\ status = "running"
  /\ ToKernel
  /\ UNCHANGED <<flag, eventfd, waker, status, at, mode>>

(* mutant: the status word is reset by a drain that takes no wake token. *)
DrainBlindly ==
  /\ flag' = {}
  /\ status' = IF nop = "done" THEN "shutdown" ELSE status
  /\ nop' = IF nop = "done" THEN "none" ELSE nop
  /\ read' = [read EXCEPT !["done"] = 0]
  /\ ops' = [ops EXCEPT !["done"] = 0]

(* Driver::drain: the wake token resets the status word. *)
Drain ==
  /\ flag' = IF read["done"] > 0 THEN {} ELSE flag
  /\ status' = IF nop = "done" THEN "shutdown" ELSE status
  /\ nop' = IF nop = "done" THEN "none" ELSE nop
  /\ read' = [read EXCEPT !["done"] = 0]
  /\ ops' = [ops EXCEPT !["done"] = 0]

(* Driver::park, which does not sleep if it drained anything. *)
Park(m) ==
  /\ \/ at = "run" /\ status = "running"
     \/ at = "shutdown" /\ status = "draining" /\ m = "NextCompletion"
  /\ Drain
  /\ mode' = IF Completions THEN "NoPark" ELSE m
  /\ at' = "submit"
  /\ UNCHANGED <<eventfd, waker>>

(* mutant: a wake that came before the park is not noticed. *)
PrepareDeaf ==
  IF "PARK" \notin flag /\ HasRoom
  THEN read' = [read EXCEPT !["queued"] = @ + 1] /\ UNCHANGED mode
  ELSE UNCHANGED <<mode, read>>

(* prepare_park: the word says whether a read of the eventfd is pending,   *)
(* and whether a wake came first; either that or a full queue forbids the  *)
(* sleep.                                                                  *)
Prepare ==
  IF "PARK" \in flag
  THEN /\ mode' = IF "REMOTE" \in flag THEN "NoPark" ELSE mode
       /\ UNCHANGED read
  ELSE IF HasRoom
  THEN /\ read' = [read EXCEPT !["queued"] = @ + 1]
       /\ mode' = IF "REMOTE" \in flag THEN "NoPark" ELSE mode
  ELSE mode' = "NoPark" /\ UNCHANGED read

Submit ==
  /\ at = "submit" /\ at' = "enter"
  /\ IF mode # "NoPark" /\ status = "running"
     THEN Prepare /\ flag' = flag \cup {"PARK"}
     ELSE UNCHANGED <<flag, read, mode>>
  /\ UNCHANGED <<eventfd, waker, ops, nop, status>>

(* io_uring_enter takes the entries, and sleeps unless the mode is NoPark. *)
Enter ==
  /\ at = "enter" /\ ToKernel
  /\ IF mode = "NoPark" THEN Return ELSE at' = "asleep"
  /\ UNCHANGED <<flag, eventfd, waker, status, mode>>

(* It takes none and fails with EBUSY, while completions are pending. *)
EnterBusy ==
  /\ at = "enter" /\ Completions
  /\ Drain /\ mode' = "NoPark" /\ at' = "submit"
  /\ UNCHANGED <<eventfd, waker>>

(* It ends with a completion or at its timeout.                            *)
WakeUp ==
  /\ at = "asleep"
  /\ Completions \/ mode = "Timeout"
  /\ Return
  /\ UNCHANGED <<flag, eventfd, waker, read, ops, nop, status, mode>>

(* A signal ends a sleep that has no completion yet: with EINTR, and park  *)
(* tries again with the same mode, or, if entries were taken first, with   *)
(* their number.                                                           *)
Interrupted ==
  /\ at = "asleep" /\ ~Completions
  /\ Return \/ at' = "submit"
  /\ UNCHANGED <<flag, eventfd, waker, read, ops, nop, status, mode>>

(* The kernel. *)
CompleteRead ==
  /\ read["armed"] > 0 /\ eventfd > 0
  /\ read' = Move(read, "armed", "done") /\ eventfd' = 0
  /\ UNCHANGED <<flag, waker, ops, nop, status, at, mode>>

CompleteOp ==
  /\ ops["armed"] > 0
  /\ ops' = Move(ops, "armed", "done")
  /\ UNCHANGED <<flag, eventfd, waker, read, nop, status, at, mode>>

(* An entry with IO_DRAIN waits for all that were submitted before. *)
CompleteNop ==
  /\ nop = "armed" /\ read["armed"] = 0 /\ ops["armed"] = 0
  /\ nop' = "done"
  /\ UNCHANGED <<flag, eventfd, waker, read, ops, status, at, mode>>

-----------------------------------------------------------------------------
(* Driver::shutdown, called when the executor is dropped.                  *)

BeginShutdown ==
  /\ at = "run" /\ status = "running" /\ at' = "shutdown"
  /\ UNCHANGED <<flag, eventfd, waker, read, ops, nop, status, mode>>

ShutdownWake ==
  /\ at = "shutdown" /\ status = "running" /\ at' = "cancel"
  /\ flag' = flag \cup {"REMOTE"}
  /\ eventfd' = IF flag = {"PARK"} THEN eventfd + 1 ELSE eventfd
  /\ UNCHANGED <<waker, read, ops, nop, status, mode>>

(* mutant: nothing is cancelled. *)
ShutdownWaits ==
  /\ at = "cancel" /\ at' = "shutdown"
  /\ ops' = MoveAll(ops, "queued", "armed")
  /\ read' = MoveAll(read, "queued", "armed")
  /\ nop' = "queued" /\ status' = "draining"
  /\ UNCHANGED <<flag, eventfd, waker, mode>>

(* Everything is submitted and then cancelled; an operation that cannot be *)
(* cancelled completes by itself.  The queue is empty then, so the entry   *)
(* with the DRAIN_TOKEN finds room.                                        *)
ShutdownCancel ==
  /\ at = "cancel" /\ at' = "shutdown"
  /\ LET submitted == MoveAll(ops, "queued", "armed") IN
     \E n \in 0..submitted["armed"] :
       ops' = [submitted EXCEPT !["armed"] = @ - n, !["done"] = @ + n]
  /\ read' = MoveAll(MoveAll(read, "queued", "armed"), "armed", "done")
  /\ nop' = "queued" /\ status' = "draining"
  /\ UNCHANGED <<flag, eventfd, waker, mode>>

(* The submission fails with EBUSY while completions are pending, and      *)
(* takes nothing; or all was submitted, and a signal ends the synchronous  *)
(* cancellation.  Both results are unwrapped.                              *)
ShutdownFails ==
  /\ at = "cancel" /\ at' = "failed"
  /\ \/ Completions /\ UNCHANGED <<read, ops, nop>>
     \/ ToKernel
  /\ UNCHANGED <<flag, eventfd, waker, status, mode>>

EndShutdown ==
  /\ at = "shutdown" /\ status = "shutdown" /\ at' = "stopped"
  /\ UNCHANGED <<flag, eventfd, waker, read, ops, nop, status, mode>>

-----------------------------------------------------------------------------
Reactor ==
  \/ (\E m \in Mode : Park(m)) \/ Submit \/ Enter \/ EnterBusy \/ WakeUp
  \/ ShutdownWake \/ ShutdownCancel \/ ShutdownFails \/ EndShutdown

Kernel == CompleteRead \/ CompleteOp \/ CompleteNop

Next ==
  \/ \E t \in Threads : Wake(t) \/ WriteEventfd(t)
  \/ PushOp \/ SubmitNow \/ Interrupted \/ BeginShutdown
  \/ Reactor
  \/ Kernel

Spec == Init /\ [][Next]_vars

(* The reactor's thread runs, a thread that must write does, and the       *)
(* kernel completes a read that has data, an entry that has nothing to     *)
(* wait for, and, once all was cancelled, every operation.  Before that an *)
(* operation may take forever; the application and signals owe nothing.    *)
Fairness ==
  /\ WF_vars(Reactor)
  /\ \A t \in Threads : WF_vars(WriteEventfd(t))
  /\ WF_vars(CompleteRead) /\ WF_vars(CompleteNop)
  /\ WF_vars(CompleteOp /\ status # "running")

FairSpec == Spec /\ Fairness

-----------------------------------------------------------------------------
(* Properties.                                                             *)

TypeOK ==
  /\ flag \subseteq Bit /\ eventfd \in Nat
  /\ waker \in [Threads -> {"idle", "write"}]
  /\ read \in [Stage -> Nat] /\ ops \in [Stage -> Nat]
  /\ nop \in Stage \cup {"none"}
  /\ status \in {"running", "draining", "shutdown"}
  /\ at \in At /\ mode \in Mode

(* At most one read of the eventfd is under way, whatever interrupts a     *)
(* park: the kernel writes to the one unparker_buf.                        *)
OneRead == Pending(read) <= 1

Writers == {t \in Threads : waker[t] = "write"}

(* A wakeup costs one write: however many threads wake the reactor between *)
(* two resets of the status word, one of them writes the eventfd, and no   *)
(* late write is left over for the next park.                              *)
OneWrite ==
  status = "running" => Cardinality(Writers) + eventfd + read["done"] <= 1

(* The types, OneRead, and OneWrite.                                       *)
Inv == TypeOK /\ OneRead /\ OneWrite

(* A thread that found the reactor parking, and only that one, brings the  *)
(* eventfd's read to an end: while the reactor sleeps, a set remote bit    *)
(* means that the write is coming, or was made, or was read.               *)
WakeIsUnderWay ==
  at = "asleep" /\ status = "running" /\ "REMOTE" \in flag =>
    Writers # {} \/ eventfd > 0 \/ read["done"] > 0

(* unpark.rs:8: the reactor registers a read of the eventfd before it      *)
(* sleeps.                                                                 *)
SleepsWithRead ==
  at = "asleep" /\ status = "running" => read["armed"] + read["done"] = 1

(* The unparker keeps the promise of a park layer.                         *)
P == INSTANCE Parker WITH
  blocked <- mode # "NoPark" /\ at \in {"enter", "asleep"} /\ status = "running",
  forced  <- /\ mode # "NoPark" /\ at \in {"enter", "asleep"}
             /\ status = "running" /\ "REMOTE" \in flag

ParkerSafety == P!KSafety
ParkerReturns == P!Returns

(* It does return if the queue has room for the read whenever one is to be *)
(* queued: a later wake finds its way into any sleep.                      *)
RoomForRead ==
  at = "submit" /\ mode # "NoPark" /\ "PARK" \notin flag => HasRoom

ParkerReturnsWithRoom == []RoomForRead => ParkerReturns

(* Driver::shutdown ends, whatever is in flight and whoever wakes, unless  *)
(* it panics because its submission or its cancellation fails; once these  *)
(* have succeeded it does end.                                             *)
ShutdownEnds ==
  /\ at = "shutdown" ~> at \in {"stopped", "failed"}
  /\ status = "draining" ~> at = "stopped"

(* unpark.rs:22: the remote thread that sets the remote bit writes the     *)
(* eventfd, whose read unsets both bits (unpark.rs:64): a word with both   *)
(* bits means a write, or the read of it, that will reset it.              *)
RemoteIsWritten ==
  status = "running" /\ flag = Bit =>
    Writers # {} \/ eventfd > 0 \/ read["done"] > 0
=============================================================================
