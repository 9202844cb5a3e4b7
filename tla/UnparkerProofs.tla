--------------------------- MODULE UnparkerProofs ---------------------------
(***************************************************************************)
(* Proofs about Unparker, for every set of threads, size of the submission *)
(* queue and number of operations.                                         *)
(***************************************************************************)
EXTENDS Unparker, FiniteSetTheorems, TLAPS

(* Writes of the eventfd that are coming, were made, or were read. *)
Writes == Cardinality(Writers) + eventfd + read["done"]

Sleepy == at \in {"enter", "asleep"} /\ mode # "NoPark"

(* While the driver runs, the status word tells what is under way.  Park   *)
(* unset: no read.  Both bits set: one write at most; otherwise none.  A   *)
(* reactor that is going to sleep has set the park bit when the remote bit *)
(* was not set, so a remote bit it finds later comes with a write.         *)
WordInv ==
  /\ "PARK" \notin flag => Pending(read) = 0
  /\ Writes <= 1
  /\ flag # Bit => Writes = 0
  /\ Sleepy => "PARK" \in flag
  /\ Sleepy /\ "REMOTE" \in flag => Writes = 1

(* The last entry is not pushed yet, and a sleep has submitted everything. *)
QueueInv ==
  /\ nop = "none"
  /\ at = "asleep" => read["queued"] = 0

UInv ==
  /\ TypeOK
  /\ OneRead
  /\ at = "asleep" => mode # "NoPark"
  /\ status = "running" => WordInv /\ QueueInv

-----------------------------------------------------------------------------
(* Moving entries between the stages.                                      *)

(* Moving all queued entries to the kernel keeps their number. *)
LEMMA SubmitAll ==
  ASSUME NEW r \in [Stage -> Nat]
  PROVE  LET m == MoveAll(r, "queued", "armed") IN
         /\ m \in [Stage -> Nat]
         /\ m["queued"] = 0 /\ m["done"] = r["done"]
         /\ Pending(m) = Pending(r)
BY DEF MoveAll, Pending, Stage

(* Completing one armed entry keeps the number of entries. *)
LEMMA CompleteOne ==
  ASSUME NEW r \in [Stage -> Nat], r["armed"] > 0
  PROVE  LET m == Move(r, "armed", "done") IN
         /\ m \in [Stage -> Nat]
         /\ m["queued"] = r["queued"] /\ m["done"] = r["done"] + 1
         /\ Pending(m) = Pending(r)
BY DEF Move, Pending, Stage

(* Taking all completions leaves the other entries. *)
LEMMA TakeDone ==
  ASSUME NEW r \in [Stage -> Nat]
  PROVE  LET m == [r EXCEPT !["done"] = 0] IN
         /\ m \in [Stage -> Nat]
         /\ m["queued"] = r["queued"] /\ m["done"] = 0
         /\ Pending(m) = Pending(r) - r["done"]
BY DEF Pending, Stage

(* Queueing one more entry. *)
LEMMA QueueOne ==
  ASSUME NEW r \in [Stage -> Nat]
  PROVE  LET m == [r EXCEPT !["queued"] = @ + 1] IN
         /\ m \in [Stage -> Nat]
         /\ m["queued"] = r["queued"] + 1 /\ m["done"] = r["done"]
         /\ Pending(m) = Pending(r) + 1
BY DEF Pending, Stage

(* The parts of a count bound its stages. *)
LEMMA Parts ==
  ASSUME NEW r \in [Stage -> Nat]
  PROVE  /\ r["queued"] \in Nat /\ r["armed"] \in Nat /\ r["done"] \in Nat
         /\ Pending(r) \in Nat
         /\ r["queued"] <= Pending(r) /\ r["done"] <= Pending(r)
         /\ Pending(r) = 0 => r["done"] = 0
BY DEF Pending, Stage

(* The writers are finitely many. *)
LEMMA WritersFinite ==
  ASSUME TypeOK
  PROVE  IsFiniteSet(Writers) /\ Cardinality(Writers) \in Nat /\ Writes \in Nat
<1>1. Writers \subseteq Threads
  BY DEF Writers
<1>2. IsFiniteSet(Writers)
  BY <1>1, FS_Subset, UnparkerAssumption
<1>3. Cardinality(Writers) \in Nat
  BY <1>2, FS_CardinalityType
<1> QED
  BY <1>2, <1>3, Parts DEF Writes, TypeOK

(* A wake adds one writer, a write removes one. *)
LEMMA WritersStep ==
  ASSUME TypeOK, NEW t \in Threads
  PROVE  /\ waker[t] = "idle" /\ waker' = [waker EXCEPT ![t] = "write"]
              => Cardinality(Writers') = Cardinality(Writers) + 1
         /\ waker[t] = "idle" /\ waker' = [waker EXCEPT ![t] = "idle"]
              => Writers' = Writers
         /\ waker[t] = "write" /\ waker' = [waker EXCEPT ![t] = "idle"]
              => Cardinality(Writers') = Cardinality(Writers) - 1
<1>1. CASE waker[t] = "idle" /\ waker' = [waker EXCEPT ![t] = "write"]
  <2>1. Writers' = Writers \cup {t} /\ t \notin Writers
    BY <1>1 DEF Writers, TypeOK
  <2> QED
    BY <1>1, <2>1, WritersFinite, FS_AddElement DEF TypeOK
<1>2. CASE waker[t] = "idle" /\ waker' = [waker EXCEPT ![t] = "idle"]
  BY <1>2 DEF Writers, TypeOK
<1>3. CASE waker[t] = "write" /\ waker' = [waker EXCEPT ![t] = "idle"]
  <2>1. Writers' = Writers \ {t} /\ t \in Writers
    BY <1>3 DEF Writers, TypeOK
  <2> QED
    BY <1>3, <2>1, WritersFinite, FS_RemoveElement DEF TypeOK
<1> QED
  <2>1. waker[t] = "idle" => waker[t] # "write"
    OBVIOUS
  <2> QED
    BY <1>1, <1>2, <1>3, <2>1

-----------------------------------------------------------------------------
(* The invariant holds at first, and every step keeps it.                  *)

(* Nothing is under way at first. *)
LEMMA InitOK == Init => UInv
<1> SUFFICES ASSUME Init PROVE UInv
  OBVIOUS
<1>1. Writers = {} /\ Cardinality(Writers) = 0
  BY FS_EmptySet DEF Init, Writers
<1>2. TypeOK
  BY DEF Init, TypeOK, Bit, Stage, At, Mode
<1> QED
  BY <1>1, <1>2, UnparkerAssumption
  DEF Init, UInv, OneRead, Pending, Stage, WordInv, QueueInv, Writes, Sleepy, Bit

(* A wake that must write counts as a write; another changes no count. *)
LEMMA WakeOK == ASSUME NEW t \in Threads, UInv, Wake(t) PROVE UInv'
<1>1. TypeOK'
  BY DEF UInv, TypeOK, Wake, Bit
<1>2. CASE flag = {"PARK"}
  <2>1. Cardinality(Writers') = Cardinality(Writers) + 1
    BY <1>2, WritersStep DEF UInv, Wake
  <2>2. status = "running" => Writes' = 1
    BY <1>2, <2>1, WritersFinite, Parts DEF UInv, WordInv, Writes, Wake, Bit, TypeOK
  <2> QED
    BY <1>1, <1>2, <2>2
    DEF UInv, WordInv, QueueInv, OneRead, Sleepy, Wake, Bit
<1>3. CASE flag # {"PARK"}
  <2>1. Writes' = Writes
    BY <1>3, WritersStep DEF UInv, Wake, Writes
  <2>2. flag' = Bit => flag = Bit \/ "PARK" \notin flag
    BY <1>3 DEF UInv, TypeOK, Wake, Bit
  <2>3. "REMOTE" \in flag' /\ "PARK" \in flag' => flag = Bit
    BY <1>3 DEF UInv, TypeOK, Wake, Bit
  <2>4. "PARK" \in flag <=> "PARK" \in flag'
    BY DEF Wake
  <2> QED
    BY <1>1, <2>1, <2>2, <2>3, <2>4
    DEF UInv, WordInv, QueueInv, OneRead, Sleepy, Wake, Bit
<1> QED
  BY <1>2, <1>3

(* The write of a thread passes from the thread to the eventfd. *)
LEMMA WriteOK == ASSUME NEW t \in Threads, UInv, WriteEventfd(t) PROVE UInv'
<1>1. TypeOK'
  BY DEF UInv, TypeOK, WriteEventfd
<1>2. Cardinality(Writers') = Cardinality(Writers) - 1
  BY WritersStep DEF UInv, WriteEventfd
<1>3. Writes' = Writes
  BY <1>2, WritersFinite, Parts DEF UInv, TypeOK, Writes, WriteEventfd
<1> QED
  BY <1>1, <1>3 DEF UInv, WordInv, QueueInv, OneRead, Sleepy, WriteEventfd

(* Draining takes one from the writes only when it resets the word. *)
LEMMA DrainOK ==
  ASSUME UInv, Drain, waker' = waker, eventfd' = eventfd,
         at' = "submit", mode' \in Mode
  PROVE  UInv'
<1>1. /\ read' \in [Stage -> Nat] /\ ops' \in [Stage -> Nat]
      /\ read'["done"] = 0
      /\ Pending(read') = Pending(read) - read["done"]
      /\ Pending(ops') = Pending(ops) - ops["done"]
  <2>1. read' = [read EXCEPT !["done"] = 0] /\ ops' = [ops EXCEPT !["done"] = 0]
    BY DEF Drain
  <2>2. read \in [Stage -> Nat] /\ ops \in [Stage -> Nat]
    BY DEF UInv, TypeOK
  <2> QED
    BY <2>1, <2>2, TakeDone
<1>2. TypeOK'
  BY <1>1 DEF UInv, TypeOK, Drain, At
<1>3. OneRead'
  BY <1>1, Parts DEF UInv, TypeOK, OneRead
<1>4. Writes' = Writes - read["done"]
  <2>1. Cardinality(Writers') = Cardinality(Writers)
    BY DEF Writers
  <2> QED
    BY <1>1, <2>1, WritersFinite, Parts DEF UInv, TypeOK, Writes
<1>5. ASSUME status' = "running" PROVE WordInv' /\ QueueInv'
  <2>1. status = "running" /\ nop' = "none"
    BY <1>5 DEF Drain, UInv, QueueInv
  <2>2. WordInv /\ QueueInv
    BY <2>1 DEF UInv
  <2>3. /\ read["done"] \in Nat /\ Pending(read) \in Nat
        /\ read["done"] <= Pending(read) /\ Pending(read) <= 1
        /\ Writes \in Nat /\ Writes <= 1 /\ read["done"] <= Writes
    BY <2>2, Parts, WritersFinite DEF UInv, TypeOK, OneRead, WordInv, Writes
  <2>5. CASE read["done"] > 0
    <3>1. flag' = {} /\ Pending(read') = 0 /\ Writes' = 0
      BY <1>1, <1>4, <2>3, <2>5 DEF Drain
    <3> QED
      BY <2>1, <3>1 DEF WordInv, QueueInv, Sleepy, Bit
  <2>6. CASE read["done"] = 0
    <3>1. flag' = flag /\ Pending(read') = Pending(read) /\ Writes' = Writes
      BY <1>1, <1>4, <2>3, <2>6 DEF Drain
    <3> QED
      BY <2>2, <2>1, <3>1 DEF WordInv, QueueInv, Sleepy
  <2> QED
    BY <2>5, <2>6, <2>3
<1> QED
  BY <1>2, <1>3, <1>5 DEF UInv

(* A park that has only drained is not bound to sleep yet. *)
LEMMA ParkOK == ASSUME NEW m \in Mode, UInv, Park(m) PROVE UInv'
<1>1. mode' \in Mode
  BY DEF Park, Mode
<1> QED
  BY <1>1, DrainOK DEF Park

(* The same after EBUSY. *)
LEMMA EnterBusyOK == ASSUME UInv, EnterBusy PROVE UInv'
BY DrainOK DEF EnterBusy, Mode

(* The word says whether a read is pending; only without one another is    *)
(* queued, and only if no wake came first the reactor goes on to sleep.    *)
LEMMA SubmitOK == ASSUME UInv, Submit PROVE UInv'
<1>1. Writes' = Writes
  <2>1. read'["done"] = read["done"]
    BY QueueOne DEF UInv, TypeOK, Submit, Prepare
  <2> QED
    BY <2>1 DEF Writes, Writers, Submit
<1>2. TypeOK'
  BY QueueOne DEF UInv, TypeOK, Submit, Prepare, Bit, At, Mode
<1>3. CASE mode # "NoPark" /\ status = "running"
  <2>1. flag' = flag \cup {"PARK"} /\ Prepare /\ status' = "running"
    BY <1>3 DEF Submit
  <2>2. WordInv /\ QueueInv
    BY <1>3 DEF UInv
  <2>3. mode' # "NoPark" => "REMOTE" \notin flag
    BY <1>3, <2>1 DEF Prepare
  <2>4. flag' = Bit \/ ("REMOTE" \notin flag' /\ Writes = 0)
    BY <2>1, <2>2 DEF UInv, TypeOK, WordInv, Bit
  <2>5. Writes = 0 \/ flag = Bit
    BY <2>2 DEF WordInv
  <2>6. Pending(read') <= 1
    BY <2>1, <2>2, QueueOne, Parts DEF Prepare, UInv, TypeOK, OneRead, WordInv
  <2>8. nop' = nop /\ ops' = ops /\ at' = "enter"
    BY DEF Submit
  <2>9. QueueInv'
    BY <2>2, <2>8 DEF QueueInv
  <2>10. WordInv'
    BY <1>1, <2>1, <2>2, <2>3, <2>4, <2>5 DEF WordInv, Bit, Sleepy
  <2> QED
    BY <1>2, <2>6, <2>8, <2>9, <2>10 DEF UInv, OneRead
<1>4. CASE ~(mode # "NoPark" /\ status = "running")
  BY <1>1, <1>2, <1>4 DEF UInv, OneRead, WordInv, QueueInv, Submit, Sleepy
<1> QED
  BY <1>3, <1>4

(* A push of the application. *)
LEMMA PushOpOK == ASSUME UInv, PushOp PROVE UInv'
<1>1. ops \in [Stage -> Nat] /\ ops' = [ops EXCEPT !["queued"] = @ + 1]
  BY DEF UInv, TypeOK, PushOp
<1>2. ops' \in [Stage -> Nat]
  BY <1>1, QueueOne
<1>4. TypeOK'
  BY <1>2 DEF UInv, TypeOK, PushOp
<1>5. Writes' = Writes
  BY DEF Writes, Writers, PushOp
<1> QED
  BY <1>4, <1>5 DEF UInv, WordInv, QueueInv, OneRead, Sleepy, PushOp

(* The kernel takes the entries; their numbers stay. *)
LEMMA ToKernelOK ==
  ASSUME UInv, ToKernel, UNCHANGED <<flag, eventfd, waker, status, mode>>,
         at' \in At, Sleepy' => Sleepy, at' = "asleep" => mode # "NoPark"
  PROVE  UInv'
<1>1. /\ read' = MoveAll(read, "queued", "armed")
      /\ ops' = MoveAll(ops, "queued", "armed")
      /\ read \in [Stage -> Nat] /\ ops \in [Stage -> Nat]
  BY DEF UInv, TypeOK, ToKernel
<1>2. /\ read' \in [Stage -> Nat] /\ ops' \in [Stage -> Nat]
      /\ read'["queued"] = 0 /\ read'["done"] = read["done"]
      /\ Pending(read') = Pending(read) /\ Pending(ops') = Pending(ops)
  BY <1>1, SubmitAll
<1>3. TypeOK'
  BY <1>2 DEF UInv, TypeOK, ToKernel, Stage
<1>4. Writes' = Writes
  BY <1>2 DEF Writes, Writers
<1>5. nop = "none" => nop' = "none"
  BY DEF ToKernel
<1> QED
  BY <1>2, <1>3, <1>4, <1>5 DEF UInv, WordInv, QueueInv, OneRead

(* Outside of park, no sleep follows. *)
LEMMA SubmitNowOK == ASSUME UInv, SubmitNow PROVE UInv'
<1>1. at' = "run" /\ at' \in At /\ ~Sleepy'
  BY DEF SubmitNow, At, Sleepy
<1> QED
  BY <1>1, ToKernelOK DEF SubmitNow

(* In park, it sleeps unless the mode forbids it. *)
LEMMA EnterOK == ASSUME UInv, Enter PROVE UInv'
<1>1. at' \in At
  BY DEF Enter, Return, At
<1>2. Sleepy' => Sleepy
  BY DEF Enter, Return, Sleepy
<1>3. at' = "asleep" => mode # "NoPark"
  BY DEF Enter, Return
<1> QED
  BY <1>1, <1>2, <1>3, ToKernelOK DEF Enter

(* Steps that only move the reactor's thread, not to a sleep, or only      *)
(* leave the status for another that is not running. *)
LEMMA MoveOK ==
  ASSUME UInv, UNCHANGED <<flag, eventfd, waker, read, ops, nop, status, mode>>,
         at' \in At \ {"enter", "asleep"}
  PROVE  UInv'
<1>1. TypeOK'
  BY DEF UInv, TypeOK
<1>2. Writes' = Writes /\ ~Sleepy'
  BY DEF Writes, Writers, Sleepy
<1> QED
  BY <1>1, <1>2 DEF UInv, WordInv, QueueInv, OneRead

(* A read that completes passes the write on to the completion queue. *)
LEMMA CompleteReadOK == ASSUME UInv, CompleteRead PROVE UInv'
<1>1. /\ read \in [Stage -> Nat] /\ read["armed"] > 0 /\ eventfd > 0
      /\ read' = Move(read, "armed", "done") /\ eventfd' = 0 /\ eventfd \in Nat
  BY DEF UInv, TypeOK, CompleteRead
<1>2. /\ read' \in [Stage -> Nat] /\ Pending(read') = Pending(read)
      /\ read'["queued"] = read["queued"] /\ read'["done"] = read["done"] + 1
  BY <1>1, CompleteOne
<1>3. TypeOK'
  BY <1>1, <1>2 DEF UInv, TypeOK, CompleteRead
<1>4. Cardinality(Writers') = Cardinality(Writers)
  BY DEF Writers, CompleteRead
<1>5. Writes <= 1 => Writes' = Writes
  BY <1>1, <1>2, <1>4, WritersFinite, Parts DEF UInv, Writes
<1> QED
  BY <1>2, <1>3, <1>5
  DEF UInv, WordInv, QueueInv, OneRead, Sleepy, CompleteRead

(* An operation that completes stays pending until it is drained. *)
LEMMA CompleteOpOK == ASSUME UInv, CompleteOp PROVE UInv'
<1>1. /\ ops \in [Stage -> Nat] /\ ops["armed"] > 0
      /\ ops' = Move(ops, "armed", "done")
  BY DEF UInv, TypeOK, CompleteOp
<1>2. ops' \in [Stage -> Nat] /\ Pending(ops') = Pending(ops)
  BY <1>1, CompleteOne
<1>3. TypeOK'
  BY <1>2 DEF UInv, TypeOK, CompleteOp
<1>4. Writes' = Writes
  BY DEF Writes, Writers, CompleteOp
<1> QED
  BY <1>2, <1>3, <1>4 DEF UInv, WordInv, QueueInv, OneRead, Sleepy, CompleteOp

(* The last entry exists only once the driver is no longer running. *)
LEMMA CompleteNopOK == ASSUME UInv, CompleteNop PROVE UInv'
<1>1. status # "running" /\ status' = status
  BY DEF UInv, QueueInv, CompleteNop
<1>2. TypeOK'
  BY DEF UInv, TypeOK, CompleteNop, Stage
<1> QED
  BY <1>1, <1>2 DEF UInv, OneRead, CompleteNop

(* The wake of a shutdown is one more wake. *)
LEMMA ShutdownWakeOK == ASSUME UInv, ShutdownWake PROVE UInv'
<1>1. TypeOK'
  BY DEF UInv, TypeOK, ShutdownWake, Bit, At
<1>2. ~Sleepy' /\ at' # "asleep"
  BY DEF ShutdownWake, Sleepy
<1>3. WordInv /\ QueueInv /\ status' = "running"
  BY DEF ShutdownWake, UInv
<1>4. Cardinality(Writers') = Cardinality(Writers)
  BY DEF Writers, ShutdownWake
<1>5. CASE flag = {"PARK"}
  <2>1. flag' = Bit /\ Writes' = 1
    BY <1>3, <1>4, <1>5, WritersFinite, Parts
    DEF ShutdownWake, Writes, WordInv, Bit, UInv, TypeOK
  <2> QED
    BY <1>1, <1>2, <1>3, <1>5, <2>1
    DEF UInv, WordInv, QueueInv, OneRead, ShutdownWake
<1>6. CASE flag # {"PARK"}
  <2>1. Writes' = Writes
    BY <1>4, <1>6 DEF ShutdownWake, Writes
  <2>2. flag' = Bit => flag = Bit \/ "PARK" \notin flag
    BY <1>6 DEF UInv, TypeOK, ShutdownWake, Bit
  <2>3. "PARK" \notin flag => Writes = 0
    BY <1>3 DEF WordInv, Bit
  <2> QED
    BY <1>1, <1>2, <1>3, <2>1, <2>2, <2>3
    DEF UInv, WordInv, QueueInv, OneRead, ShutdownWake, Bit
<1> QED
  BY <1>5, <1>6

(* Cancelling moves entries to the completion queue and queues no read. *)
LEMMA ShutdownCancelOK == ASSUME UInv, ShutdownCancel PROVE UInv'
<1> DEFINE sent == MoveAll(ops, "queued", "armed")
<1>1. /\ read \in [Stage -> Nat] /\ ops \in [Stage -> Nat]
      /\ Pending(read) <= 1
  BY DEF UInv, TypeOK, OneRead
<1>2. PICK n \in 0..sent["armed"] :
        ops' = [sent EXCEPT !["armed"] = @ - n, !["done"] = @ + n]
  BY DEF ShutdownCancel
<1>3. sent \in [Stage -> Nat]
  BY <1>1, SubmitAll
<1>4. ops' \in [Stage -> Nat]
  <2> HIDE DEF sent
  <2>1. sent["armed"] \in Nat /\ sent["done"] \in Nat
    BY <1>3 DEF Stage
  <2>2. sent["armed"] - n \in Nat /\ sent["done"] + n \in Nat
    BY <1>2, <2>1
  <2> QED
    BY <1>2, <1>3, <2>2
<1>5. read' \in [Stage -> Nat] /\ Pending(read') = Pending(read)
  BY <1>1 DEF ShutdownCancel, MoveAll, Pending, Stage
<1>6. TypeOK'
  BY <1>4, <1>5 DEF UInv, TypeOK, ShutdownCancel, Stage, At
<1> QED
  BY <1>1, <1>5, <1>6 DEF UInv, OneRead, ShutdownCancel

(* A shutdown that fails stops where it is, with all submitted or nothing. *)
LEMMA ShutdownFailsOK == ASSUME UInv, ShutdownFails PROVE UInv'
<1>1. at' \in At \ {"enter", "asleep"} /\ UNCHANGED <<flag, eventfd, waker, status, mode>>
  BY DEF ShutdownFails, At
<1>2. CASE UNCHANGED <<read, ops, nop>>
  BY <1>1, <1>2, MoveOK
<1>3. CASE ToKernel
  BY <1>1, <1>3, ToKernelOK DEF Sleepy
<1> QED
  BY <1>2, <1>3 DEF ShutdownFails

(* A driver that has left "running" does not come back.                    *)
LEMMA StatusFalls == ASSUME [Next]_vars, status' = "running" PROVE status = "running"
BY DEF Next, Reactor, Kernel, Wake, WriteEventfd, PushOp, SubmitNow, Interrupted, BeginShutdown,
       Park, Drain, Submit, Enter, EnterBusy, WakeUp, ShutdownWake, ShutdownCancel, ShutdownFails,
       EndShutdown, CompleteRead, CompleteOp, CompleteNop, vars

(* Every step keeps the invariant. *)
LEMMA StepOK == UInv /\ [Next]_vars => UInv'
<1> SUFFICES ASSUME UInv, [Next]_vars PROVE UInv'
  OBVIOUS
<1>1. CASE \E t \in Threads : Wake(t) \/ WriteEventfd(t)
  BY <1>1, WakeOK, WriteOK
<1>2. CASE PushOp
  BY <1>2, PushOpOK
<1>3. CASE SubmitNow
  BY <1>3, SubmitNowOK
<1>4. CASE \E m \in Mode : Park(m)
  BY <1>4, ParkOK
<1>5. CASE Submit
  BY <1>5, SubmitOK
<1>6. CASE Enter
  BY <1>6, EnterOK
<1>7. CASE EnterBusy
  BY <1>7, EnterBusyOK
<1>8. CASE WakeUp \/ Interrupted \/ BeginShutdown \/ EndShutdown
  <2>1. at' \in At \ {"enter", "asleep"}
    BY <1>8 DEF WakeUp, Interrupted, BeginShutdown, EndShutdown, Return, At
  <2> QED
    BY <1>8, <2>1, MoveOK DEF WakeUp, Interrupted, BeginShutdown, EndShutdown
<1>9. CASE ShutdownWake
  BY <1>9, ShutdownWakeOK
<1>10. CASE ShutdownCancel
  BY <1>10, ShutdownCancelOK
<1>11. CASE Kernel
  BY <1>11, CompleteReadOK, CompleteOpOK, CompleteNopOK DEF Kernel
<1>13. CASE ShutdownFails
  BY <1>13, ShutdownFailsOK
<1>12. CASE UNCHANGED vars
  BY <1>12 DEF UInv, TypeOK, OneRead, WordInv, QueueInv, Writes, Writers, Sleepy,
               vars
<1> QED
  BY <1>1, <1>2, <1>3, <1>4, <1>5, <1>6, <1>7, <1>8, <1>9, <1>10, <1>11, <1>12, <1>13
  DEF Next, Reactor

-----------------------------------------------------------------------------
(* The theorems.                                                           *)

(* The invariant holds always. *)
THEOREM UnparkerInductive == Spec => []UInv
BY InitOK, StepOK, PTL DEF Spec

(* Every variable keeps its type; no stage counts below zero. *)
THEOREM UnparkerTypeCorrect == Spec => []TypeOK
<1>1. UInv => TypeOK
  BY DEF UInv
<1> QED
  BY <1>1, UnparkerInductive, PTL

(* However parks are interrupted, at most one read uses unparker_buf. *)
THEOREM OneReadOnly == Spec => []OneRead
<1>1. UInv => OneRead
  BY DEF UInv
<1> QED
  BY <1>1, UnparkerInductive, PTL

(* However many threads wake the reactor, one of them writes. *)
THEOREM OneWriteOnly == Spec => []OneWrite
<1>1. UInv => OneWrite
  BY DEF UInv, WordInv, OneWrite, Writes
<1> QED
  BY <1>1, UnparkerInductive, PTL

(* The three, as the run checks them. *)
THEOREM UnparkerInvariant == Spec => []Inv
<1>1. TypeOK /\ OneRead /\ OneWrite => Inv
  BY DEF Inv
<1> QED
  BY <1>1, UnparkerTypeCorrect, OneReadOnly, OneWriteOnly, PTL

(* A wake that finds the reactor asleep is brought to it by a write. *)
THEOREM WakesAreUnderWay == Spec => []WakeIsUnderWay
<1>1. ASSUME UInv PROVE WakeIsUnderWay
  <2> SUFFICES ASSUME at = "asleep", status = "running", "REMOTE" \in flag,
                      Writers = {}, ~(eventfd > 0), ~(read["done"] > 0)
               PROVE  FALSE
    BY DEF WakeIsUnderWay
  <2>1. Writes = 1
    BY <1>1 DEF UInv, WordInv, Sleepy
  <2>2. Cardinality(Writers) = 0
    BY FS_EmptySet
  <2>3. eventfd = 0 /\ read["done"] = 0
    BY <1>1, Parts DEF UInv, TypeOK
  <2> QED
    BY <2>1, <2>2, <2>3 DEF Writes
<1> QED
  BY <1>1, UnparkerInductive, PTL

(* The read of the eventfd is lost: the park bit claims that one is under  *)
(* way, and none is.                                                       *)
LostRead == status = "running" /\ "PARK" \in flag /\ Pending(read) = 0

(* The one way to lose it: prepare_park has set the bit and then found the *)
(* queue full.  That park does not sleep.                                  *)
ReadIsRefused == at = "submit" /\ ~RoomForRead /\ mode' = "NoPark"

(* Only a drain takes a read from those that are under way, and resets the *)
(* word; only prepare_park adds to either, but for the remote bit.         *)
LEMMA OthersKeepRead ==
  ASSUME [Next]_vars, read \in [Stage -> Nat], status' = "running", ~Submit, ~Drain
  PROVE  /\ Pending(read') = Pending(read) /\ flag \subseteq flag'
         /\ "PARK" \in flag' => "PARK" \in flag
<1>1. CASE UNCHANGED <<read, flag>>
  BY <1>1
<1>2. CASE \E t \in Threads : Wake(t) \/ WriteEventfd(t)
  BY <1>2 DEF Wake, WriteEventfd
<1>3. CASE ShutdownWake
  BY <1>3 DEF ShutdownWake
<1>4. CASE ToKernel /\ UNCHANGED flag
  BY <1>4, SubmitAll DEF ToKernel
<1>5. CASE CompleteRead
  <2>1. read["armed"] > 0 /\ read' = Move(read, "armed", "done") /\ flag' = flag
    BY <1>5 DEF CompleteRead
  <2> QED
    BY <2>1, CompleteOne
<1>6. CASE ShutdownCancel
  BY <1>6 DEF ShutdownCancel
<1> QED
  BY <1>1, <1>2, <1>3, <1>4, <1>5, <1>6
  DEF Next, Reactor, Kernel, PushOp, SubmitNow, Interrupted, BeginShutdown, Park, Enter, EnterBusy,
      WakeUp, ShutdownFails, EndShutdown, CompleteOp, CompleteNop, vars

LEMMA DrainKeepsRead ==
  ASSUME TypeOK, OneRead, Drain, ~("PARK" \in flag /\ Pending(read) = 0), "PARK" \in flag'
  PROVE  Pending(read') # 0
<1>1. read \in [Stage -> Nat] /\ read' = [read EXCEPT !["done"] = 0]
  BY DEF TypeOK, Drain
<1>2. ~(read["done"] > 0) /\ flag' = flag
  BY DEF Drain
<1>3. Pending(read') = Pending(read) - read["done"]
  BY <1>1, TakeDone
<1>4. read["done"] = 0 /\ Pending(read) \in Nat
  BY <1>1, <1>2, Parts
<1> QED
  BY <1>2, <1>3, <1>4

LEMMA SubmitLoses ==
  ASSUME TypeOK, Submit, ~("PARK" \in flag /\ Pending(read) = 0),
         "PARK" \in flag', Pending(read') = 0
  PROVE  ReadIsRefused
<1>1. read \in [Stage -> Nat] /\ Pending(read) \in Nat
  BY Parts DEF TypeOK
<1>2. mode # "NoPark" /\ status = "running" /\ Prepare
  BY DEF Submit
<1>3. "PARK" \notin flag
  BY <1>2 DEF Prepare
<1>4. ~HasRoom
  <2>1. read' # [read EXCEPT !["queued"] = @ + 1]
    BY <1>1, QueueOne
  <2> QED
    BY <1>2, <1>3, <2>1 DEF Prepare
<1> QED
  BY <1>2, <1>3, <1>4 DEF Submit, Prepare, ReadIsRefused, RoomForRead

(* However full the queue is, the reactor sleeps with its read armed, or   *)
(* else the read was lost; and it is lost by nothing but a push on a full  *)
(* queue: not by EINTR or EBUSY, a timeout, a wake that comes first, or a  *)
(* read that completes late (driver/mod.rs:158-181, unpark.rs:8).          *)
THEOREM SleepsWithItsRead ==
  Spec => [](SleepsWithRead \/ LostRead) /\ [][~LostRead /\ LostRead' => ReadIsRefused]_vars
<1>1. ASSUME UInv PROVE SleepsWithRead \/ LostRead
  <2> SUFFICES ASSUME at = "asleep", status = "running", ~LostRead
               PROVE  read["armed"] + read["done"] = 1
    BY DEF SleepsWithRead
  <2>1. "PARK" \in flag /\ read["queued"] = 0
    BY <1>1 DEF UInv, WordInv, QueueInv, Sleepy
  <2>2. Pending(read) = 1
    BY <1>1, <2>1, Parts DEF UInv, TypeOK, OneRead, LostRead
  <2> QED
    BY <1>1, <2>1, <2>2 DEF UInv, TypeOK, Pending, Stage
<1>2. ASSUME UInv, [Next]_vars, ~LostRead, LostRead' PROVE ReadIsRefused
  <2>1. /\ status = "running" /\ status' = "running"
        /\ read \in [Stage -> Nat] /\ "PARK" \in flag' /\ Pending(read') = 0
    BY <1>2, StatusFalls DEF UInv, TypeOK, LostRead
  <2>2. ~("PARK" \in flag /\ Pending(read) = 0)
    BY <1>2, <2>1 DEF LostRead
  <2>3. CASE Submit
    BY <1>2, <2>1, <2>2, <2>3, SubmitLoses DEF UInv
  <2>4. CASE Drain
    <3>1. TypeOK /\ OneRead
      BY <1>2 DEF UInv
    <3> QED
      BY <2>1, <2>2, <2>4, <3>1, DrainKeepsRead
  <2>5. CASE ~Submit /\ ~Drain
    BY <1>2, <2>1, <2>2, <2>5, OthersKeepRead
  <2> QED
    BY <2>3, <2>4, <2>5
<1>3. UInv /\ [Next]_vars => [~LostRead /\ LostRead' => ReadIsRefused]_vars
  BY <1>2
<1> QED
  BY <1>1, <1>3, UnparkerInductive, PTL DEF Spec

(* The loss is for good (finding 1 of README.md, for every queue): until   *)
(* the driver shuts down no later park arms a read, so that no unpark is   *)
(* heard.                                                                  *)
THEOREM LostForGood == Spec => [][LostRead /\ status' = "running" => LostRead']_vars
<1>1. ASSUME UInv, [Next]_vars, LostRead, status' = "running" PROVE LostRead'
  <2>1. read \in [Stage -> Nat] /\ Pending(read) = 0 /\ read["done"] = 0 /\ "PARK" \in flag
    BY <1>1, Parts DEF UInv, TypeOK, LostRead
  <2>2. CASE Submit
    BY <1>1, <2>1, <2>2 DEF Submit, Prepare, LostRead
  <2>3. CASE Drain
    <3>1. flag' = flag /\ read' = [read EXCEPT !["done"] = 0]
      BY <2>1, <2>3 DEF Drain
    <3>2. Pending(read') = 0
      BY <2>1, <3>1, TakeDone
    <3> QED
      BY <1>1, <2>1, <3>1, <3>2 DEF LostRead
  <2>4. CASE ~Submit /\ ~Drain
    <3>1. Pending(read') = Pending(read) /\ flag \subseteq flag'
      BY <1>1, <2>1, <2>4, OthersKeepRead
    <3> QED
      BY <1>1, <2>1, <3>1 DEF LostRead
  <2> QED
    BY <2>2, <2>3, <2>4
<1>2. UInv /\ [Next]_vars => [LostRead /\ status' = "running" => LostRead']_vars
  BY <1>1
<1> QED
  BY <1>2, UnparkerInductive, PTL DEF Spec

(* The unparker implements the park layer of module Parker: the reactor    *)
(* never goes to sleep over an earlier unpark.                             *)
THEOREM UnparkerIsParker == Spec => ParkerSafety
<1> DEFINE b == mode # "NoPark" /\ at \in {"enter", "asleep"} /\ status = "running"
<1> DEFINE f == b /\ "REMOTE" \in flag
<1>1. Init => P!KInit
  BY DEF Init, P!KInit
<1>2. ASSUME [Next]_vars PROVE (b' /\ ~b => ~f') /\ (b' /\ f => f')
  <2>1. CASE Submit
    <3> SUFFICES ASSUME b' PROVE "REMOTE" \notin flag /\ "REMOTE" \notin flag'
      BY <2>1 DEF Submit
    <3> QED
      BY <2>1 DEF Submit, Prepare
  <2>2. CASE ~Submit
    <3> SUFFICES ASSUME b' PROVE b /\ flag \subseteq flag'
      OBVIOUS
    <3>1. CASE \E t \in Threads : Wake(t) \/ WriteEventfd(t)
      BY <3>1 DEF Wake, WriteEventfd
    <3>2. CASE PushOp \/ SubmitNow \/ BeginShutdown
      BY <3>2 DEF PushOp, SubmitNow, BeginShutdown
    <3>3. CASE Interrupted \/ WakeUp \/ Enter
      BY <3>3 DEF Interrupted, WakeUp, Enter, Return
    <3>4. CASE EnterBusy \/ \E m \in Mode : Park(m)
      BY <3>4 DEF EnterBusy, Park
    <3>5. CASE ShutdownWake \/ ShutdownCancel \/ ShutdownFails \/ EndShutdown
      BY <3>5 DEF ShutdownWake, ShutdownCancel, ShutdownFails, EndShutdown
    <3>6. CASE Kernel
      BY <3>6 DEF Kernel, CompleteRead, CompleteOp, CompleteNop
    <3>7. CASE UNCHANGED vars
      BY <3>7 DEF vars
    <3> QED
      BY <1>2, <2>2, <3>1, <3>2, <3>3, <3>4, <3>5, <3>6, <3>7 DEF Next, Reactor
  <2> QED
    BY <2>1, <2>2
<1>3. ASSUME [Next]_vars PROVE [P!KNext]_(P!kvars)
  <2>1. CASE ~b /\ ~b'
    BY <2>1 DEF P!kvars
  <2>2. CASE ~b /\ b'
    BY <1>2, <1>3, <2>2 DEF P!KNext, P!Block
  <2>3. CASE b /\ ~b'
    BY <2>3 DEF P!KNext, P!Unblock
  <2>4. CASE b /\ b' /\ f /\ f'
    BY <2>4 DEF P!kvars
  <2>5. CASE b /\ b' /\ ~f /\ ~f'
    BY <2>5 DEF P!kvars
  <2>6. CASE b /\ b' /\ ~f /\ f'
    BY <2>6 DEF P!KNext, P!Unpark
  <2> QED
    BY <1>2, <1>3, <2>1, <2>2, <2>3, <2>4, <2>5, <2>6
<1> QED
  BY <1>1, <1>3, PTL DEF Spec, ParkerSafety, P!KSafety

-----------------------------------------------------------------------------
(* The shutdown: what TLC checks as ShutdownEnds, as far as it goes        *)
(* without fairness.                                                       *)

(* While it drains, no read of the eventfd is in the queue or the kernel,  *)
(* and the entry with the DRAIN_TOKEN is on its way, submitted before any  *)
(* sleep.                                                                  *)
EndInv ==
  /\ at \in {"run", "cancel"} => status = "running"
  /\ status = "draining" =>
       /\ read["queued"] = 0 /\ read["armed"] = 0 /\ nop # "none"
       /\ at = "asleep" => nop # "queued"

(* A sleep of the shutdown has a completion, or the kernel has an          *)
(* operation to end, or the last entry: these are the guards of WakeUp,    *)
(* CompleteOp and CompleteNop.                                             *)
ShutdownIsServed ==
  at = "asleep" /\ status = "draining" =>
    \/ Completions
    \/ ops["armed"] > 0
    \/ nop = "armed" /\ read["armed"] = 0 /\ ops["armed"] = 0

LEMMA EndStep == ASSUME UInv, EndInv, [Next]_vars PROVE EndInv'
<1>1. read \in [Stage -> Nat] /\ "queued" \in Stage /\ "armed" \in Stage /\ "done" \in Stage
  BY DEF UInv, TypeOK, Stage
<1>2. CASE ShutdownCancel
  <2>1. read' = MoveAll(MoveAll(read, "queued", "armed"), "armed", "done")
    BY <1>2 DEF ShutdownCancel
  <2>2. read'["queued"] = 0 /\ read'["armed"] = 0
    BY <1>1, <2>1 DEF MoveAll
  <2> QED
    BY <1>2, <2>2 DEF ShutdownCancel, EndInv
<1>3. CASE Drain /\ at' = "submit"
  <2>1. read'["queued"] = read["queued"] /\ read'["armed"] = read["armed"]
    BY <1>1, <1>3 DEF Drain
  <2> QED
    BY <1>3, <2>1 DEF EndInv, Drain
<1>4. CASE Submit
  BY <1>4 DEF Submit, EndInv
<1>10. CASE ShutdownFails
  BY <1>10 DEF ShutdownFails, ToKernel, EndInv
<1>5. CASE Enter \/ SubmitNow
  <2>1. read' = MoveAll(read, "queued", "armed") /\ nop' = IF nop = "queued" THEN "armed" ELSE nop
    BY <1>5 DEF Enter, SubmitNow, ToKernel
  <2>2. read["queued"] = 0 /\ read["armed"] = 0 => read'["queued"] = 0 /\ read'["armed"] = 0
    BY <1>1, <2>1 DEF MoveAll
  <2> QED
    BY <1>5, <2>1, <2>2 DEF EndInv, Enter, SubmitNow, Return
<1>6. CASE CompleteRead
  BY <1>1, <1>6 DEF CompleteRead, EndInv
<1>7. CASE CompleteOp \/ CompleteNop \/ WakeUp \/ Interrupted
  BY <1>7 DEF CompleteOp, CompleteNop, WakeUp, Interrupted, Return, EndInv
<1>8. CASE PushOp \/ BeginShutdown \/ ShutdownWake \/ EndShutdown \/ \E t \in Threads : Wake(t) \/ WriteEventfd(t)
  BY <1>8 DEF PushOp, BeginShutdown, ShutdownWake, EndShutdown, Wake, WriteEventfd, EndInv
<1>9. CASE UNCHANGED vars
  BY <1>9 DEF vars, EndInv
<1> QED
  BY <1>2, <1>3, <1>4, <1>5, <1>6, <1>7, <1>8, <1>9, <1>10 DEF Next, Reactor, Kernel, Park, EnterBusy

(* While the driver shuts down, it sleeps for the kernel alone: a thread   *)
(* that wakes it, or does not, makes no difference.                        *)
THEOREM ShutdownNeedsNobody == Spec => []ShutdownIsServed
<1>1. Init => EndInv
  BY DEF Init, EndInv
<1>2. ASSUME UInv, EndInv PROVE ShutdownIsServed
  <2> SUFFICES ASSUME at = "asleep", status = "draining", ~Completions, ~(ops["armed"] > 0)
               PROVE  nop = "armed" /\ read["armed"] = 0 /\ ops["armed"] = 0
    BY DEF ShutdownIsServed
  <2>1. ops["armed"] \in Nat /\ nop \in {"armed", "done"} /\ read["armed"] = 0
    BY <1>2 DEF UInv, TypeOK, Stage, EndInv
  <2>2. nop # "done" /\ ops["armed"] = 0
    BY <2>1 DEF Completions
  <2> QED
    BY <2>1, <2>2
<1> QED
  BY <1>1, <1>2, EndStep, UnparkerInductive, PTL DEF Spec
=============================================================================
