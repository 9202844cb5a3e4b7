---------------------------- MODULE ExecutorProofs ----------------------------
(* The thread of the executor never sleeps beside work that nothing of the *)
(* layers asked it to leave, and its drop leaves nothing, for any number   *)
(* of tasks and any queue.                                                 *)
EXTENDS Executor, FiniteSetTheorems, TLAPS

(* A park begins with tasks in the queue only if a layer asked for it.     *)
ParkInv == at = "park" /\ queue # <<>> => broke

(* A mode that is left for the sleep has a reason: a timer, or that there  *)
(* is nothing else to do.                                                  *)
ModeInv ==
  at \in {"submit", "asleep"} =>
    /\ mode = "Timeout" => timers # {}
    /\ mode = "NextCompletion" => ~notified /\ (queue # <<>> => broke)

SleepInv == at = "asleep" => mode # "NoPark"

EInv == TypeOK /\ ParkInv /\ ModeInv /\ SleepInv

(* A set that is woken extends the queue; the empty set does nothing.      *)
LEMMA WakesType ==
  ASSUME TypeOK, NEW set \in SUBSET Futures, Wakes(set)
  PROVE  queue' \in Seq(Tasks) /\ notified' \in BOOLEAN
<1> DEFINE new == {t \in set \cap Tasks \cap alive : ~Queued(t)}
<1>1. IsFiniteSet(new)
  BY ExecutorAssumption, FS_Subset
<1>2. Cardinality(new) \in Nat
  BY <1>1, FS_CardinalityType
<1>3. PICK s \in [1..Cardinality(new) -> new] : queue' = queue \o s
  BY DEF Wakes, Bijection, Injection
<1> HIDE DEF new
<1>4. s \in Seq(new)
  BY <1>2, <1>3
<1>5. new \subseteq Tasks
  BY DEF new
<1>6. s \in Seq(Tasks)
  BY <1>4, <1>5
<1>7. queue' \in Seq(Tasks)
  BY <1>3, <1>6 DEF TypeOK
<1>8. notified' \in BOOLEAN
  BY DEF Wakes
<1> QED
  BY <1>7, <1>8

LEMMA WakesNobody ==
  ASSUME TypeOK, NEW set, set \cap Tasks \cap alive = {}, Wakes(set)
  PROVE  queue' = queue /\ (Root \notin set => (notified' <=> notified))
<1> DEFINE new == {t \in set \cap Tasks \cap alive : ~Queued(t)}
<1>1. new = {} /\ Cardinality(new) = 0
  BY FS_EmptySet
<1>2. PICK s \in [1..Cardinality(new) -> new] : queue' = queue \o s
  BY DEF Wakes, Bijection, Injection
<1>3. s = <<>>
  BY <1>1, <1>2
<1>4. queue' = queue
  BY <1>2, <1>3 DEF TypeOK
<1> QED
  BY <1>4 DEF Wakes

LEMMA FiniteFutures == IsFiniteSet(Futures)
<1>1. IsFiniteSet({Root})
  BY FS_Singleton
<1> QED
  BY <1>1, ExecutorAssumption, FS_Union DEF Futures

(* Those that waited for room are woken with the others.                   *)
LEMMA NotifyType ==
  ASSUME TypeOK, NEW ops \in [Futures -> Stage], NEW n, NEW others \in SUBSET Futures,
         Notify(ops, n, others)
  PROVE  op' \in [Futures -> Stage] /\ queue' \in Seq(Tasks) /\ notified' \in BOOLEAN
<1>1. PICK some \in SUBSET In("waiting") :
        /\ op' = [f \in Futures |-> IF f \in some THEN "none" ELSE ops[f]]
        /\ Wakes(some \cup others)
  BY DEF Notify
<1>2. some \cup others \in SUBSET Futures
  BY DEF In
<1> QED
  BY <1>1, <1>2, WakesType DEF Stage

LEMMA SentType == ASSUME TypeOK PROVE Sent \in [Futures -> Stage]
BY DEF TypeOK, Sent, Stage

(* The three ways in which a future is dropped: with no operation, with    *)
(* one that is cancelled, and with one that cannot be.                     *)
LEMMA DroppedCases ==
  ASSUME NEW f, Dropped(f)
  PROVE  \E woken \in SUBSET (alive \ {f}) :
           \/ op' = [op EXCEPT ![f] = "none"] /\ Wakes(woken) /\ UNCHANGED own
           \/ op[f] # "waiting" /\ Notify(Sent, Entries, woken) /\ own' = "cancel"
           \/ op[f] # "waiting" /\ Wakes(woken) /\ UNCHANGED <<op, own>>
BY DEF Dropped

LEMMA DroppedType ==
  ASSUME TypeOK, NEW f \in Futures, Dropped(f)
  PROVE  /\ queue' \in Seq(Tasks) /\ notified' \in BOOLEAN /\ op' \in [Futures -> Stage]
         /\ alive' \subseteq Futures /\ timers' \subseteq Futures /\ own' \in Own
<1>1. PICK woken \in SUBSET (alive \ {f}) :
        \/ op' = [op EXCEPT ![f] = "none"] /\ Wakes(woken) /\ UNCHANGED own
        \/ op[f] # "waiting" /\ Notify(Sent, Entries, woken) /\ own' = "cancel"
        \/ op[f] # "waiting" /\ Wakes(woken) /\ UNCHANGED <<op, own>>
  BY DroppedCases
<1>2. woken \in SUBSET Futures
  BY DEF TypeOK
<1>3. alive' \subseteq Futures /\ timers' \subseteq Futures /\ own' \in Own
  BY <1>1 DEF TypeOK, Dropped, Own
<1>4. CASE Notify(Sent, Entries, woken)
  BY <1>2, <1>3, <1>4, SentType, NotifyType
<1>5. CASE Wakes(woken) /\ (op' = [op EXCEPT ![f] = "none"] \/ op' = op)
  <2>1. op' \in [Futures -> Stage]
    BY <1>5 DEF TypeOK, Stage
  <2> QED
    BY <1>2, <1>3, <1>5, <2>1, WakesType
<1> QED
  BY <1>1, <1>4, <1>5

LEMMA InitEInv == Init => EInv
<1> SUFFICES ASSUME Init PROVE EInv
  OBVIOUS
<1>1. queue \in Seq(Tasks)
  BY DEF Init
<1>2. TypeOK
  BY <1>1 DEF Init, TypeOK, Futures, Stage, At, ParkMode, Reader, Own
<1>3. ParkInv /\ ModeInv /\ SleepInv
  BY DEF Init, ParkInv, ModeInv, SleepInv
<1> QED
  BY <1>2, <1>3 DEF EInv

(* The poll of a future, which may wake others.                            *)
LEMMA PollRootInv == ASSUME EInv, PollRoot PROVE EInv'
<1>1. TypeOK'
  BY DEF EInv, TypeOK, PollRoot, layers, At, Futures
<1> QED
  BY <1>1 DEF EInv, PollRoot, layers, ParkInv, ModeInv, SleepInv

LEMMA RunTaskInv == ASSUME EInv, RunTask PROVE EInv'
<1>1. Head(queue) \in Tasks /\ Tail(queue) \in Seq(Tasks)
  BY DEF EInv, TypeOK, RunTask
<1>2. TypeOK'
  BY <1>1 DEF EInv, TypeOK, RunTask, layers, At, Futures
<1> QED
  BY <1>2 DEF EInv, RunTask, ParkInv, ModeInv, SleepInv

LEMMA ExhaustedInv == ASSUME EInv, Exhausted PROVE EInv'
<1>1. TypeOK'
  BY DEF EInv, TypeOK, Exhausted, layers, At
<1> QED
  BY <1>1 DEF EInv, Exhausted, ParkInv, ModeInv, SleepInv

(* What a future does leaves the thread where it is.                       *)
LEMMA InPoll ==
  ASSUME EInv, TypeOK', Polling \/ at = "returned", UNCHANGED at
  PROVE  EInv'
BY DEF EInv, Polling, ParkInv, ModeInv, SleepInv

LEMMA WakeInv == ASSUME EInv, NEW f \in Futures, Wake(f) PROVE EInv'
<1>1. queue' \in Seq(Tasks) /\ notified' \in BOOLEAN
  BY WakesType DEF EInv, Wake
<1>2. TypeOK'
  BY <1>1 DEF EInv, TypeOK, Wake, layers
<1> QED
  BY <1>2, InPoll DEF Wake

LEMMA SpawnInv == ASSUME EInv, NEW t \in Futures, Spawn(t) PROVE EInv'
<1>1. queue' \in Seq(Tasks)
  BY DEF EInv, TypeOK, Spawn, Futures
<1>2. TypeOK'
  BY <1>1 DEF EInv, TypeOK, Spawn, layers
<1> QED
  BY <1>2, InPoll DEF Spawn

LEMMA StartInv == ASSUME EInv, StartOp \/ StartTimer PROVE EInv'
<1>1. CASE StartOp
  <2>1. op' \in [Futures -> Stage]
    BY <1>1 DEF EInv, TypeOK, StartOp, Stage
  <2>2. TypeOK'
    BY <1>1, <2>1 DEF EInv, TypeOK, StartOp, layers
  <2> QED
    BY <1>1, <2>2, InPoll DEF StartOp
<1>2. CASE StartTimer
  <2>1. TypeOK'
    BY <1>2 DEF EInv, TypeOK, StartTimer, layers
  <2> QED
    BY <1>2, <2>1, InPoll DEF StartTimer
<1> QED
  BY <1>1, <1>2

(* The end of a poll: if the thread is to park, a layer asked for it.      *)
LEMMA PendInv == ASSUME EInv, Pend PROVE EInv'
<1>1. at' \in {"park", "tasks"} /\ (at' = "park" => broke') /\ broke' \in BOOLEAN
  BY DEF Pend, After
<1>2. queue' \in Seq(Tasks) /\ notified' \in BOOLEAN
  <2>1. CASE Wakes({cur})
    BY <2>1, WakesType DEF EInv, TypeOK
  <2>2. CASE UNCHANGED <<queue, notified>>
    BY <2>2 DEF EInv, TypeOK
  <2> QED
    BY <2>1, <2>2 DEF Pend
<1>3. TypeOK'
  BY <1>1, <1>2 DEF EInv, TypeOK, Pend, layers, At
<1> QED
  BY <1>1, <1>3 DEF EInv, ParkInv, ModeInv, SleepInv

LEMMA FinishInv == ASSUME EInv, Finish \/ Panic \/ Unwind PROVE EInv'
<1>1. CASE Finish
  <2>1. at' \in {"returned", "park", "tasks"} /\ (at' = "park" => broke') /\ broke' \in BOOLEAN
    <3>1. at' \in {"returned", "park", "tasks"}
      BY <1>1 DEF Finish, After
    <3>2. (at' = "park" => broke') /\ broke' \in BOOLEAN
      BY <1>1, Zenon DEF Finish
    <3> QED
      BY <3>1, <3>2
  <2>2. /\ queue' \in Seq(Tasks) /\ notified' \in BOOLEAN /\ op' \in [Futures -> Stage]
        /\ alive' \subseteq Futures /\ timers' \subseteq Futures /\ own' \in Own
    BY <1>1, DroppedType DEF Finish, EInv, TypeOK
  <2>3. TypeOK'
    BY <1>1, <2>1, <2>2 DEF EInv, TypeOK, Finish, At
  <2> QED
    BY <2>1, <2>3 DEF EInv, ParkInv, ModeInv, SleepInv
<1>2. CASE Panic
  <2>1. TypeOK'
    BY <1>2 DEF EInv, TypeOK, Panic, layers, At
  <2> QED
    BY <1>2, <2>1 DEF EInv, Panic, ParkInv, ModeInv, SleepInv
<1>3. CASE Unwind
  <2>1. /\ queue' \in Seq(Tasks) /\ notified' \in BOOLEAN /\ op' \in [Futures -> Stage]
        /\ alive' \subseteq Futures /\ timers' \subseteq Futures /\ own' \in Own
    BY <1>3, DroppedType DEF Unwind, EInv, Futures
  <2>2. TypeOK'
    BY <1>3, <2>1 DEF EInv, TypeOK, Unwind, At
  <2> QED
    BY <1>3, <2>2 DEF EInv, Unwind, ParkInv, ModeInv, SleepInv
<1> QED
  BY <1>1, <1>2, <1>3

LEMMA BlockOnInv == ASSUME EInv, BlockOn PROVE EInv'
<1>1. op' \in [Futures -> Stage]
  <2>1. Root \in Futures /\ \A t \in Tasks : t \in Futures
    BY DEF Futures
  <2>2. op \in [Futures -> Stage] /\ "none" \in Stage
    BY DEF EInv, TypeOK, Stage
  <2>3. op[Root] \in Stage
    BY <2>1, <2>2
  <2> QED
    BY <2>1, <2>2, <2>3 DEF BlockOn
<1>2. TypeOK'
  BY <1>1 DEF EInv, TypeOK, BlockOn, layers, At, Futures
<1> QED
  BY <1>2 DEF EInv, BlockOn, ParkInv, ModeInv, SleepInv

(* The layers: whoever is woken makes the park one that does not sleep, or *)
(* leaves a timer that limits it.                                          *)
LEMMA ParkStepInv == ASSUME EInv, Park PROVE EInv'
<1>1. PICK fired \in SUBSET timers :
        /\ timers' = timers \ fired
        /\ mode' = IF Drains THEN "NoPark"
                   ELSE IF timers' # {} THEN "Timeout"
                   ELSE IF fired # {} THEN "NoPark" ELSE Mode
        /\ Wakes(fired \cup In("done"))
  BY DEF Park
<1>2. fired \cup In("done") \in SUBSET Futures
  BY DEF EInv, TypeOK, In
<1>3. queue' \in Seq(Tasks) /\ notified' \in BOOLEAN
  BY <1>1, <1>2, WakesType DEF EInv
<1>4. TypeOK'
  BY <1>1, <1>3 DEF EInv, TypeOK, Park, Reap, Mode, ParkMode, At, Reader, Stage
<1>5. ModeInv'
  <2> SUFFICES ASSUME mode' = "NextCompletion"
               PROVE  ~notified' /\ (queue' # <<>> => broke')
    BY <1>1 DEF ModeInv, Mode
  <2>1. ~Drains /\ fired = {} /\ ~notified
    BY <1>1 DEF Mode
  <2>2. Wakes({})
    BY <1>1, <2>1 DEF Drains
  <2> QED
    BY <2>1, <2>2, WakesNobody DEF EInv, ParkInv, Park
<1>6. ParkInv' /\ SleepInv'
  BY DEF Park, ParkInv, SleepInv
<1> QED
  BY <1>4, <1>5, <1>6 DEF EInv

LEMMA EntriesType == ASSUME TypeOK PROVE Entries \in Nat /\ NumEntries \in Nat
<1>1. IsFiniteSet(In("pushed"))
  BY FiniteFutures, FS_Subset DEF In
<1>2. Cardinality(In("pushed")) \in Nat
  BY <1>1, FS_CardinalityType
<1>3. Entries \in Nat
  BY <1>2 DEF Entries
<1> QED
  BY <1>3 DEF NumEntries

LEMMA SubmitOnlyInv == ASSUME EInv, SubmitOnly PROVE EInv'
<1>1. op' \in [Futures -> Stage] /\ queue' \in Seq(Tasks) /\ notified' \in BOOLEAN
  BY SentType, NotifyType DEF EInv, SubmitOnly
<1>2. TypeOK'
  BY <1>1 DEF EInv, TypeOK, SubmitOnly, ReadNow, Reader, Taken, Own, At
<1> QED
  BY <1>2 DEF EInv, SubmitOnly, ParkInv, ModeInv, SleepInv

LEMMA SleepStepInv == ASSUME EInv, Sleep PROVE EInv'
<1>1. op' \in [Futures -> Stage]
  BY SentType DEF EInv, Sleep
<1>2. entered' \in Nat
  BY EntriesType DEF EInv, Sleep
<1>3. TypeOK'
  BY <1>1, <1>2 DEF EInv, TypeOK, Sleep, ReadNow, Reader, Taken, Own, At
<1> QED
  BY <1>3 DEF EInv, Sleep, ReadFits, ParkInv, ModeInv, SleepInv

LEMMA EndSleepInv == ASSUME EInv, EndSleep PROVE EInv'
<1>1. op' \in [Futures -> Stage] /\ queue' \in Seq(Tasks) /\ notified' \in BOOLEAN
  BY NotifyType DEF EInv, TypeOK, EndSleep
<1>2. TypeOK'
  BY <1>1 DEF EInv, TypeOK, EndSleep, At
<1> QED
  BY <1>2 DEF EInv, EndSleep, ParkInv, ModeInv, SleepInv

LEMMA TimedOutInv == ASSUME EInv, TimedOut PROVE EInv'
<1>1. CASE EndSleep
  BY <1>1, EndSleepInv
<1>2. CASE ~EndSleep
  <2>1. /\ at' = "panicked"
        /\ UNCHANGED <<queue, notified, alive, op, timers, cur, layers, broke>>
    BY <1>2 DEF TimedOut
  <2>2. TypeOK'
    BY <2>1 DEF EInv, TypeOK, layers, At
  <2> QED
    BY <2>1, <2>2 DEF EInv, ParkInv, ModeInv, SleepInv
<1> QED
  BY <1>1, <1>2

(* The kernel and other threads change nothing that a sleep rests on.      *)
LEMMA OutsideInv ==
  ASSUME EInv, Unpark \/ Kernel
  PROVE  EInv'
<1>1. op' \in [Futures -> Stage] /\ reader' \in Reader /\ own' \in Own
  BY DEF EInv, TypeOK, Unpark, Kernel, KernelCompletes, KernelDrains, layers, Stage, Reader, Own
<1>2. UNCHANGED <<queue, notified, alive, timers, at, cur, mode, entered, broke>>
  BY DEF Unpark, Kernel, KernelCompletes, KernelDrains, layers
<1>3. TypeOK'
  BY <1>1, <1>2 DEF EInv, TypeOK
<1> QED
  BY <1>2, <1>3 DEF EInv, ParkInv, ModeInv, SleepInv

(* The drop of the executor.                                               *)
LEMMA DropsInv == ASSUME EInv, Drop \/ Dropping PROVE EInv'
<1> USE DEF EInv, ParkInv, ModeInv, SleepInv
<1>1. CASE Drop
  <2>1. TypeOK'
    BY <1>1 DEF TypeOK, Drop, layers, At
  <2> QED
    BY <1>1, <2>1 DEF Drop, layers
<1>2. CASE \E f \in Futures : DropFuture(f)
  <2>1. PICK f \in Futures : DropFuture(f)
    BY <1>2
  <2>2. /\ queue' \in Seq(Tasks) /\ notified' \in BOOLEAN /\ op' \in [Futures -> Stage]
        /\ alive' \subseteq Futures /\ timers' \subseteq Futures /\ own' \in Own
    BY <2>1, DroppedType DEF DropFuture
  <2>3. TypeOK'
    BY <2>1, <2>2 DEF TypeOK, DropFuture
  <2> QED
    BY <2>1, <2>3 DEF DropFuture
<1>3. CASE ShutTasks
  <2>1. TypeOK'
    BY <1>3 DEF TypeOK, ShutTasks, layers, At
  <2> QED
    BY <1>3, <2>1 DEF ShutTasks
<1>4. CASE ShutTimers
  <2>1. queue' \in Seq(Tasks) /\ notified' \in BOOLEAN
    BY <1>4, WakesType DEF TypeOK, ShutTimers
  <2>2. TypeOK'
    BY <1>4, <2>1 DEF TypeOK, ShutTimers, layers, At
  <2> QED
    BY <1>4, <2>2 DEF ShutTimers
<1>5. CASE Stop \/ StopFails \/ Drain
  <2>1. op' \in [Futures -> Stage] /\ reader' \in Reader /\ own' \in Own /\ at' \in At
    BY <1>5, SentType DEF TypeOK, Stop, StopFails, Drain, Reap, Taken, Stage, Reader, Own, At
  <2>2. TypeOK'
    BY <1>5, <2>1 DEF TypeOK, Stop, StopFails, Drain
  <2> QED
    BY <1>5, <2>2 DEF Stop, StopFails, Drain
<1> QED
  BY <1>1, <1>2, <1>3, <1>4, <1>5 DEF Dropping

LEMMA StutterInv == ASSUME EInv, UNCHANGED vars PROVE EInv'
<1>1. TypeOK'
  BY DEF EInv, TypeOK, vars
<1> QED
  BY <1>1 DEF EInv, ParkInv, ModeInv, SleepInv, vars

THEOREM ExecutorInductive == Spec => []EInv
<1>1. ASSUME EInv, [Next]_vars PROVE EInv'
  <2>1. CASE Thread
    BY <1>1, <2>1, PollRootInv, RunTaskInv, ExhaustedInv, PendInv, FinishInv, ParkStepInv,
       SubmitOnlyInv, EndSleepInv, TimedOutInv, DropsInv DEF Thread, WakeUp
  <2>2. CASE Poll
    BY <1>1, <2>2, StartInv, PendInv, FinishInv, SpawnInv, WakeInv DEF Poll
  <2>3. CASE Interrupted
    BY <1>1, <2>3, EndSleepInv DEF Interrupted
  <2> QED
    BY <1>1, <2>1, <2>2, <2>3, BlockOnInv, DropsInv, SleepStepInv, OutsideInv, StutterInv DEF Next
<1> QED
  BY <1>1, InitEInv, PTL DEF Spec

(* The thread sleeps beside tasks in its queue only when a layer asked for *)
(* the park or a timer limits the sleep, and beside a root future that is  *)
(* woken only when a timer does.                                           *)
THEOREM NobodyIsForgotten == Spec => []Inv
<1>1. ASSUME EInv PROVE Inv
  <2>1. ASSUME at = "asleep" PROVE mode \in {"NextCompletion", "Timeout"}
    BY <1>1, <2>1 DEF EInv, TypeOK, SleepInv, ParkMode
  <2> QED
    BY <1>1, <2>1 DEF EInv, ModeInv, Inv, SleepsForAReason
<1> QED
  BY <1>1, ExecutorInductive, PTL

-----------------------------------------------------------------------------
(* The drop.  The queue holds every task once.  Until the executor is      *)
(* dropped the tasks in it are alive, and so is the future that is polled, *)
(* which is not in it.                                                     *)
Working == {"root", "polling", "tasks", "running", "park", "submit", "asleep"}
Shut    == {"timers", "stopping", "draining", "dropped", "failed"}

Distinct(q) == \A i, j \in DOMAIN q : q[i] = q[j] => i = j

QueueInv ==
  /\ Distinct(queue)
  /\ at \notin Shut \cup {"dropping"} => \A t \in Tasks : Queued(t) => t \in alive
  /\ Polling => cur \in alive /\ ~Queued(cur)
  /\ at \in Working => Root \in alive
  /\ at = "returned" => Root \notin alive
  /\ (at = "polling" => cur = Root) /\ (at = "running" => cur \in Tasks)

(* Only a future that is alive waits for room or for a timer.              *)
OwnedInv ==
  /\ timers \subseteq alive
  /\ \A f \in Futures : op[f] = "waiting" => f \in alive

(* Each step of the drop is taken with the work of those before it done,   *)
(* and nothing undoes it.                                                  *)
DropInv ==
  /\ at \in Shut => alive = {} /\ queue = <<>>
  /\ own \in {"nop", "sent", "done"} <=> at = "draining"
  /\ at = "draining" =>
       /\ \A f \in Futures : op[f] # "pushed"
       /\ own = "done" => reader # "sent" /\ \A f \in Futures : op[f] # "sent"
  /\ NothingIsLeft

DInv == TypeOK /\ QueueInv /\ OwnedInv /\ DropInv

(* Those that are woken are added to the queue, once.                      *)
LEMMA WakesQueue ==
  ASSUME TypeOK, Distinct(queue), NEW set \in SUBSET Futures, Wakes(set)
  PROVE  /\ Distinct(queue')
         /\ \A x : Queued(x)' => Queued(x) \/ x \in set \cap alive
<1> DEFINE new == {t \in set \cap Tasks \cap alive : ~Queued(t)}
<1>1. IsFiniteSet(new)
  BY ExecutorAssumption, FS_Subset
<1>2. Cardinality(new) \in Nat
  BY <1>1, FS_CardinalityType
<1>3. \A x \in new : ~Queued(x) /\ x \in set \cap alive
  OBVIOUS
<1>4. PICK s \in Bijection(1..Cardinality(new), new) : queue' = queue \o s
  BY DEF Wakes
<1> HIDE DEF new
<1>5. s \in Seq(new) /\ Len(s) = Cardinality(new) /\ IsInjective(s)
  BY <1>2, <1>4 DEF Bijection, Injection
<1>6. Distinct(s)
  BY <1>5 DEF IsInjective, Distinct
<1>7. \A i \in DOMAIN queue' :
        \/ i \in DOMAIN queue /\ queue'[i] = queue[i]
        \/ /\ i - Len(queue) \in DOMAIN s /\ i \notin DOMAIN queue
           /\ queue'[i] = s[i - Len(queue)] /\ queue'[i] \in new
  BY <1>4, <1>5 DEF TypeOK
<1>8. \A x : Queued(x)' => Queued(x) \/ x \in new
  BY <1>7 DEF Queued
<1>9. ASSUME NEW i \in DOMAIN queue', NEW j \in DOMAIN queue', queue'[i] = queue'[j]
      PROVE  i = j
  <2>1. CASE i \in DOMAIN queue /\ j \in DOMAIN queue
    BY <1>7, <1>9, <2>1 DEF Distinct
  <2>2. CASE i \notin DOMAIN queue /\ j \notin DOMAIN queue
    <3>1. i - Len(queue) = j - Len(queue)
      BY <1>6, <1>7, <1>9, <2>2 DEF Distinct
    <3>2. i \in Int /\ j \in Int /\ Len(queue) \in Int
      BY <1>4, <1>5 DEF TypeOK
    <3> QED
      BY <3>1, <3>2
  <2>3. ASSUME NEW k \in DOMAIN queue, NEW x \in new, queue[k] = x PROVE FALSE
    BY <1>3, <2>3 DEF Queued
  <2> QED
    BY <1>7, <1>9, <2>1, <2>2, <2>3
<1> QED
  BY <1>3, <1>8, <1>9 DEF Distinct

(* A wakeup while the executor works.                                      *)
LEMMA WakesAlive ==
  ASSUME DInv, NEW set \in SUBSET Futures, Wakes(set) \/ UNCHANGED <<queue, notified>>
  PROVE  /\ Distinct(queue')
         /\ \A x : Queued(x)' => Queued(x) \/ x \in set \cap alive
<1>1. CASE Wakes(set)
  BY <1>1, WakesQueue DEF DInv, QueueInv
<1>2. CASE UNCHANGED <<queue, notified>>
  BY <1>2 DEF DInv, QueueInv, Queued, Distinct
<1> QED
  BY <1>1, <1>2

LEMMA NotifyD ==
  ASSUME DInv, NEW ops, NEW n, NEW others \in SUBSET Futures, Notify(ops, n, others)
  PROVE  /\ Distinct(queue')
         /\ \A x : Queued(x)' => \/ Queued(x)
                                 \/ x \in alive /\ (op[x] = "waiting" \/ x \in others)
         /\ \A f \in Futures : op'[f] = "waiting" => ops[f] = "waiting"
<1>1. PICK some \in SUBSET In("waiting") :
        /\ op' = [f \in Futures |-> IF f \in some THEN "none" ELSE ops[f]]
        /\ Wakes(some \cup others)
  BY DEF Notify
<1>2. some \cup others \in SUBSET Futures /\ \A x \in some : op[x] = "waiting"
  BY DEF In
<1>3. /\ Distinct(queue')
      /\ \A x : Queued(x)' => Queued(x) \/ x \in (some \cup others) \cap alive
  BY <1>1, <1>2, WakesAlive
<1>4. \A f \in Futures : op'[f] = "waiting" => ops[f] = "waiting"
  BY <1>1
<1> QED
  BY <1>2, <1>3, <1>4

(* What is left of a future that is dropped is the operation it submitted. *)
LEMMA DroppedD ==
  ASSUME DInv, NEW f \in Futures, Dropped(f)
  PROVE  /\ Distinct(queue')
         /\ \A x : Queued(x)' => Queued(x) \/ (x \in alive /\ x # f)
         /\ OwnedInv' /\ own' \in {own, "cancel"}
<1>1. PICK woken \in SUBSET (alive \ {f}) :
        \/ op' = [op EXCEPT ![f] = "none"] /\ Wakes(woken) /\ UNCHANGED own
        \/ op[f] # "waiting" /\ Notify(Sent, Entries, woken) /\ own' = "cancel"
        \/ op[f] # "waiting" /\ Wakes(woken) /\ UNCHANGED <<op, own>>
  BY DroppedCases
<1>2. woken \in SUBSET Futures /\ f \notin woken
  BY DEF DInv, TypeOK
<1>3. /\ Distinct(queue')
      /\ \A x : Queued(x)' => Queued(x) \/ (x \in alive /\ x # f)
  <2>1. CASE Wakes(woken)
    BY <1>2, <2>1, WakesAlive
  <2>2. CASE op[f] # "waiting" /\ Notify(Sent, Entries, woken)
    BY <1>2, <2>2, NotifyD
  <2> QED
    BY <1>1, <2>1, <2>2
<1>4. \A x \in Futures : op'[x] = "waiting" => op[x] = "waiting" /\ x # f
  <2>1. CASE op' = [op EXCEPT ![f] = "none"]
    BY <2>1 DEF DInv, TypeOK
  <2>2. CASE op[f] # "waiting" /\ Notify(Sent, Entries, woken)
    <3>1. \A x \in Futures : op'[x] = "waiting" => Sent[x] = "waiting"
      BY <1>2, <2>2, NotifyD
    <3> QED
      BY <2>2, <3>1 DEF Sent
  <2>3. CASE op[f] # "waiting" /\ op' = op
    BY <2>3
  <2> QED
    BY <1>1, <2>1, <2>2, <2>3
<1>5. alive' = alive \ {f} /\ timers' = timers \ {f}
  BY DEF Dropped
<1>6. OwnedInv'
  BY <1>4, <1>5 DEF DInv, OwnedInv
<1> QED
  BY <1>1, <1>3, <1>6

LEMMA InitDInv == Init => DInv
<1> SUFFICES ASSUME Init PROVE DInv
  OBVIOUS
<1>1. TypeOK
  BY InitEInv DEF EInv
<1>2. QueueInv
  BY DEF Init, QueueInv, Distinct, Queued, Polling, Working, Shut
<1>3. OwnedInv /\ DropInv
  BY DEF Init, OwnedInv, DropInv, Shut, NothingIsLeft
<1> QED
  BY <1>1, <1>2, <1>3 DEF DInv

(* What goes on in the poll of a future.                                   *)
LEMMA RunTaskD == ASSUME DInv, TypeOK', RunTask PROVE DInv'
<1>1. queue # <<>> /\ queue \in Seq(Tasks) /\ cur' = queue[1] /\ queue' = Tail(queue)
  BY DEF RunTask, DInv, TypeOK
<1>2. /\ \A i \in DOMAIN queue' : i + 1 \in DOMAIN queue /\ queue'[i] = queue[i + 1] /\ i \in 1..Len(queue)
      /\ 1 \in DOMAIN queue
  BY <1>1
<1>3. Distinct(queue') /\ (~Queued(cur))' /\ \A x : Queued(x)' => Queued(x)
  <2>1. \A i, j \in DOMAIN queue : queue[i] = queue[j] => i = j
    BY DEF DInv, QueueInv, Distinct
  <2>2. Distinct(queue')
    BY <1>2, <2>1 DEF Distinct
  <2>3. (~Queued(cur))'
    BY <1>1, <1>2, <2>1 DEF Queued
  <2>4. \A x : Queued(x)' => Queued(x)
    BY <1>2 DEF Queued
  <2> QED
    BY <2>2, <2>3, <2>4
<1>4. cur' \in Tasks /\ \E i \in DOMAIN queue : queue[i] = cur'
  BY <1>1, <1>2
<1>5. QueueInv'
  BY <1>3, <1>4 DEF RunTask, DInv, QueueInv, Polling, Working, Shut, Queued
<1>6. OwnedInv' /\ DropInv'
  BY DEF RunTask, layers, DInv, OwnedInv, DropInv, Shut, NothingIsLeft
<1> QED
  BY <1>5, <1>6 DEF DInv

LEMMA PollRootD == ASSUME DInv, TypeOK', PollRoot \/ Exhausted \/ BlockOn PROVE DInv'
<1>1. QueueInv'
  <2>1. CASE PollRoot
    <3>1. ~Queued(Root)
      BY ExecutorAssumption DEF DInv, TypeOK, Queued
    <3> QED
      BY <2>1, <3>1 DEF PollRoot, DInv, QueueInv, Polling, Working, Shut, Queued
  <2>2. CASE Exhausted
    BY <2>2 DEF Exhausted, DInv, QueueInv, Polling, Working, Shut, Queued
  <2>3. CASE BlockOn
    BY <2>3 DEF BlockOn, DInv, QueueInv, Polling, Working, Shut, Queued
  <2> QED
    BY <2>1, <2>2, <2>3
<1>2. OwnedInv'
  <2>1. CASE PollRoot \/ Exhausted
    BY <2>1 DEF PollRoot, Exhausted, layers, DInv, OwnedInv
  <2>2. CASE BlockOn
    <3>1. op[Root] # "waiting"
      BY <2>2 DEF BlockOn, DInv, QueueInv, OwnedInv, Futures
    <3>2. \A x \in Futures : op'[x] = "waiting" => op[x] = "waiting"
      BY <2>2, <3>1, ExecutorAssumption DEF BlockOn, DInv, TypeOK
    <3> QED
      BY <2>2, <3>2 DEF BlockOn, DInv, OwnedInv
  <2> QED
    BY <2>1, <2>2
<1>3. DropInv'
  BY DEF PollRoot, Exhausted, BlockOn, layers, DInv, DropInv, Shut, NothingIsLeft
<1> QED
  BY <1>1, <1>2, <1>3 DEF DInv

LEMMA PollD ==
  ASSUME DInv, TypeOK', StartOp \/ StartTimer \/ Pend \/ \E f \in Futures : Spawn(f) \/ Wake(f)
  PROVE  DInv'
<1>0. ASSUME Polling
      PROVE  cur \in alive /\ (at = "running" => cur # Root)
  BY <1>0, ExecutorAssumption DEF DInv, QueueInv
<1>1. CASE StartOp \/ StartTimer
  <2>1. QueueInv'
    BY <1>1 DEF StartOp, StartTimer, layers, DInv, QueueInv, Polling, Working, Shut, Queued
  <2>2. OwnedInv'
    BY <1>0, <1>1 DEF StartOp, StartTimer, layers, DInv, TypeOK, OwnedInv
  <2>3. DropInv'
    BY <1>1 DEF StartOp, StartTimer, layers, DInv, DropInv, Polling, Shut, NothingIsLeft
  <2> QED
    BY <2>1, <2>2, <2>3 DEF DInv
<1>2. CASE Pend
  <2>0. {cur} \in SUBSET Futures /\ (Wakes({cur}) \/ UNCHANGED <<queue, notified>>)
    BY <1>2 DEF Pend, DInv, TypeOK
  <2>1. Distinct(queue') /\ \A x : Queued(x)' => Queued(x) \/ x \in {cur} \cap alive
    BY <2>0, WakesAlive
  <2>2. at' \in {"park", "tasks"}
    BY <1>2 DEF Pend, After
  <2>3. QueueInv'
    BY <1>2, <2>1, <2>2 DEF Pend, DInv, QueueInv, Polling, Working, Shut
  <2> QED
    BY <1>2, <2>2, <2>3 DEF Pend, layers, DInv, OwnedInv, DropInv, Polling, Shut, NothingIsLeft
<1>3. ASSUME NEW f \in Futures, Spawn(f) PROVE DInv'
  <2>1. ~Queued(f) /\ f \in Tasks
    BY <1>3 DEF Spawn, DInv, QueueInv, Polling, Shut, Futures
  <2>2. \A i \in DOMAIN queue' : IF i \in DOMAIN queue THEN queue'[i] = queue[i]
                                 ELSE i = Len(queue) + 1 /\ queue'[i] = f
    BY <1>3, <2>1 DEF Spawn, DInv, TypeOK
  <2>3. Distinct(queue') /\ \A x : Queued(x)' => Queued(x) \/ x = f
    BY <2>1, <2>2 DEF DInv, QueueInv, Distinct, Queued
  <2>4. QueueInv'
    BY <1>0, <1>3, <2>3 DEF Spawn, layers, DInv, QueueInv, Polling, Working, Shut
  <2> QED
    BY <1>3, <2>4 DEF Spawn, layers, DInv, OwnedInv, DropInv, Polling, Shut, NothingIsLeft
<1>4. ASSUME NEW f \in Futures, Wake(f) PROVE DInv'
  <2>1. Distinct(queue') /\ \A x : Queued(x)' => Queued(x) \/ x \in {f} \cap alive
    BY <1>4, WakesAlive DEF Wake
  <2>2. QueueInv'
    BY <1>4, <2>1 DEF Wake, layers, DInv, QueueInv, Polling, Working, Shut
  <2> QED
    BY <1>4, <2>2 DEF Wake, layers, DInv, OwnedInv, DropInv, Polling, Shut, NothingIsLeft
<1> QED
  BY <1>1, <1>2, <1>3, <1>4

LEMMA FinishD == ASSUME DInv, TypeOK', Finish \/ Panic \/ Unwind PROVE DInv'
<1>1. CASE Finish
  <2>1. cur \in alive /\ ~Queued(cur) /\ (at = "running" => cur # Root)
    BY <1>1, ExecutorAssumption DEF Finish, DInv, QueueInv
  <2>2. at' \in {"returned", "park", "tasks"} /\ (cur = Root <=> at' = "returned")
    BY <1>1 DEF Finish, After
  <2>3. /\ Distinct(queue')
        /\ \A x : Queued(x)' => Queued(x) \/ (x \in alive /\ x # cur)
        /\ OwnedInv' /\ own' \in {own, "cancel"}
    BY <1>1, DroppedD DEF Finish, DInv, TypeOK
  <2>4. alive' = alive \ {cur} /\ cur' = cur
    BY <1>1 DEF Finish, Dropped
  <2>5. at \in {"polling", "running"}
    BY <1>1 DEF Finish, Polling
  <2>6. QueueInv'
    BY <2>1, <2>2, <2>3, <2>4, <2>5 DEF DInv, QueueInv, Polling, Working, Shut
  <2>7. DropInv'
    BY <2>2, <2>3, <2>5 DEF DInv, DropInv, Shut, NothingIsLeft
  <2> QED
    BY <2>3, <2>6, <2>7 DEF DInv
<1>2. CASE Panic
  <2>1. QueueInv'
    BY <1>2 DEF Panic, DInv, QueueInv, Polling, Working, Shut, Queued
  <2> QED
    BY <1>2, <2>1 DEF Panic, layers, DInv, OwnedInv, DropInv, Shut, NothingIsLeft
<1>3. CASE Unwind
  <2>1. Root \in Futures /\ ~Queued(Root)
    BY ExecutorAssumption DEF DInv, TypeOK, Queued, Futures
  <2>2. /\ Distinct(queue')
        /\ \A x : Queued(x)' => Queued(x) \/ (x \in alive /\ x # Root)
        /\ OwnedInv' /\ own' \in {own, "cancel"}
    BY <1>3, <2>1, DroppedD DEF Unwind
  <2>3. at = "panicked" /\ at' = "returned" /\ alive' = alive \ {Root} /\ cur' = cur
    BY <1>3 DEF Unwind, Dropped
  <2>4. QueueInv'
    BY <2>1, <2>2, <2>3 DEF DInv, QueueInv, Polling, Working, Shut
  <2>5. DropInv'
    BY <2>2, <2>3 DEF DInv, DropInv, Shut, NothingIsLeft
  <2> QED
    BY <2>2, <2>4, <2>5 DEF DInv
<1> QED
  BY <1>1, <1>2, <1>3

(* The layers.                                                             *)
LEMMA ParkD == ASSUME DInv, TypeOK', Park PROVE DInv'
<1>1. PICK fired \in SUBSET timers : timers' = timers \ fired /\ Wakes(fired \cup In("done"))
  BY DEF Park
<1>2. fired \cup In("done") \in SUBSET Futures
  BY DEF DInv, TypeOK, In
<1>3. Distinct(queue') /\ \A x : Queued(x)' => Queued(x) \/ x \in alive
  BY <1>1, <1>2, WakesAlive
<1>4. QueueInv'
  BY <1>3 DEF Park, DInv, QueueInv, Polling, Working, Shut
<1>5. OwnedInv'
  BY <1>1 DEF Park, Reap, DInv, OwnedInv
<1> QED
  BY <1>4, <1>5 DEF Park, DInv, DropInv, Shut, NothingIsLeft

LEMMA BackToRoot ==
  ASSUME DInv, at \in Working, at' = "root", UNCHANGED <<alive, timers, cur>>, own' \in {own, "none"},
         NEW ops, NEW n, Notify(ops, n, {}), \A f \in Futures : ops[f] = "waiting" => op[f] = "waiting"
  PROVE  QueueInv' /\ OwnedInv' /\ DropInv'
<1>1. /\ Distinct(queue') /\ \A x : Queued(x)' => Queued(x) \/ x \in alive
      /\ \A f \in Futures : op'[f] = "waiting" => op[f] = "waiting"
  BY NotifyD
<1>2. QueueInv'
  BY <1>1 DEF DInv, QueueInv, Polling, Working, Shut
<1>3. OwnedInv'
  BY <1>1 DEF DInv, OwnedInv
<1>4. DropInv'
  BY DEF DInv, DropInv, Working, Shut, NothingIsLeft
<1> QED
  BY <1>2, <1>3, <1>4

LEMMA SubmitD ==
  ASSUME DInv, TypeOK', SubmitOnly \/ Sleep \/ WakeUp \/ TimedOut \/ Interrupted PROVE DInv'
<1>1. \A f \in Futures : (Sent[f] = "waiting" => op[f] = "waiting")
  BY DEF Sent
<1>2. at \in Working => Taken \in {own, "none"}
  BY DEF Taken
<1>3. CASE SubmitOnly
  BY <1>1, <1>2, <1>3, BackToRoot DEF SubmitOnly, DInv, Working
<1>4. CASE at = "asleep" /\ EndSleep
  BY <1>4, BackToRoot DEF EndSleep, DInv, Working
<1>5. CASE Sleep
  <2>1. QueueInv'
    BY <1>5 DEF Sleep, DInv, QueueInv, Polling, Working, Shut, Queued
  <2>2. OwnedInv'
    BY <1>1, <1>5 DEF Sleep, DInv, OwnedInv
  <2> QED
    BY <1>5, <2>1, <2>2 DEF Sleep, Taken, DInv, DropInv, Shut, NothingIsLeft
<1>6. CASE TimedOut /\ ~EndSleep
  <2>1. at = "asleep" /\ at' = "panicked" /\ UNCHANGED <<queue, notified, alive, op, timers, cur, own>>
    BY <1>6 DEF TimedOut, layers
  <2>2. QueueInv'
    BY <2>1 DEF DInv, QueueInv, Polling, Working, Shut, Queued
  <2> QED
    BY <2>1, <2>2 DEF DInv, OwnedInv, DropInv, Shut, NothingIsLeft
<1> QED
  BY <1>3, <1>4, <1>5, <1>6 DEF WakeUp, TimedOut, Interrupted

(* The drop of the executor.                                               *)
LEMMA DropD == ASSUME DInv, TypeOK', Drop \/ ShutTasks \/ ShutTimers PROVE DInv'
<1>1. CASE Drop
  <2>1. QueueInv'
    BY <1>1 DEF Drop, DInv, QueueInv, Polling, Working, Shut, Queued
  <2> QED
    BY <1>1, <2>1 DEF Drop, layers, DInv, OwnedInv, DropInv, Shut, NothingIsLeft
<1>2. CASE ShutTasks
  <2>1. QueueInv'
    BY <1>2 DEF ShutTasks, DInv, QueueInv, Distinct, Polling, Working, Shut, Queued
  <2> QED
    BY <1>2, <2>1 DEF ShutTasks, layers, DInv, OwnedInv, DropInv, Shut, NothingIsLeft
<1>3. CASE ShutTimers
  <2>1. queue' = queue
    BY <1>3, WakesNobody DEF ShutTimers, DInv, TypeOK, DropInv, Shut
  <2>2. QueueInv'
    BY <1>3, <2>1 DEF ShutTimers, DInv, QueueInv, Polling, Working, Shut, Queued
  <2> QED
    BY <1>3, <2>1, <2>2 DEF ShutTimers, layers, DInv, OwnedInv, DropInv, Shut, NothingIsLeft
<1> QED
  BY <1>1, <1>2, <1>3

LEMMA DropFutureD == ASSUME DInv, TypeOK', NEW f \in Futures, DropFuture(f) PROVE DInv'
<1>1. Distinct(queue') /\ OwnedInv' /\ own' \in {own, "cancel"}
  BY DroppedD DEF DropFuture
<1>2. at = "dropping" /\ at' = "dropping"
  BY DEF DropFuture
<1>3. QueueInv'
  BY <1>1, <1>2 DEF DInv, QueueInv, Polling, Working, Shut
<1>4. DropInv'
  BY <1>1, <1>2 DEF DInv, DropInv, Shut, NothingIsLeft
<1> QED
  BY <1>1, <1>3, <1>4 DEF DInv

LEMMA DrainD == ASSUME DInv, TypeOK', Stop \/ StopFails \/ Drain PROVE DInv'
<1>1. QueueInv'
  BY DEF Stop, StopFails, Drain, DInv, QueueInv, Polling, Working, Shut, Queued
<1>2. OwnedInv'
  BY DEF Stop, StopFails, Drain, Reap, Sent, DInv, OwnedInv
<1>3. CASE Stop
  BY <1>1, <1>2, <1>3 DEF Stop, Sent, DInv, DropInv, Shut, NothingIsLeft
<1>4. CASE StopFails
  BY <1>1, <1>2, <1>4 DEF StopFails, Taken, DInv, DropInv, Shut, NothingIsLeft
<1>5. CASE Drain /\ own # "done"
  <2>1. DropInv'
    BY <1>5 DEF Drain, Reap, DInv, DropInv, Shut, NothingIsLeft
  <2> QED
    BY <1>1, <1>2, <2>1 DEF DInv
<1>6. CASE Drain /\ own = "done"
  <2>1. \A x \in Futures : op[x] \in {"none", "done"}
    BY <1>6 DEF Drain, DInv, TypeOK, OwnedInv, DropInv, Stage, Shut
  <2>2. op' = [x \in Futures |-> "none"]
    BY <1>6, <2>1 DEF Drain, Reap
  <2>3. reader' = "idle"
    BY <1>6 DEF Drain, Reap, DInv, TypeOK, DropInv, Reader
  <2>4. timers = {}
    BY <1>6 DEF Drain, DInv, OwnedInv, DropInv, Shut
  <2>5. DropInv'
    BY <1>6, <2>2, <2>3, <2>4 DEF Drain, DInv, DropInv, Shut, NothingIsLeft
  <2> QED
    BY <1>1, <1>2, <2>5 DEF DInv
<1> QED
  BY <1>3, <1>4, <1>5, <1>6

(* The kernel and other threads.                                           *)
LEMMA OutsideD == ASSUME DInv, TypeOK', Unpark \/ Kernel \/ UNCHANGED vars PROVE DInv'
<1>1. UNCHANGED <<queue, alive, timers, at, cur>>
  BY DEF Unpark, Kernel, KernelCompletes, KernelDrains, layers, vars
<1>2. QueueInv'
  BY <1>1 DEF DInv, QueueInv, Polling, Queued
<1>3. \A x \in Futures : op'[x] = op[x] \/ (op[x] = "sent" /\ op'[x] = "done")
  BY DEF Unpark, Kernel, KernelCompletes, KernelDrains, layers, vars, DInv, TypeOK
<1>4. OwnedInv'
  BY <1>1, <1>3 DEF DInv, OwnedInv
<1>5. CASE at = "dropped"
  BY <1>5, <1>2, <1>4 DEF Unpark, Kernel, KernelCompletes, KernelDrains, layers, vars,
                          DInv, DropInv, NothingIsLeft, Shut
<1>6. CASE at # "dropped"
  <2>1. \/ UNCHANGED own /\ (reader' = "sent" => reader = "sent")
        \/ /\ own = "sent" /\ own' = "done" /\ UNCHANGED <<op, reader>>
           /\ In("sent") = {} /\ reader # "sent"
    BY DEF Unpark, Kernel, KernelCompletes, KernelDrains, layers, vars
  <2>2. DropInv'
    BY <1>1, <1>3, <1>6, <2>1 DEF DInv, DropInv, NothingIsLeft, Shut, In
  <2> QED
    BY <1>2, <1>4, <2>2 DEF DInv
<1> QED
  BY <1>5, <1>6

THEOREM DropInductive == Spec => []DInv
<1>1. ASSUME DInv, TypeOK', [Next]_vars PROVE DInv'
  <2>1. CASE Thread
    BY <1>1, <2>1, PollRootD, RunTaskD, PollD, FinishD, ParkD, SubmitD, DropD, DropFutureD, DrainD
       DEF Thread, Dropping
  <2>2. CASE Poll
    BY <1>1, <2>2, PollD, FinishD DEF Poll
  <2> QED
    BY <1>1, <2>1, <2>2, PollRootD, DropD, SubmitD, OutsideD DEF Next
<1>2. EInv => TypeOK
  BY DEF EInv
<1> QED
  BY <1>1, <1>2, InitDInv, ExecutorInductive, PTL DEF Spec

(* Once it is dropped, nothing is left of the executor: no task, no wakeup *)
(* in the queue, no timer, and nothing in the ring.                        *)
THEOREM DropLeavesNothing == Spec => []NothingIsLeft
<1>1. DInv => NothingIsLeft
  BY DEF DInv, DropInv
<1> QED
  BY <1>1, DropInductive, PTL

-----------------------------------------------------------------------------
(* The drop ends: what TLC checks as DropEnds, as far as it goes without   *)
(* fairness.  Each step takes something off the work that is left: a stage *)
(* of the drop, a future, a stage of an operation, of the read of the      *)
(* eventfd, or of the driver's own entry.                                  *)
Shutting == {"dropping", "timers", "stopping", "draining"}

ToSend == In("pushed")
ToEnd  == In("pushed") \cup In("sent")
ToReap == In("pushed") \cup In("sent") \cup In("done")
OpsLeft == Cardinality(alive) + Cardinality(ToSend) + Cardinality(ToEnd) + Cardinality(ToReap)

StagesLeft ==
  CASE at = "dropping" -> 4 [] at = "timers" -> 3 [] at = "stopping" -> 2
    [] at = "draining" -> 1 [] OTHER -> 0
ReaderLeft == CASE reader = "sent" -> 2 [] reader = "done" -> 1 [] OTHER -> 0
OwnLeft == CASE own = "nop" -> 3 [] own = "sent" -> 2 [] own = "done" -> 1 [] OTHER -> 0

(* A stage makes up for the no-op that the last but one of them pushes. *)
RingLeft == (4 * StagesLeft) + (ReaderLeft + OwnLeft)
DropWork == OpsLeft + RingLeft

DropDescends == [][(at \in Shutting) => DropWork' < DropWork]_vars

(* While it drains the thread has something to reap or an entry of its own *)
(* to see to, or the kernel has an operation to end, or the no-op: these   *)
(* are the guards of Drain, KernelCompletes and KernelDrains.              *)
DrainIsServed ==
  at = "draining" =>
    \/ Drains \/ own \in {"nop", "done"}
    \/ In("sent") # {}
    \/ own = "sent" /\ In("sent") = {} /\ reader # "sent"

(* A subset has fewer elements.                                            *)
LEMMA Fewer ==
  ASSUME NEW S, IsFiniteSet(S), NEW T \in SUBSET S
  PROVE  /\ Cardinality(S) \in Nat /\ Cardinality(T) \in Nat
         /\ Cardinality(T) <= Cardinality(S)
         /\ T # S => Cardinality(T) < Cardinality(S)
<1>1. IsFiniteSet(T) /\ Cardinality(T) <= Cardinality(S) /\ (Cardinality(S) = Cardinality(T) => S = T)
  BY FS_Subset
<1>2. Cardinality(S) \in Nat /\ Cardinality(T) \in Nat
  BY <1>1, FS_CardinalityType
<1> QED
  BY <1>1, <1>2

LEMMA OpsType == ASSUME TypeOK, TypeOK' PROVE OpsLeft \in Nat /\ OpsLeft' \in Nat
<1>1. /\ alive \in SUBSET Futures /\ ToSend \in SUBSET Futures
      /\ ToEnd \in SUBSET Futures /\ ToReap \in SUBSET Futures
  BY DEF TypeOK, ToSend, ToEnd, ToReap, In
<1>2. /\ alive' \in SUBSET Futures /\ ToSend' \in SUBSET Futures
      /\ ToEnd' \in SUBSET Futures /\ ToReap' \in SUBSET Futures
  BY DEF TypeOK, ToSend, ToEnd, ToReap, In
<1> QED
  BY <1>1, <1>2, FiniteFutures, Fewer DEF OpsLeft

(* Operations only go on, and futures only go.                             *)
LEMMA OpsDescend ==
  ASSUME TypeOK, TypeOK', alive' \subseteq alive,
         ToSend' \subseteq ToSend, ToEnd' \subseteq ToEnd, ToReap' \subseteq ToReap
  PROVE  /\ OpsLeft' <= OpsLeft
         /\ alive' # alive \/ ToEnd' # ToEnd \/ ToReap' # ToReap => OpsLeft' < OpsLeft
<1>1. /\ alive \in SUBSET Futures /\ ToSend \in SUBSET Futures
      /\ ToEnd \in SUBSET Futures /\ ToReap \in SUBSET Futures
  BY DEF TypeOK, ToSend, ToEnd, ToReap, In
<1>2. IsFiniteSet(alive) /\ IsFiniteSet(ToSend) /\ IsFiniteSet(ToEnd) /\ IsFiniteSet(ToReap)
  BY <1>1, FiniteFutures, FS_Subset
<1>3. /\ Cardinality(alive) \in Nat /\ Cardinality(alive') \in Nat
      /\ Cardinality(alive') <= Cardinality(alive)
      /\ alive' # alive => Cardinality(alive') < Cardinality(alive)
  BY <1>2, Fewer
<1>4. /\ Cardinality(ToSend) \in Nat /\ Cardinality(ToSend') \in Nat
      /\ Cardinality(ToSend') <= Cardinality(ToSend)
  BY <1>2, Fewer
<1>5. /\ Cardinality(ToEnd) \in Nat /\ Cardinality(ToEnd') \in Nat
      /\ Cardinality(ToEnd') <= Cardinality(ToEnd)
      /\ ToEnd' # ToEnd => Cardinality(ToEnd') < Cardinality(ToEnd)
  BY <1>2, Fewer
<1>6. /\ Cardinality(ToReap) \in Nat /\ Cardinality(ToReap') \in Nat
      /\ Cardinality(ToReap') <= Cardinality(ToReap)
      /\ ToReap' # ToReap => Cardinality(ToReap') < Cardinality(ToReap)
  BY <1>2, Fewer
<1> HIDE DEF ToSend, ToEnd, ToReap
<1> QED
  BY <1>3, <1>4, <1>5, <1>6 DEF OpsLeft

LEMMA LeftTypes ==
  /\ StagesLeft \in Nat /\ ReaderLeft \in Nat /\ OwnLeft \in Nat
  /\ StagesLeft' \in Nat /\ ReaderLeft' \in Nat /\ OwnLeft' \in Nat
  /\ ReaderLeft <= 2 /\ OwnLeft <= 3 /\ ReaderLeft' <= 2 /\ OwnLeft' <= 3
BY DEF StagesLeft, ReaderLeft, OwnLeft

LEMMA RingType == RingLeft \in Nat /\ RingLeft' \in Nat
<1>1. \A s, r, o \in Nat : (4 * s) + (r + o) \in Nat
  OBVIOUS
<1> QED
  BY <1>1, LeftTypes DEF RingLeft

(* Either goes on and the other does not go back.                          *)
LEMMA Descends ==
  ASSUME TypeOK, TypeOK', OpsLeft' <= OpsLeft, RingLeft' <= RingLeft,
         OpsLeft' < OpsLeft \/ RingLeft' < RingLeft
  PROVE  DropWork' < DropWork
BY OpsType, RingType DEF DropWork

(* The parts of the ring.                                                  *)
LEMMA RingDescends ==
  /\ StagesLeft' = StagesLeft /\ ReaderLeft' <= ReaderLeft /\ OwnLeft' <= OwnLeft =>
       /\ RingLeft' <= RingLeft
       /\ ReaderLeft' < ReaderLeft \/ OwnLeft' < OwnLeft => RingLeft' < RingLeft
  /\ StagesLeft' < StagesLeft /\ ReaderLeft' <= ReaderLeft => RingLeft' < RingLeft
<1> DEFINE s == StagesLeft
           t == StagesLeft'
           r == ReaderLeft
           q == ReaderLeft'
           o == OwnLeft
           p == OwnLeft'
<1>1. /\ s \in Nat /\ t \in Nat /\ r \in Nat /\ q \in Nat /\ o \in Nat /\ p \in Nat /\ p <= 3
      /\ RingLeft = (4 * s) + (r + o) /\ RingLeft' = (4 * t) + (q + p)
  BY LeftTypes DEF RingLeft
<1> HIDE DEF s, t, r, q, o, p
<1>2. /\ t = s /\ q <= r /\ p <= o =>
           /\ RingLeft' <= RingLeft
           /\ q < r \/ p < o => RingLeft' < RingLeft
      /\ t < s /\ q <= r => RingLeft' < RingLeft
  BY <1>1
<1> QED
  BY <1>2 DEF s, t, r, q, o, p

(* What is submitted goes to the kernel, and who waited waits no more.     *)
LEMMA SentDescends ==
  ASSUME TypeOK, TypeOK', alive' \subseteq alive,
         \A x \in Futures : \/ op'[x] = Sent[x] \/ op'[x] = op[x]
                           \/ op'[x] = "none"
  PROVE  OpsLeft' <= OpsLeft /\ (alive' # alive => OpsLeft' < OpsLeft)
<1>1. \A x \in Futures : Sent[x] = IF op[x] = "pushed" THEN "sent" ELSE op[x]
  BY DEF Sent
<1>2. ToSend' \subseteq ToSend /\ ToEnd' \subseteq ToEnd /\ ToReap' \subseteq ToReap
  BY <1>1 DEF ToSend, ToEnd, ToReap, In
<1> QED
  BY <1>2, OpsDescend

LEMMA SameOps ==
  ASSUME TypeOK, TypeOK', UNCHANGED <<alive, op>>
  PROVE  OpsLeft' = OpsLeft
BY DEF OpsLeft, ToSend, ToEnd, ToReap, In

LEMMA DropFutureDescends ==
  ASSUME DInv, TypeOK', NEW f \in Futures, DropFuture(f)
  PROVE  DropWork' < DropWork
<1>1. TypeOK /\ alive' \subseteq alive /\ alive' # alive
  BY DEF DInv, DropFuture, Dropped
<1>2. UNCHANGED <<at, reader>> /\ own' \in {own, "cancel"}
  BY DroppedD DEF DropFuture
<1>3. StagesLeft' = StagesLeft /\ ReaderLeft' = ReaderLeft /\ OwnLeft' <= OwnLeft
  BY <1>2 DEF StagesLeft, ReaderLeft, OwnLeft
<1>4. OpsLeft' < OpsLeft
  <2>1. PICK woken \in SUBSET (alive \ {f}) :
          op' = [op EXCEPT ![f] = "none"] \/ Notify(Sent, Entries, woken) \/ op' = op
    BY DroppedCases DEF DropFuture
  <2>2. \A x \in Futures : op'[x] = Sent[x] \/ op'[x] = op[x] \/ op'[x] = "none"
    BY <1>1, <2>1 DEF Notify, TypeOK
  <2> QED
    BY <1>1, <2>2, SentDescends
<1> QED
  BY <1>1, <1>3, <1>4, LeftTypes, OpsType, RingType, RingDescends, Descends

LEMMA ShutDescends ==
  ASSUME DInv, TypeOK', ShutTasks \/ ShutTimers \/ Stop \/ StopFails
  PROVE  DropWork' < DropWork
<1>1. TypeOK
  BY DEF DInv
<1>2. CASE ShutTasks \/ ShutTimers
  <2>1. UNCHANGED <<alive, op, reader, own>>
    BY <1>2 DEF ShutTasks, ShutTimers, layers
  <2>2. StagesLeft' < StagesLeft /\ ReaderLeft' = ReaderLeft /\ OwnLeft' = OwnLeft
    BY <1>2, <2>1 DEF ShutTasks, ShutTimers, StagesLeft, ReaderLeft, OwnLeft
  <2>3. OpsLeft' = OpsLeft
    BY <1>1, <2>1, SameOps
  <2> QED
    BY <1>1, <2>2, <2>3, LeftTypes, OpsType, RingType, RingDescends, Descends
<1>3. CASE Stop \/ StopFails
  <2>1. OpsLeft' <= OpsLeft
    BY <1>1, <1>3, SentDescends DEF Stop, StopFails
  <2>2. StagesLeft' < StagesLeft /\ ReaderLeft' <= ReaderLeft
    BY <1>3 DEF Stop, StopFails, StagesLeft, ReaderLeft
  <2> QED
    BY <1>1, <2>1, <2>2, LeftTypes, OpsType, RingType, RingDescends, Descends
<1> QED
  BY <1>2, <1>3

(* An operation is reaped, or ended by the kernel.                         *)
LEMMA ReapDescends ==
  ASSUME TypeOK, TypeOK', UNCHANGED alive,
         op' = [f \in Futures |-> IF op[f] = "done" THEN "none" ELSE op[f]]
  PROVE  OpsLeft' <= OpsLeft /\ (In("done") # {} => OpsLeft' < OpsLeft)
<1>1. \A x \in Futures : op'[x] = IF op[x] = "done" THEN "none" ELSE op[x]
  OBVIOUS
<1>2. ToSend' \subseteq ToSend /\ ToEnd' \subseteq ToEnd /\ ToReap' \subseteq ToReap
  BY <1>1 DEF ToSend, ToEnd, ToReap, In
<1>3. ASSUME In("done") # {} PROVE ToReap' # ToReap
  <2>1. PICK x \in Futures : op[x] = "done"
    BY <1>3 DEF In
  <2>2. x \in ToReap /\ x \notin ToReap'
    BY <1>1, <2>1 DEF ToReap, In
  <2> QED
    BY <2>2
<1> QED
  BY <1>2, <1>3, OpsDescend

LEMMA DrainDescends ==
  ASSUME DInv, TypeOK', Drain
  PROVE  DropWork' < DropWork
<1>1. TypeOK
  BY DEF DInv
<1>2. OpsLeft' <= OpsLeft /\ (In("done") # {} => OpsLeft' < OpsLeft)
  BY <1>1, ReapDescends DEF Drain, Reap
<1>3. ReaderLeft' <= ReaderLeft /\ (reader = "done" => ReaderLeft' < ReaderLeft)
  BY DEF Drain, Reap, ReaderLeft
<1>4. own \in {"nop", "sent", "done"}
  BY DEF DInv, TypeOK, Own, DropInv, Drain
<1>5. CASE own = "done"
  <2>1. StagesLeft' < StagesLeft /\ OwnLeft' < OwnLeft
    BY <1>5 DEF Drain, StagesLeft, OwnLeft
  <2> QED
    BY <1>1, <1>2, <1>3, <2>1, LeftTypes, OpsType, RingType, RingDescends, Descends
<1>6. CASE own = "nop"
  <2>1. StagesLeft' = StagesLeft /\ OwnLeft' < OwnLeft
    BY <1>6 DEF Drain, StagesLeft, OwnLeft
  <2> QED
    BY <1>1, <1>2, <1>3, <2>1, LeftTypes, OpsType, RingType, RingDescends, Descends
<1>7. CASE own = "sent"
  <2>1. StagesLeft' = StagesLeft /\ OwnLeft' = OwnLeft
    BY <1>7 DEF Drain, StagesLeft, OwnLeft
  <2>2. In("done") # {} \/ reader = "done"
    BY <1>7 DEF Drain, Drains
  <2> QED
    BY <1>1, <1>2, <1>3, <2>1, <2>2, LeftTypes, OpsType, RingType, RingDescends, Descends
<1> QED
  BY <1>4, <1>5, <1>6, <1>7

LEMMA OutsideDescends ==
  ASSUME DInv, TypeOK', Unpark \/ Kernel
  PROVE  DropWork' < DropWork
<1>1. TypeOK
  BY DEF DInv
<1>2. CASE Unpark
  <2>1. OpsLeft' = OpsLeft
    BY <1>1, <1>2, SameOps DEF Unpark
  <2>2. StagesLeft' = StagesLeft /\ ReaderLeft' < ReaderLeft /\ OwnLeft' = OwnLeft
    BY <1>2 DEF Unpark, StagesLeft, ReaderLeft, OwnLeft
  <2> QED
    BY <1>1, <2>1, <2>2, LeftTypes, OpsType, RingType, RingDescends, Descends
<1>3. CASE KernelDrains
  <2>1. OpsLeft' = OpsLeft
    BY <1>1, <1>3, SameOps DEF KernelDrains
  <2>2. StagesLeft' = StagesLeft /\ ReaderLeft' = ReaderLeft /\ OwnLeft' < OwnLeft
    BY <1>3 DEF KernelDrains, StagesLeft, ReaderLeft, OwnLeft
  <2> QED
    BY <1>1, <2>1, <2>2, LeftTypes, OpsType, RingType, RingDescends, Descends
<1>4. ASSUME NEW f \in Futures, KernelCompletes(f) PROVE DropWork' < DropWork
  <2>1. op[f] = "sent" /\ \A x \in Futures : op'[x] = IF x = f THEN "done" ELSE op[x]
    BY <1>1, <1>4 DEF KernelCompletes, TypeOK
  <2>2. ToSend' \subseteq ToSend /\ ToEnd' \subseteq ToEnd /\ ToReap' \subseteq ToReap
    BY <2>1 DEF ToSend, ToEnd, ToReap, In
  <2>3. f \in ToEnd /\ f \notin ToEnd'
    BY <2>1 DEF ToEnd, In
  <2>4. OpsLeft' < OpsLeft /\ OpsLeft' <= OpsLeft
    <3>1. alive' \subseteq alive
      BY <1>4 DEF KernelCompletes
    <3> QED
      BY <1>1, <2>2, <2>3, <3>1, OpsDescend
  <2>5. StagesLeft' = StagesLeft /\ ReaderLeft' = ReaderLeft /\ OwnLeft' = OwnLeft
    BY <1>4 DEF KernelCompletes, layers, StagesLeft, ReaderLeft, OwnLeft
  <2> QED
    BY <1>1, <2>4, <2>5, LeftTypes, OpsType, RingType, RingDescends, Descends
<1> QED
  BY <1>2, <1>3, <1>4 DEF Kernel

(* Every step of the drop, and of the kernel and the other threads while   *)
(* it is under way, takes something off the work that is left of it: the   *)
(* shutdown of the tasks, of the timers and of the ring, and the park that *)
(* drains the ring, end after at most so many steps.                       *)
THEOREM DropStepsAreBounded == Spec => DropDescends
<1>1. ASSUME DInv, TypeOK', Next, at \in Shutting PROVE DropWork' < DropWork
  <2>1. \/ ShutTasks \/ ShutTimers \/ Stop \/ StopFails \/ Drain \/ Unpark \/ Kernel
        \/ \E f \in Futures : DropFuture(f)
    BY <1>1 DEF Shutting, Next, Thread, Poll, Polling, Dropping, PollRoot, RunTask, Exhausted,
       StartOp, StartTimer, Pend, Finish, Panic, Unwind, Spawn, Wake, Park, SubmitOnly, WakeUp,
       Interrupted, TimedOut, BlockOn, Drop, Sleep
  <2> QED
    BY <1>1, <2>1, ShutDescends, DrainDescends, OutsideDescends, DropFutureDescends
<1>2. DInv /\ TypeOK' /\ [Next]_vars => [(at \in Shutting) => DropWork' < DropWork]_vars
  BY <1>1
<1>3. DInv => TypeOK
  BY DEF DInv
<1> QED
  BY <1>2, <1>3, DropInductive, PTL DEF Spec, DropDescends

(* The write of Stop ends the read of the eventfd, and no park of the drop *)
(* starts another.                                                         *)
StopInv == at = "draining" => reader # "sent"

(* While the ring is drained nothing waits for an unpark: the thread has   *)
(* something to reap or the no-op to submit, or else the kernel has an     *)
(* operation to end, or the no-op.                                         *)
THEOREM DrainNeedsNobody == Spec => []DrainIsServed
<1>1. Init => StopInv
  BY DEF Init, StopInv
<1>2. ASSUME StopInv, [Next]_vars PROVE StopInv'
  <2>1. at' = "draining" /\ reader' = "sent" => at = "draining" /\ reader = "sent"
    BY <1>2 DEF vars, layers, Next, Thread, Poll, Polling, Dropping, PollRoot, RunTask, Exhausted,
       StartOp, StartTimer, Pend, After, Finish, Panic, Unwind, Spawn, Wake, Park, SubmitOnly,
       WakeUp, Interrupted, TimedOut, EndSleep, BlockOn, Drop, Sleep, ShutTasks, ShutTimers, Stop,
       StopFails, Drain, Reap, DropFuture, Unpark, Kernel, KernelCompletes, KernelDrains
  <2> QED
    BY <1>2, <2>1 DEF StopInv
<1>3. DInv /\ StopInv => DrainIsServed
  BY DEF DInv, TypeOK, Own, DropInv, StopInv, DrainIsServed
<1> QED
  BY <1>1, <1>2, <1>3, DropInductive, PTL DEF Spec

-----------------------------------------------------------------------------
(* The queue is one: what TLC checks as TaskIsRun rests on it.             *)

(* Whoever is in the queue stays at its place, or moves up by one when the *)
(* first is run, until the queue goes with the executor.                   *)
Keeps(i)   == i \in DOMAIN queue' /\ queue'[i] = queue[i]
MovesUp(i) ==
  /\ at = "tasks" /\ at' = "running"
  /\ IF i = 1 THEN cur' = queue[i] ELSE i - 1 \in DOMAIN queue' /\ queue'[i - 1] = queue[i]

TurnsAreKept ==
  [][\A i \in DOMAIN queue : Keeps(i) \/ MovesUp(i) \/ (at = "dropping" /\ at' = "timers")]_vars

QueueIsShort == Len(queue) <= Cardinality(Tasks)

LEMMA WakesKeep ==
  ASSUME TypeOK, NEW set, Wakes(set), NEW i \in DOMAIN queue
  PROVE  Keeps(i)
<1> DEFINE new == {t \in set \cap Tasks \cap alive : ~Queued(t)}
<1>1. IsFiniteSet(new)
  BY ExecutorAssumption, FS_Subset
<1>2. Cardinality(new) \in Nat
  BY <1>1, FS_CardinalityType
<1>3. PICK s \in [1..Cardinality(new) -> new] : queue' = queue \o s
  BY DEF Wakes, Bijection, Injection
<1> HIDE DEF new
<1>4. s \in Seq(new)
  BY <1>2, <1>3
<1> QED
  BY <1>3, <1>4 DEF TypeOK, Keeps

LEMMA NotifyKeeps ==
  ASSUME TypeOK, NEW ops, NEW n, NEW others, Notify(ops, n, others), NEW i \in DOMAIN queue
  PROVE  Keeps(i)
<1>1. PICK set : Wakes(set)
  BY DEF Notify
<1> QED
  BY <1>1, WakesKeep

LEMMA DroppedKeeps ==
  ASSUME TypeOK, NEW f, Dropped(f), NEW i \in DOMAIN queue
  PROVE  Keeps(i)
<1>1. PICK woken : Wakes(woken) \/ Notify(Sent, Entries, woken)
  BY DroppedCases
<1> QED
  BY <1>1, WakesKeep, NotifyKeeps

(* The thread runs the tasks in the order in which they were queued,       *)
(* whoever wakes them: nothing overtakes a task in the queue, and none is  *)
(* lost before the executor is dropped.                                    *)
THEOREM TasksRunInTurn == Spec => TurnsAreKept
<1>1. ASSUME TypeOK, Next, NEW i \in DOMAIN queue
      PROVE  Keeps(i) \/ MovesUp(i) \/ (at = "dropping" /\ at' = "timers")
  <2>1. CASE UNCHANGED queue
    BY <2>1 DEF Keeps
  <2>2. CASE RunTask
    <3>1. /\ queue # <<>> /\ queue \in Seq(Tasks) /\ cur' = Head(queue) /\ queue' = Tail(queue)
          /\ at = "tasks" /\ at' = "running"
      BY <1>1, <2>2 DEF RunTask, TypeOK
    <3>2. \/ i = 1 /\ cur' = queue[i]
          \/ i # 1 /\ i - 1 \in DOMAIN queue' /\ queue'[i - 1] = queue[i]
      BY <3>1
    <3> QED
      BY <3>1, <3>2 DEF MovesUp
  <2>3. CASE \E set : Wakes(set)
    BY <1>1, <2>3, WakesKeep
  <2>4. CASE \E ops, n, others : Notify(ops, n, others)
    BY <1>1, <2>4, NotifyKeeps
  <2>5. CASE \E f : Dropped(f)
    BY <1>1, <2>5, DroppedKeeps
  <2>6. ASSUME NEW t \in Futures, Spawn(t) PROVE Keeps(i)
    BY <1>1, <2>6 DEF Spawn, TypeOK, Keeps
  <2>7. CASE ShutTasks
    BY <2>7 DEF ShutTasks
  <2> QED
    BY <1>1, <2>1, <2>2, <2>3, <2>4, <2>5, <2>6, <2>7 DEF Next, Thread, Poll, Dropping, PollRoot,
       Exhausted, StartOp, StartTimer, Pend, Finish, Panic, Unwind, Wake, Park, SubmitOnly, WakeUp,
       Interrupted, TimedOut, EndSleep, BlockOn, Drop, Sleep, ShutTimers, Stop, StopFails, Drain,
       DropFuture, Unpark, Kernel, KernelCompletes, KernelDrains
<1>2. TypeOK /\ [Next]_vars =>
        [\A i \in DOMAIN queue : Keeps(i) \/ MovesUp(i) \/ (at = "dropping" /\ at' = "timers")]_vars
  BY <1>1
<1>3. DInv => TypeOK
  BY DEF DInv
<1> QED
  BY <1>2, <1>3, DropInductive, PTL DEF Spec, TurnsAreKept

(* So a task waits for no more turns than there are tasks.                 *)
THEOREM QueueHasRoomForAll == Spec => []QueueIsShort
<1>1. ASSUME DInv PROVE QueueIsShort
  <2>1. queue \in Seq(Tasks) /\ Distinct(queue)
    BY <1>1 DEF DInv, TypeOK, QueueInv
  <2>2. queue \in Injection(1..Len(queue), Tasks)
    BY <2>1 DEF Distinct, Injection, IsInjective
  <2>3. Cardinality(1..Len(queue)) <= Cardinality(Tasks)
    BY <2>2, ExecutorAssumption, FS_Injection
  <2>4. Cardinality(1..Len(queue)) = Len(queue)
    <3>1. Len(queue) \in Nat /\ 1 \in Int /\ Len(queue) \in Int
      BY <2>1
    <3>2. Cardinality(1..Len(queue)) = IF 1 > Len(queue) THEN 0 ELSE Len(queue) - 1 + 1
      BY <3>1, FS_Interval
    <3> QED
      BY <3>1, <3>2
  <2> QED
    BY <2>3, <2>4 DEF QueueIsShort
<1> QED
  BY <1>1, DropInductive, PTL
=============================================================================
