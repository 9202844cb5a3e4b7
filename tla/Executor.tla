------------------------------ MODULE Executor ------------------------------
(***************************************************************************)
(* LocalExecutor::block_on (norn-executor/lib.rs, wakerfn.rs) over the two *)
(* layers it is used with: the timers, which turn a park into a timed one  *)
(* (norn-timer/lib.rs), and io_uring (norn-uring/driver/mod.rs).  One      *)
(* thread runs the root future, the tasks and the layers; the kernel, the  *)
(* clock and unparks from other threads act at any time.  In the end the   *)
(* executor is dropped, with whatever is left.                             *)
(*                                                                         *)
(* A future is a sequence of choices: to wake another, to start an         *)
(* operation or a timer, and to end its poll.  Task, Wheels, Operations    *)
(* and Unparker model what is inside of each; here is what becomes of the  *)
(* wakeups, and when the thread sleeps.                                    *)
(***************************************************************************)
EXTENDS Naturals, Sequences, FiniteSets, Functions

CONSTANTS
  Tasks,     (* tasks                                                      *)
  Root,      (* the future of block_on                                     *)
  SqSize     (* entries in the submission queue                            *)

ASSUME ExecutorAssumption ==
  IsFiniteSet(Tasks) /\ Root \notin Tasks /\ SqSize \in Nat \ {0}

Futures == Tasks \cup {Root}

VARIABLES
  queue,      (* the TaskQueue                                             *)
  notified,   (* poll_root, set by the waker of the root future            *)
  alive,      (* futures that have not completed                           *)
  op,         (* the operation that each future waits for                  *)
  timers,     (* futures that wait for a timer                             *)
  at,         (* where the thread is                                       *)
  cur,        (* the future being polled                                   *)
  mode,       (* the ParkMode of the park under way                        *)
  reader,     (* the read of the eventfd by which another thread unparks   *)
  entered,    (* how many entries the sleep under way submitted            *)
  broke,      (* whether the park under way was asked for by needs_park    *)
  own         (* the driver's own entry: the cancellation of a dropped     *)
              (* operation in the queue, then the no-op that drains        *)

vars == <<queue, notified, alive, op, timers, at, cur, mode, reader, entered, broke, own>>
layers == <<mode, reader, entered, own>>

(* An operation waits for room in the submission queue, is in it, in the   *)
(* kernel, or in the completion queue.                                     *)
Stage == {"none", "waiting", "pushed", "sent", "done"}
Reader == {"idle", "sent", "done"}
ParkMode == {"NoPark", "NextCompletion", "Timeout"}
At == {"root", "polling", "tasks", "running", "park", "submit", "asleep",
       "returned", "panicked", "dropping", "timers", "stopping", "draining",
       "dropped", "failed"}
Own == {"none", "cancel", "nop", "sent", "done"}

In(stage) == {f \in Futures : op[f] = stage}
Entries   == Cardinality(In("pushed")) + IF own = "cancel" THEN 1 ELSE 0
Full      == Entries = SqSize
Queued(f) == \E i \in DOMAIN queue : queue[i] = f

Init ==
  /\ queue = <<>> /\ notified = FALSE /\ alive = {}
  /\ op = [f \in Futures |-> "none"] /\ timers = {}
  /\ at = "returned" /\ cur = Root /\ mode = "NoPark"
  /\ reader = "idle" /\ entered = 0 /\ broke = FALSE /\ own = "none"

(* mutant: a task that is woken is the next to run. *)
WakesFirst(set) ==
  LET new == {t \in set \cap Tasks \cap alive : ~Queued(t)} IN
  /\ \E s \in Bijection(1..Cardinality(new), new) : queue' = s \o queue
  /\ notified' = (notified \/ Root \in set)

(* Those of a set that are woken: the tasks are queued in some order,      *)
(* unless they are; the root future is marked.                             *)
Wakes(set) ==
  LET new == {t \in set \cap Tasks \cap alive : ~Queued(t)} IN
  /\ \E s \in Bijection(1..Cardinality(new), new) : queue' = queue \o s
  /\ notified' = (notified \/ Root \in set)

(* Completions are pending: they forbid a sleep, end one, and may make a   *)
(* submission fail (EBUSY).                                                *)
Drains == In("done") # {} \/ reader = "done"

(* io_uring_enter takes all entries of the queue.                          *)
Sent  == [f \in Futures |-> IF op[f] = "pushed" THEN "sent" ELSE op[f]]
Taken == IF own = "cancel" THEN "none" ELSE own

(* backpressure.notify(n): of those that waited for room as many are woken *)
(* to try again, beside the others that are woken.                         *)
Notify(ops, n, others) ==
  \E some \in SUBSET In("waiting") :
    /\ Cardinality(some) = IF n < Cardinality(In("waiting")) THEN n ELSE Cardinality(In("waiting"))
    /\ op' = [f \in Futures |-> IF f \in some THEN "none" ELSE ops[f]]
    /\ Wakes(some \cup others)

(* The drop of a future, whose destructor wakes whom it likes.  It takes   *)
(* its timer along, and gives up its wait for room.  An operation that it  *)
(* has submitted is left behind until it is over, and is cancelled: all    *)
(* entries go to the kernel, and one to cancel it into the queue, unless   *)
(* that submission fails.                                                  *)
Dropped(f) ==
  /\ alive' = alive \ {f} /\ timers' = timers \ {f}
  /\ \E woken \in SUBSET (alive \ {f}) :
       \/ /\ op[f] \in {"none", "waiting"} /\ op' = [op EXCEPT ![f] = "none"]
          /\ Wakes(woken) /\ UNCHANGED own
       \/ /\ op[f] \notin {"none", "waiting"}
          /\ Notify(Sent, Entries, woken) /\ own' = "cancel"
       \/ /\ op[f] \notin {"none", "waiting"} /\ Drains
          /\ Wakes(woken) /\ UNCHANGED <<op, own>>

-----------------------------------------------------------------------------
(* FutureHarness::try_poll, and the loop over the tasks.                   *)

PollRoot ==
  /\ at = "root" /\ cur' = Root /\ notified' = FALSE /\ broke' = FALSE
  /\ at' = IF notified THEN "polling" ELSE "tasks"
  /\ UNCHANGED <<queue, alive, op, timers, layers>>

RunTask ==
  /\ at = "tasks" /\ queue # <<>>
  /\ cur' = Head(queue) /\ queue' = Tail(queue) /\ at' = "running"
  /\ UNCHANGED <<notified, alive, op, timers, layers, broke>>

(* mutant: the loop is left after one task. *)
ExhaustedEarly ==
  /\ at = "tasks" /\ at' = "park"
  /\ UNCHANGED <<queue, notified, alive, op, timers, cur, layers, broke>>

Exhausted ==
  /\ at = "tasks" /\ queue = <<>> /\ at' = "park"
  /\ UNCHANGED <<queue, notified, alive, op, timers, cur, layers, broke>>

Polling == at \in {"polling", "running"}

(* What a future does in a poll: it wakes another one that is not woken    *)
(* yet,                                                                    *)
Wake(f) ==
  /\ Polling /\ f \in alive \ {cur} /\ ~Queued(f) /\ (f = Root => ~notified)
  /\ Wakes({f})
  /\ UNCHANGED <<alive, op, timers, at, cur, layers, broke>>

(* spawns a task, as one may through a Handle when no future is polled     *)
(* (under a name of which no operation is left),                           *)
Spawn(t) ==
  /\ Polling \/ at = "returned"
  /\ t \notin alive /\ t # Root /\ op[t] = "none"
  /\ alive' = alive \cup {t} /\ queue' = Append(queue, t)
  /\ UNCHANGED <<notified, op, timers, at, cur, layers, broke>>

(* starts an operation, or tries again to,                                 *)
StartOp ==
  /\ Polling /\ op[cur] \in {"none", "waiting"}
  /\ op' = [op EXCEPT ![cur] = IF Full THEN "waiting" ELSE "pushed"]
  /\ op'[cur] # op[cur]
  /\ UNCHANGED <<queue, notified, alive, timers, at, cur, layers, broke>>

(* or starts a timer.                                                      *)
StartTimer ==
  /\ Polling /\ cur \notin timers /\ timers' = timers \cup {cur}
  /\ UNCHANGED <<queue, notified, alive, op, at, cur, layers, broke>>

(* Driver::needs_park.                                                     *)
NeedsPark == In("waiting") # {} \/ Full

(* After the poll of a task block_on asks the layers.                      *)
After == IF at = "running" /\ NeedsPark' THEN "park" ELSE "tasks"

(* A future that has woken itself is queued when its poll is over, the     *)
(* root future marked.                                                     *)
Pend ==
  /\ Polling
  /\ Wakes({cur}) \/ UNCHANGED <<queue, notified>>
  /\ UNCHANGED <<alive, op, timers, cur, layers>>
  /\ at' = After /\ broke' = (at' = "park")

(* A future that completes, or a task that panics, is dropped, whatever it *)
(* waits for.                                                              *)
Finish ==
  /\ Polling /\ Dropped(cur)
  /\ at' = IF cur = Root THEN "returned" ELSE After
  /\ broke' = (at' = "park")
  /\ UNCHANGED <<cur, mode, reader, entered>>

(* A panic of the root future is not caught: it leaves block_on,           *)
Panic ==
  /\ at = "polling" /\ at' = "panicked"
  /\ UNCHANGED <<queue, notified, alive, op, timers, cur, layers, broke>>

(* and drops the future.                                                   *)
Unwind ==
  /\ at = "panicked" /\ at' = "returned" /\ Dropped(Root)
  /\ UNCHANGED <<cur, mode, reader, entered, broke>>

(* The executor is used for a root future, the first one or another.  What *)
(* one before it has left behind gets the name of a task that is not used. *)
BlockOn ==
  /\ at = "returned" /\ at' = "root" /\ notified' = TRUE /\ alive' = alive \cup {Root}
  /\ \/ op[Root] = "none" /\ UNCHANGED op
     \/ \E t \in Tasks \ alive :
          op[t] = "none" /\ op' = [op EXCEPT ![t] = op[Root], ![Root] = "none"]
  /\ UNCHANGED <<queue, timers, cur, layers, broke>>

-----------------------------------------------------------------------------
(* The layers of a park.                                                   *)

(* mutant: a root future that is to be polled does not matter. *)
ModeAlways == "NextCompletion"

Mode == IF notified THEN "NoPark" ELSE "NextCompletion"

(* The timers that are due are fired, and those left make the park a timed *)
(* one, whatever it was; then what the kernel has completed is reaped, and *)
(* forbids the sleep.                                                      *)
Reap ==
  /\ op' = [f \in Futures |-> IF op[f] = "done" THEN "none" ELSE op[f]]
  /\ reader' = IF reader = "done" THEN "idle" ELSE reader

Park ==
  /\ at = "park" /\ at' = "submit"
  /\ \E fired \in SUBSET timers :
       /\ timers' = timers \ fired
       /\ mode' = IF Drains THEN "NoPark"
                  ELSE IF timers' # {} THEN "Timeout"
                  ELSE IF fired # {} THEN "NoPark" ELSE Mode
       /\ Wakes(fired \cup In("done"))
  /\ Reap
  /\ UNCHANGED <<alive, cur, entered, broke, own>>

(* Driver::prepare_park: one read at a time, if the queue has room for it. *)
ReadFits   == mode # "NoPark" /\ (reader # "idle" \/ ~Full)
ReadNow    == IF ReadFits /\ reader = "idle" THEN "sent" ELSE reader
NumEntries == Entries + IF ReadNow # reader THEN 1 ELSE 0

(* Driver::submit: it does not sleep if it must not, if the read has no    *)
(* room, or if another thread has unparked it (at any time, hence no       *)
(* guard).                                                                 *)
SubmitOnly ==
  /\ at = "submit" /\ at' = "root"
  /\ Notify(Sent, NumEntries, {}) /\ reader' = ReadNow /\ own' = Taken
  /\ UNCHANGED <<alive, timers, cur, mode, entered, broke>>

Sleep ==
  /\ at = "submit" /\ ReadFits
  /\ at' = "asleep" /\ op' = Sent /\ reader' = ReadNow /\ own' = Taken
  /\ entered' = NumEntries
  /\ UNCHANGED <<queue, notified, alive, timers, cur, mode, broke>>

EndSleep ==
  /\ at' = "root" /\ Notify(op, entered, {}) /\ entered' = 0
  /\ UNCHANGED <<alive, timers, cur, mode, reader, broke, own>>

WakeUp == at = "asleep" /\ Drains /\ EndSleep

(* A call that submitted something returns when a signal comes, or when a  *)
(* cancellation that it submitted finds nothing.                           *)
Interrupted == at = "asleep" /\ entered > 0 /\ EndSleep

(* A timeout of a call that submitted nothing is an error, which block_on  *)
(* unwraps; otherwise the call returns what it submitted.                  *)
TimedOut ==
  /\ at = "asleep" /\ mode = "Timeout"
  /\ \/ entered > 0 /\ EndSleep
     \/ /\ entered = 0 /\ at' = "panicked"
        /\ UNCHANGED <<queue, notified, alive, op, timers, cur, layers, broke>>

(* Another thread writes to the eventfd.                                   *)
Unpark ==
  /\ reader = "sent" /\ reader' = "done"
  /\ UNCHANGED <<queue, notified, alive, op, timers, at, cur, mode, entered, broke, own>>

(* The kernel completes an operation.                                      *)
KernelCompletes(f) ==
  /\ op[f] = "sent" /\ op' = [op EXCEPT ![f] = "done"]
  /\ UNCHANGED <<queue, notified, alive, timers, at, cur, layers, broke>>

-----------------------------------------------------------------------------
(* LocalExecutor::drop: TaskQueue::shutdown, the shutdown of the timers,   *)
(* and Driver::shutdown.  (A destructor that spawns here aborts the        *)
(* process: see Task.)                                                     *)

Drop ==
  /\ at = "returned" /\ at' = "dropping"
  /\ UNCHANGED <<queue, notified, alive, op, timers, cur, layers, broke>>

DropFuture(f) ==
  /\ at = "dropping" /\ f \in alive /\ Dropped(f)
  /\ UNCHANGED <<at, cur, mode, reader, entered, broke>>

(* mutant: the layers are shut down first, with the tasks alive. *)
ShutLayersFirst ==
  /\ at = "dropping" /\ queue' = <<>> /\ at' = "timers"
  /\ UNCHANGED <<notified, alive, op, timers, cur, layers, broke>>

(* All the futures are dropped, and the queue with what it holds.          *)
ShutTasks ==
  /\ at = "dropping" /\ alive = {} /\ queue' = <<>> /\ at' = "timers"
  /\ UNCHANGED <<notified, alive, op, timers, cur, layers, broke>>

(* Wheels::shutdown fires the timers that are left.                        *)
ShutTimers ==
  /\ at = "timers" /\ at' = "stopping" /\ timers' = {} /\ Wakes(timers)
  /\ UNCHANGED <<alive, op, cur, layers, broke>>

(* mutant: the read of the eventfd is left pending. *)
StopUnwoken ==
  /\ at = "stopping" /\ at' = "draining" /\ op' = Sent /\ own' = "nop"
  /\ UNCHANGED <<queue, notified, alive, timers, cur, mode, reader, entered, broke>>

(* The read of the eventfd is ended by a write, the queue goes to the      *)
(* kernel, which is told to cancel what it has, and the no-op is pushed.   *)
Stop ==
  /\ at = "stopping" /\ at' = "draining" /\ op' = Sent /\ own' = "nop"
  /\ reader' = IF reader = "sent" THEN "done" ELSE reader
  /\ UNCHANGED <<queue, notified, alive, timers, cur, mode, entered, broke>>

(* The submission fails, with EBUSY, or a signal ends the cancellation:    *)
(* both results are unwrapped.                                             *)
StopFails ==
  /\ at = "stopping" /\ at' = "failed"
  /\ \/ Drains /\ UNCHANGED <<op, own>>
     \/ op' = Sent /\ own' = Taken
  /\ UNCHANGED <<queue, notified, alive, timers, cur, mode, reader, entered, broke>>

(* A park that drains: what is complete is reaped, and nobody waits for    *)
(* it; with the no-op comes the end.                                       *)
Drain ==
  /\ at = "draining" /\ (Drains \/ own \in {"nop", "done"})
  /\ Reap
  /\ own' = IF own = "done" THEN "none" ELSE "sent"
  /\ at' = IF own = "done" THEN "dropped" ELSE "draining"
  /\ UNCHANGED <<queue, notified, alive, timers, cur, mode, entered, broke>>

(* The kernel ends the no-op after all that came before it.                *)
KernelDrains ==
  /\ own = "sent" /\ In("sent") = {} /\ reader # "sent" /\ own' = "done"
  /\ UNCHANGED <<queue, notified, alive, op, timers, at, cur, mode, reader, entered, broke>>

-----------------------------------------------------------------------------
Poll == StartOp \/ StartTimer \/ Pend \/ Finish \/ Panic \/ \E f \in Futures : Spawn(f) \/ Wake(f)

Dropping == ShutTasks \/ ShutTimers \/ Stop \/ StopFails \/ Drain \/ \E f \in Futures : DropFuture(f)

Thread ==
  PollRoot \/ RunTask \/ Exhausted \/ Pend \/ Park \/ SubmitOnly \/ WakeUp \/ TimedOut
  \/ Unwind \/ Dropping

Kernel == KernelDrains \/ \E f \in Futures : KernelCompletes(f)

Next == Thread \/ Poll \/ BlockOn \/ Drop \/ Sleep \/ Interrupted \/ Unpark \/ Kernel

Spec == Init /\ [][Next]_vars

(* A poll ends, and the thread goes on; a sleep ends when an operation is  *)
(* complete, or after its time.  The kernel completes what was cancelled.  *)
FairSpec == Spec /\ WF_vars(Thread) /\ WF_vars(at = "draining" /\ Kernel)

-----------------------------------------------------------------------------
(* Properties.                                                             *)

TypeOK ==
  /\ queue \in Seq(Tasks) /\ notified \in BOOLEAN /\ alive \subseteq Futures
  /\ op \in [Futures -> Stage] /\ timers \subseteq Futures
  /\ at \in At /\ cur \in Futures /\ mode \in ParkMode
  /\ reader \in Reader /\ entered \in Nat /\ broke \in BOOLEAN /\ own \in Own

(* The thread sleeps with tasks in its queue only if a layer asked for the *)
(* park or a timer made it a timed one, and with a root future to poll     *)
(* only in the second case: otherwise nobody is forgotten by the sleep.    *)
SleepsForAReason ==
  at = "asleep" =>
    LET timed == mode = "Timeout" /\ timers # {} IN
    (queue # <<>> => broke \/ timed) /\ (notified => timed)

(* When the executor is dropped nothing is left of it: no task, no wakeup  *)
(* in the queue, no timer, and nothing in the ring, where the kernel could *)
(* write to a buffer that is gone.                                         *)
NothingIsLeft ==
  at = "dropped" =>
    /\ alive = {} /\ queue = <<>> /\ timers = {}
    /\ op = [f \in Futures |-> "none"] /\ reader = "idle" /\ own = "none"

(* The types, and SleepsForAReason.                                        *)
Inv == TypeOK /\ SleepsForAReason

Ended == {"returned", "panicked", "dropped", "failed"}

(* If no sleep lasts forever, a task in the queue is run, whatever the     *)
(* others do: those that wake each other go to the end of the queue.       *)
TaskIsRun ==
  []<>(at # "asleep") =>
    \A t \in Tasks : Queued(t) ~> (at = "running" /\ cur = t) \/ at \in Ended

(* A root future that is woken is polled, if the tasks do not keep each    *)
(* other running forever: the sleep does not wait for a completion then.   *)
RootIsPolled ==
  ~<>[](at \in {"tasks", "running"}) =>
    (notified ~> at \in {"polling"} \cup Ended)

(* The drop of the executor ends, whatever was under way, unless it panics *)
(* because the driver's last submission or its cancellation fails; once    *)
(* these have succeeded it does end.                                       *)
DropEnds ==
  /\ at = "dropping" ~> at \in {"dropped", "failed"}
  /\ at = "draining" ~> at = "dropped"

-----------------------------------------------------------------------------
(* What the documentation says, and the code does not do.                  *)

(* The thread is blocked when there are no tasks ready to be executed.     *)
SleepsWhenIdle == at = "asleep" => queue = <<>>

(* A timed park returns when its time is over.                             *)
TimeoutReturns == [][at = "asleep" => at' # "panicked"]_vars
=============================================================================
