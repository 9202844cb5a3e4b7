-------------------------------- MODULE Task --------------------------------
(***************************************************************************)
(* The task system of norn-task: reference-counted task cells, their       *)
(* wakers and join handles, the TaskSet and the TaskQueue, on the one      *)
(* thread that owns them.                                                  *)
(*                                                                         *)
(* The thread runs either code of the runtime or code of the application:  *)
(* the root future and the drivers (Root), a task's future being polled,   *)
(* or the destructor of a task's future.  Application code may do whatever *)
(* the public API allows, and every call it makes re-enters the runtime in *)
(* the state it was left in; that re-entrancy is what the module is about. *)
(* `ctl` is where the thread is; `releasing` is the TaskRef whose Drop it  *)
(* runs, if any, before it goes on there.                                  *)
(***************************************************************************)
EXTENDS TaskState, Sequences, FiniteSets

CONSTANTS
  Tasks,         (* the tasks that may be spawned                           *)
  Root,          (* the owner of what no task's future owns: the root       *)
                 (* future, the drivers and the executor itself             *)
  None,          (* no task, no waker                                       *)
  MaxWakers      (* bound: wakers of one task held outside the task system  *)

ASSUME TaskAssumption ==
  /\ IsFiniteSet(Tasks)
  /\ Root \notin Tasks /\ None \notin Tasks /\ Root # None
  /\ MaxWakers \in Nat

VARIABLES
  flags,        (* State::flags of each task                                *)
  refcount,     (* State::refcount of each task                             *)
  cell,         (* FutureCell of each task; unborn and freed have no memory *)
  slot,         (* Header::waker: the task (or Root) to wake at completion  *)
  owner,        (* who owns the JoinHandle                                  *)
  wakers,       (* how many wakers of the task exist outside the headers    *)
  registered,   (* TaskSet::list                                            *)
  closed,       (* TaskSet::closed                                          *)
  runqueue,     (* TaskQueue::runqueue                                      *)
  ctl,          (* where the thread is: [at, task]                          *)
  releasing,    (* the TaskRef being dropped, or None                       *)
  crashed       (* what aborted the process: no, an assert! or a spawn      *)

vars == <<flags, refcount, cell, slot, owner, wakers, registered, closed,
          runqueue, ctl, releasing, crashed>>

taskset == <<registered, closed>>
thread  == <<ctl, releasing>>

Outcome == {"ok", "panic", "cancelled"}
Cell    == {"unborn", "future", "empty", "freed"} \cup Outcome

(* Where the thread can be.                                                *)
(*   root      the root future, a driver, or any other code outside tasks  *)
(*   poll      in Future::poll of the task                                 *)
(*   dropping  in the destructor of a future polled to its end, or         *)
(*             cancelled by complete_poll; the poll's waker is alive       *)
(*   cancelled in the destructor of a future cancelled by prepare_poll     *)
(*   complete, unbind, resched, done: the tail of TaskCell::poll           *)
(*   shutdown  in the loop of TaskSet::shutdown                            *)
(*   teardown  in the destructor of a future cancelled by that loop        *)
(*   drain     dropping the run queue in TaskQueue::shutdown               *)
InPoll     == {"poll", "dropping"}
Running    == InPoll \cup {"cancelled", "complete", "unbind", "resched", "done"}
Destructor == {"dropping", "cancelled", "teardown"}
Borrowed   == {"shutdown", "teardown"}   (* TaskSet::inner is borrowed_mut *)
At         == Running \cup Borrowed \cup {"root", "drain"}

Goto(p, t) == ctl' = [at |-> p, task |-> t]

(* The application's code that runs now, and what it may use. *)
Actor    == IF ctl.at = "root" THEN Root ELSE ctl.task
UserCode == crashed = "no" /\ releasing = None
            /\ ctl.at \in {"root", "poll"} \cup Destructor
Owned    == {h \in Tasks : owner[h] = Actor}

(* StateCell::update: an assert! that fails aborts the process. *)
Asserts(p) == crashed' = IF p THEN "no" ELSE "assert"

Runtime(p) == crashed = "no" /\ releasing = None /\ ctl.at = p

Init ==
  /\ flags = [t \in Tasks |-> {}]
  /\ refcount = [t \in Tasks |-> 0]
  /\ cell = [t \in Tasks |-> "unborn"]
  /\ slot = [t \in Tasks |-> None]
  /\ owner = [t \in Tasks |-> None]
  /\ wakers = [t \in Tasks |-> 0]
  /\ registered = {} /\ closed = FALSE /\ runqueue = <<>>
  /\ ctl = [at |-> "root", task |-> None]
  /\ releasing = None /\ crashed = "no"

-----------------------------------------------------------------------------
(* References.                                                             *)

(* clone_ref, then Schedule::schedule. *)
Submit(t) ==
  /\ refcount' = [refcount EXCEPT ![t] = @ + 1]
  /\ runqueue' = Append(runqueue, t)

(* TaskCell::waker_wake_ref.  It takes no borrow of the task set. *)
Wake(t) ==
  /\ Asserts(refcount[t] > 0)
  /\ flags' = [flags EXCEPT ![t] = Notify(@)]
  /\ IF NotifySubmits(flags[t]) THEN Submit(t)
     ELSE UNCHANGED <<refcount, runqueue>>

(* mutant: the header's waker is forgotten. *)
DeallocKeepsWaker(t) ==
  /\ cell' = [cell EXCEPT ![t] = "freed"]
  /\ slot' = [slot EXCEPT ![t] = None]
  /\ releasing' = None

(* The memory of a task is given back: its cell and its header's waker are *)
(* dropped with it, and the latter may be the last reference of another.   *)
Dealloc(t) ==
  /\ cell' = [cell EXCEPT ![t] = "freed"]
  /\ slot' = [slot EXCEPT ![t] = None]
  /\ releasing' = IF slot[t] \in Tasks THEN slot[t] ELSE None

(* Drop for TaskRef, and TaskCell::waker_drop. *)
Release ==
  LET t == releasing IN
  /\ crashed = "no" /\ t # None
  /\ Asserts(DropRefOk(flags[t], refcount[t]))
  /\ refcount' = [refcount EXCEPT ![t] = @ - 1]
  /\ IF refcount[t] = 1 THEN Dealloc(t)
     ELSE releasing' = None /\ UNCHANGED <<cell, slot>>
  /\ UNCHANGED <<flags, owner, wakers, taskset, runqueue, ctl>>

-----------------------------------------------------------------------------
(* What application code may call.                                         *)

(* TaskQueue::spawn: TaskSet::bind, then schedule.  A closed set refuses   *)
(* the task: it is shut down on the spot and only the handle is returned.  *)
Spawn(t) ==
  /\ UserCode /\ ctl.at \notin Borrowed
  /\ cell[t] = "unborn"
  /\ owner' = [owner EXCEPT ![t] = Actor]
  /\ IF closed
     THEN /\ flags' = [flags EXCEPT ![t] = Shutdown(NewFlags)]
          /\ refcount' = [refcount EXCEPT ![t] = NewRefcount]
          /\ cell' = [cell EXCEPT ![t] = "cancelled"]
          /\ releasing' = t
          /\ UNCHANGED <<registered, runqueue>>
     ELSE /\ flags' = [flags EXCEPT ![t] = NewFlags]
          /\ refcount' = [refcount EXCEPT ![t] = NewRefcount + 1]
          /\ cell' = [cell EXCEPT ![t] = "future"]
          /\ registered' = registered \cup {t}
          /\ runqueue' = Append(runqueue, t)
          /\ UNCHANGED releasing
  /\ UNCHANGED <<slot, wakers, closed, ctl, crashed>>

(* The same call while TaskSet::shutdown holds the set's RefCell: the      *)
(* borrow_mut of is_closed panics in a destructor, which aborts.           *)
SpawnWhileBorrowed ==
  /\ UserCode /\ ctl.at \in Borrowed
  /\ crashed' = "spawn"
  /\ UNCHANGED <<flags, refcount, cell, slot, owner, wakers, taskset,
                 runqueue, thread>>

(* The wakers application code can reach: those kept outside, and the one  *)
(* in the Context of the poll that runs.                                   *)
HasWaker(t) == wakers[t] > 0 \/ (ctl.at = "poll" /\ ctl.task = t)

(* TaskCell::waker_clone. *)
CloneWaker(t) ==
  /\ UserCode /\ HasWaker(t) /\ wakers[t] < MaxWakers
  /\ Asserts(refcount[t] > 0)
  /\ refcount' = [refcount EXCEPT ![t] = @ + 1]
  /\ wakers' = [wakers EXCEPT ![t] = @ + 1]
  /\ UNCHANGED <<flags, cell, slot, owner, taskset, runqueue, thread>>

WakeByRef(t) ==
  /\ UserCode /\ HasWaker(t)
  /\ Wake(t)
  /\ UNCHANGED <<cell, slot, owner, wakers, taskset, thread>>

(* TaskCell::waker_wake_val: wake, then drop the waker. *)
WakeByVal(t) ==
  /\ UserCode /\ wakers[t] > 0
  /\ Wake(t)
  /\ wakers' = [wakers EXCEPT ![t] = @ - 1]
  /\ releasing' = t
  /\ UNCHANGED <<cell, slot, owner, taskset, ctl>>

DropWaker(t) ==
  /\ UserCode /\ wakers[t] > 0
  /\ wakers' = [wakers EXCEPT ![t] = @ - 1]
  /\ releasing' = t
  /\ UNCHANGED <<flags, refcount, cell, slot, owner, taskset, runqueue, ctl,
                 crashed>>

(* JoinHandle::abort. *)
AbortTask(h) ==
  /\ UserCode /\ h \in Owned
  /\ Asserts(AbortOk(flags[h], refcount[h]))
  /\ flags' = [flags EXCEPT ![h] = Abort(@)]
  /\ IF AbortSubmits(flags[h]) THEN Submit(h)
     ELSE UNCHANGED <<refcount, runqueue>>
  /\ UNCHANGED <<cell, slot, owner, wakers, taskset, thread>>

(* Header::set_waker: keep a waker that wakes the same task, else clone    *)
(* the new one and then drop the old one.                                  *)
SetWaker(h, w) ==
  IF slot[h] = w THEN UNCHANGED <<slot, refcount, releasing>>
  ELSE /\ slot' = [slot EXCEPT ![h] = w]
       /\ refcount' = IF w \in Tasks
                      THEN [refcount EXCEPT ![w] = @ + 1] ELSE refcount
       /\ releasing' = IF slot[h] \in Tasks THEN slot[h] ELSE None

(* JoinHandle::poll -> try_read_output.  A handle is not polled again once *)
(* it was ready, and a future does not wait for its own task.              *)
PollHandle(h) ==
  /\ UserCode /\ ctl.at \in {"root", "poll"}
  /\ h \in Owned /\ h # Actor /\ cell[h] # "empty"
  /\ IF "COMPLETE" \in flags[h]
     THEN /\ cell' = [cell EXCEPT ![h] = "empty"]
          /\ UNCHANGED <<slot, refcount, releasing>>
     ELSE SetWaker(h, Actor) /\ UNCHANGED cell
  /\ UNCHANGED <<flags, owner, wakers, taskset, runqueue, ctl, crashed>>

(* Drop for JoinHandleRef (detach is the same): drop_join_handle, then     *)
(* the TaskRef inside.                                                     *)
DropHandle(h) ==
  /\ UserCode /\ h \in Owned
  /\ Asserts(DropJoinHandleOk(flags[h], refcount[h]))
  /\ flags' = [flags EXCEPT ![h] = DropJoinHandle(@)]
  /\ owner' = [owner EXCEPT ![h] = None]
  /\ releasing' = h
  /\ UNCHANGED <<refcount, cell, slot, wakers, taskset, runqueue, ctl>>

(* Application code moves a handle into a future that is still alive,      *)
(* possibly that of the task itself.                                       *)
GiveHandle(h, u) ==
  /\ UserCode /\ h \in Owned /\ u # Actor
  /\ u = Root \/ (u \in Tasks /\ cell[u] = "future")
  /\ owner' = [owner EXCEPT ![h] = u]
  /\ UNCHANGED <<flags, refcount, cell, slot, wakers, taskset, runqueue,
                 thread, crashed>>

-----------------------------------------------------------------------------
(* Runnable::run -> TaskCell::poll.                                        *)

(* The executor takes the next Runnable; prepare_poll decides. *)
Run ==
  LET t == Head(runqueue) IN
  /\ Runtime("root") /\ runqueue # <<>>
  /\ runqueue' = Tail(runqueue)
  /\ Asserts(PreparePollOk(flags[t], refcount[t]))
  /\ flags' = [flags EXCEPT ![t] = PreparePoll(@)]
  /\ \/ /\ "COMPLETE" \in flags[t]
        /\ Goto("done", t) /\ UNCHANGED <<refcount, cell>>
     \/ /\ "COMPLETE" \notin flags[t] /\ "CANCELLED" \in flags[t]
        /\ cell' = [cell EXCEPT ![t] = "cancelled"]
        /\ Goto("cancelled", t) /\ UNCHANGED refcount
     \/ /\ flags[t] \cap {"COMPLETE", "CANCELLED"} = {}
        /\ refcount' = [refcount EXCEPT ![t] = @ + 1]
        /\ Goto("poll", t) /\ UNCHANGED cell
  /\ UNCHANGED <<slot, owner, wakers, taskset, releasing>>

(* The future returns Ready or panics: FutureCell::poll stores the result  *)
(* and drops the future.                                                   *)
PollReady(r) ==
  /\ Runtime("poll")
  /\ cell' = [cell EXCEPT ![ctl.task] = r]
  /\ Goto("dropping", ctl.task)
  /\ UNCHANGED <<flags, refcount, slot, owner, wakers, taskset, runqueue,
                 releasing, crashed>>

(* The future returns Pending: complete_poll decides; unless the task is   *)
(* cancelled, the poll's waker is dropped next.                            *)
PollPending ==
  LET t == ctl.task IN
  /\ Runtime("poll")
  /\ Asserts(CompletePollOk(flags[t], refcount[t]))
  /\ flags' = [flags EXCEPT ![t] = CompletePoll(@)]
  /\ IF "CANCELLED" \in flags[t]
     THEN /\ cell' = [cell EXCEPT ![t] = "cancelled"]
          /\ Goto("dropping", t) /\ UNCHANGED releasing
     ELSE /\ Goto(IF "NOTIFIED" \in flags[t] THEN "resched" ELSE "done", t)
          /\ releasing' = t /\ UNCHANGED cell
  /\ UNCHANGED <<refcount, slot, owner, wakers, taskset, runqueue>>

(* A destructor returns once it dropped the handles the future owned.      *)
EndDestructor ==
  LET t == ctl.task IN
  /\ UserCode /\ ctl.at \in Destructor /\ Owned = {}
  /\ Goto(IF ctl.at = "teardown" THEN "shutdown" ELSE "complete",
          IF ctl.at = "teardown" THEN None ELSE t)
  /\ releasing' = IF ctl.at = "cancelled" THEN None ELSE t
  /\ UNCHANGED <<flags, refcount, cell, slot, owner, wakers, taskset,
                 runqueue, crashed>>

(* mutant: a notification that came during the poll is dropped. *)
RescheduleLost ==
  /\ Runtime("resched")
  /\ Goto("done", ctl.task)
  /\ UNCHANGED <<flags, refcount, cell, slot, owner, wakers, taskset, runqueue,
                 releasing, crashed>>

(* mutant: the task overtakes the others. *)
RescheduleFront ==
  /\ Runtime("resched")
  /\ refcount' = [refcount EXCEPT ![ctl.task] = @ + 1]
  /\ runqueue' = <<ctl.task>> \o runqueue /\ Goto("done", ctl.task)
  /\ UNCHANGED <<flags, cell, slot, owner, wakers, taskset, releasing, crashed>>

(* PollResult::Notified: the task is put back on the queue. *)
Reschedule ==
  /\ Runtime("resched")
  /\ Submit(ctl.task) /\ Goto("done", ctl.task)
  /\ UNCHANGED <<flags, cell, slot, owner, wakers, taskset, releasing, crashed>>

(* TaskCell::complete_task up to unbind: the waker in the header is taken  *)
(* and woken by value, or the output is dropped when nobody can read it.   *)
CompleteTaskCell ==
  LET t == ctl.task
      w == slot[t] IN
  /\ Runtime("complete")
  /\ Goto("unbind", t)
  /\ IF "JOIN_HANDLE" \in flags[t]
     THEN /\ slot' = [slot EXCEPT ![t] = None]
          /\ UNCHANGED cell
          /\ IF w \in Tasks
             THEN /\ Asserts(/\ CompleteTaskOk(flags[t], refcount[t])
                            /\ refcount[w] > 0)
                  /\ flags' = [flags EXCEPT ![t] = CompleteTask(@),
                                            ![w] = Notify(@)]
                  /\ releasing' = w
                  /\ IF NotifySubmits(flags[w]) THEN Submit(w)
                     ELSE UNCHANGED <<refcount, runqueue>>
             ELSE /\ Asserts(CompleteTaskOk(flags[t], refcount[t]))
                  /\ flags' = [flags EXCEPT ![t] = CompleteTask(@)]
                  /\ UNCHANGED <<releasing, refcount, runqueue>>
     ELSE /\ Asserts(CompleteTaskOk(flags[t], refcount[t]))
          /\ flags' = [flags EXCEPT ![t] = CompleteTask(@)]
          /\ cell' = [cell EXCEPT ![t] = "empty"]
          /\ UNCHANGED <<slot, releasing, refcount, runqueue>>
  /\ UNCHANGED <<owner, wakers, taskset>>

(* mutant: the RegisteredTask is forgotten instead of dropped. *)
UnbindForgets ==
  /\ Runtime("unbind")
  /\ registered' = registered \ {ctl.task}
  /\ Goto("done", ctl.task)
  /\ UNCHANGED <<flags, refcount, cell, slot, owner, wakers, closed, runqueue,
                 releasing, crashed>>

(* TaskSet::remove; the RegisteredTask it returns is dropped. *)
Unbind ==
  LET t == ctl.task IN
  /\ Runtime("unbind")
  /\ registered' = registered \ {t}
  /\ releasing' = IF t \in registered THEN t ELSE None
  /\ Goto("done", t)
  /\ UNCHANGED <<flags, refcount, cell, slot, owner, wakers, closed, runqueue,
                 crashed>>

(* Runnable::run returns: its TaskRef is dropped. *)
EndRun ==
  /\ Runtime("done")
  /\ releasing' = ctl.task /\ Goto("root", None)
  /\ UNCHANGED <<flags, refcount, cell, slot, owner, wakers, taskset, runqueue,
                 crashed>>

-----------------------------------------------------------------------------
(* TaskQueue::shutdown, called when the executor is dropped.               *)

BeginShutdown ==
  /\ Runtime("root") /\ ~closed
  /\ closed' = TRUE /\ Goto("shutdown", None)
  /\ UNCHANGED <<flags, refcount, cell, slot, owner, wakers, registered,
                 runqueue, releasing, crashed>>

(* mutant: the loop looks at the front of the list and leaves it there. *)
ShutdownPeeks(t) ==
  /\ Runtime("shutdown") /\ t \in registered
  /\ Asserts(ShutdownOk(flags[t], refcount[t]))
  /\ flags' = [flags EXCEPT ![t] = Shutdown(@)]
  /\ cell' = [cell EXCEPT ![t] = "cancelled"]
  /\ Goto("teardown", t)
  /\ UNCHANGED <<refcount, slot, owner, wakers, taskset, runqueue, releasing>>

(* One turn of the loop of TaskSet::shutdown (in any order): the task is   *)
(* popped, marked and its future dropped; the join handle is not notified. *)
ShutdownTask(t) ==
  /\ Runtime("shutdown") /\ t \in registered
  /\ registered' = registered \ {t}
  /\ Asserts(ShutdownOk(flags[t], refcount[t]))
  /\ flags' = [flags EXCEPT ![t] = Shutdown(@)]
  /\ cell' = IF "COMPLETE" \in flags[t] THEN cell
             ELSE [cell EXCEPT ![t] = "cancelled"]
  /\ Goto("teardown", t)
  /\ UNCHANGED <<refcount, slot, owner, wakers, closed, runqueue, releasing>>

EndTaskSetShutdown ==
  /\ Runtime("shutdown") /\ registered = {}
  /\ Goto("drain", None)
  /\ UNCHANGED <<flags, refcount, cell, slot, owner, wakers, taskset, runqueue,
                 releasing, crashed>>

(* drop(runqueue.take()), one Runnable at a time. *)
DrainQueue ==
  /\ Runtime("drain")
  /\ IF runqueue = <<>>
     THEN Goto("root", None) /\ UNCHANGED <<runqueue, releasing>>
     ELSE /\ releasing' = Head(runqueue)
          /\ runqueue' = Tail(runqueue)
          /\ UNCHANGED ctl
  /\ UNCHANGED <<flags, refcount, cell, slot, owner, wakers, taskset, crashed>>

-----------------------------------------------------------------------------
UserStep ==
  \/ \E t \in Tasks : \/ Spawn(t) \/ CloneWaker(t) \/ WakeByRef(t)
                      \/ WakeByVal(t) \/ DropWaker(t) \/ AbortTask(t)
                      \/ PollHandle(t) \/ DropHandle(t)
  \/ \E h \in Tasks, u \in Tasks \cup {Root} : GiveHandle(h, u)
  \/ SpawnWhileBorrowed

Next ==
  \/ UserStep
  \/ Release
  \/ Run \/ (\E r \in {"ok", "panic"} : PollReady(r)) \/ PollPending
  \/ EndDestructor \/ Reschedule \/ CompleteTaskCell \/ Unbind \/ EndRun
  \/ BeginShutdown \/ (\E t \in Tasks : ShutdownTask(t))
  \/ EndTaskSetShutdown \/ DrainQueue

Spec == Init /\ [][Next]_vars

(* The scheduling the thread guarantees.  The runtime's own code waits for *)
(* nothing, so it proceeds (weak fairness: nothing else can run).          *)
(* Application code returns: the root future to block_on, which takes the  *)
(* next Runnable; a poll; and a destructor, once it dropped what its       *)
(* future owned.  That is strong fairness, for in between the same code    *)
(* may re-enter the runtime any number of times.  Nothing is assumed of    *)
(* what the application calls, nor that the executor is ever dropped.      *)
RuntimeStep ==
  \/ Release \/ Reschedule \/ CompleteTaskCell \/ Unbind \/ EndRun
  \/ (\E t \in Tasks : ShutdownTask(t)) \/ EndTaskSetShutdown \/ DrainQueue

UserReturns ==
  \/ Run
  \/ (\E r \in {"ok", "panic"} : PollReady(r)) \/ PollPending
  \/ (\E h \in Tasks : ctl.at \in Destructor /\ DropHandle(h)) \/ EndDestructor

Fairness == WF_vars(RuntimeStep) /\ SF_vars(UserReturns)

FairSpec == Spec /\ Fairness
-----------------------------------------------------------------------------
(* Properties.                                                             *)

TypeOK ==
  /\ flags \in [Tasks -> SUBSET Flag]
  /\ refcount \in [Tasks -> Nat]
  /\ cell \in [Tasks -> Cell]
  /\ slot \in [Tasks -> Tasks \cup {Root, None}]
  /\ owner \in [Tasks -> Tasks \cup {Root, None}]
  /\ wakers \in [Tasks -> 0..MaxWakers]
  /\ registered \subseteq Tasks /\ closed \in BOOLEAN
  /\ runqueue \in Seq(Tasks)
  /\ ctl \in [at : At, task : Tasks \cup {None}]
  /\ ctl.task = None <=> ctl.at \in {"root", "shutdown", "drain"}
  /\ releasing \in Tasks \cup {None}
  /\ crashed \in {"no", "assert", "spawn"}

Live(t)   == cell[t] \notin {"unborn", "freed"}
Queued(t) == \E i \in DOMAIN runqueue : runqueue[i] = t

(* One or zero references, if the condition holds. *)
One(p) == IF p THEN 1 ELSE 0

(* The references that exist outside the headers of other tasks: the       *)
(* TaskSet's, the JoinHandle's, the run queue's, the wakers', that of the  *)
(* Runnable that runs, that of the waker of its poll, the one the loop of  *)
(* shutdown popped, and the one whose Drop runs.                           *)
DirectRefs(t) ==
  One(t \in registered) + One(owner[t] # None) + One(Queued(t)) + wakers[t]
  + One(ctl.task = t /\ ctl.at \in Running \cup {"teardown"})
  + One(ctl.task = t /\ ctl.at \in InPoll)
  + One(releasing = t)

Waiting(t) == {u \in Tasks : slot[u] = t}

Refs(t) == DirectRefs(t) + Cardinality(Waiting(t))

(* The manual reference counting of task_cell.rs is exact: a task's count  *)
(* is the number of places that hold a reference to it, in every state of  *)
(* every re-entrant call: no clone_ref or drop_ref too many on any path.   *)
RefcountExact == \A t \in Tasks : refcount[t] = Refs(t)

(* No use after free, and no memory that nothing refers to: a task's       *)
(* memory is live exactly while some place holds a reference to it.        *)
LiveIffReferenced == \A t \in Tasks : Live(t) <=> Refs(t) > 0

(* No assert! of state.rs ever fails, and no RefCell of the task set is    *)
(* borrowed twice but by a destructor that spawns in TaskSet::shutdown:    *)
(* nothing else an application does can abort the process.                 *)
NoCrash == crashed # "assert" /\ (crashed = "spawn" => closed)

(* The types and NoCrash. *)
Inv == TypeOK /\ NoCrash

(* A task is in the run queue at most once, and a queued task waits for a  *)
(* poll: it is notified and not running, so the asserts of prepare_poll    *)
(* hold whenever it is run.                                                *)
QueuedOnce ==
  /\ \A i, j \in DOMAIN runqueue : runqueue[i] = runqueue[j] => i = j
  /\ \A t \in Tasks : Queued(t) =>
       "NOTIFIED" \in flags[t] /\ "RUNNING" \notin flags[t]

(* No wakeup is lost: a live task whose NOTIFIED flag is set, which makes  *)
(* every later wake a no-op, is queued, running (complete_poll will look), *)
(* about to be put back, or complete.                                      *)
NotifiedIsQueued ==
  \A t \in Tasks : "NOTIFIED" \in flags[t] =>
    \/ Queued(t)
    \/ flags[t] \cap {"RUNNING", "COMPLETE"} # {}
    \/ ctl = [at |-> "resched", task |-> t]

(* A future that was not dropped yet belongs to a registered task, so      *)
(* TaskSet::shutdown reaches every one of them, and no deallocation ever   *)
(* drops a future.                                                         *)
FutureIsRegistered ==
  \A t \in Tasks : cell[t] = "future" => t \in registered

(* The waiter of a join handle is woken: once the task is complete, the    *)
(* header of a task whose handle exists keeps no waker, unless the task    *)
(* was cancelled by TaskSet::shutdown, which notifies nobody.              *)
JoinIsNotified ==
  \A t \in Tasks :
    "COMPLETE" \in flags[t] /\ owner[t] # None /\ slot[t] # None => closed

(* TaskQueue::shutdown leaves nothing behind and nothing comes back: no    *)
(* future, no registered task, and no Runnable that a later wake, abort,   *)
(* or spawn could have queued.                                             *)
ShutdownIsFinal ==
  closed /\ ctl.at = "root" =>
    /\ registered = {} /\ runqueue = <<>>
    /\ \A t \in Tasks : Live(t) => "COMPLETE" \in flags[t] /\ cell[t] # "future"

(* After shutdown, once the application dropped its handles and wakers,    *)
(* the memory that remains is that of cycles: every task left is waited    *)
(* for in the header of one that is left too.                              *)
LeaksAreCycles ==
  /\ closed /\ ctl.at = "root" /\ releasing = None
  /\ \A t \in Tasks : owner[t] = None /\ wakers[t] = 0
  => \A t \in Tasks : Live(t) => \E u \in Tasks : Live(u) /\ slot[u] = t

(* No task starves: one that is notified is polled again, or is complete,  *)
(* however often other tasks are woken or put themselves back.             *)
NotifiedIsPolled ==
  \A t \in Tasks :
    "NOTIFIED" \in flags[t] ~> \/ "NOTIFIED" \notin flags[t]
                               \/ "COMPLETE" \in flags[t]
                               \/ crashed = "spawn"

(* TaskSet::shutdown ends, with every future dropped, unless one of them   *)
(* spawns when it is.                                                      *)
ShutdownEnds == closed ~> \/ ctl.at = "root" /\ registered = {}
                          \/ crashed = "spawn"

(* A result that was read, or freed with the task, is gone; a task is done *)
(* when its COMPLETE flag is set, and asked to stop when CANCELLED is.     *)
ResultOf(c) == CASE c = "future" -> "none"
                 [] c \in {"empty", "freed"} -> "gone"
                 [] OTHER -> c

Results   == [t \in Tasks |-> ResultOf(cell[t])]
Completed == {t \in Tasks : "COMPLETE" \in flags[t]}
Cancelled == {t \in Tasks : "CANCELLED" \in flags[t]}

Promise == INSTANCE JoinPromise WITH
  result <- Results, done <- Completed, asked <- Cancelled, shut <- closed

(* The task system implements JoinPromise: a result is stored once and is  *)
(* final, and a task that is aborted, or has a result, is done in the end, *)
(* unless the process is aborted first.                                    *)
PromiseKept ==
  Promise!PSpec /\ (<>(crashed = "spawn") \/ Promise!PLive)

-----------------------------------------------------------------------------
(* The inductive invariant: the properties above, and what relates the     *)
(* flags of a task to where the thread is.                                 *)

LiveInv == \A t \in Tasks : Live(t) <=> refcount[t] > 0

HandleInv == \A t \in Tasks : "JOIN_HANDLE" \in flags[t] <=> owner[t] # None

(* A task has its RUNNING flag exactly from prepare_poll to complete_poll  *)
(* or complete_task.                                                       *)
Executing == {"poll", "dropping", "cancelled", "complete"}
RunningInv ==
  \A t \in Tasks :
    "RUNNING" \in flags[t] <=> ctl.task = t /\ ctl.at \in Executing

PhaseInv ==
  /\ ctl.at \in Executing => "COMPLETE" \notin flags[ctl.task]
  /\ ctl.at \in Executing \ {"poll"} => cell[ctl.task] # "future"
  /\ ctl.at \in {"unbind", "teardown"} => "COMPLETE" \in flags[ctl.task]
  /\ ctl.at = "resched" =>
       "NOTIFIED" \in flags[ctl.task] /\ ~Queued(ctl.task)

CompleteInv ==
  \A t \in Tasks :
    /\ "COMPLETE" \in flags[t] => cell[t] # "future"
    /\ Live(t) /\ "COMPLETE" \notin flags[t] => t \in registered

ClosedInv ==
  /\ ctl.at \in Borrowed \cup {"drain"} => closed
  /\ closed => ctl.at \in Borrowed \cup {"drain", "root"}
  /\ closed /\ ctl.at \in {"drain", "root"} => registered = {}
  /\ closed /\ ctl.at = "root" => runqueue = <<>>

SlotInv == \A t \in Tasks : slot[t] # t /\ (slot[t] # None => Live(t))

IInv ==
  /\ TypeOK /\ RefcountExact /\ LiveInv /\ HandleInv /\ RunningInv /\ PhaseInv
  /\ CompleteInv /\ ClosedInv /\ SlotInv /\ NoCrash
  /\ QueuedOnce /\ NotifiedIsQueued /\ JoinIsNotified
=============================================================================
