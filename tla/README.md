# A formal model of norn

norn (the repository beside this directory) is a single-threaded async runtime
for Linux in Rust: a task system, an executor with pluggable park layers, a
timer wheel and an io_uring driver. This directory models it in TLA+, checks
the models with TLC and proves what matters most with TLAPS.

    tlc -workers 2 -config MCTask.cfg MCTask     # model-check
    tlapm TaskProofs.tla                         # check the proofs
    tlapm UnparkerProofs.tla                     # likewise the other *Proofs modules

`PROJECT.json` lists the components, the runs, the theorems, for every
definition the source lines it models, and for every checked property a mutant
of a modelled definition that it detects.

## 1. The system

| Part | State | Operations | Talks to |
|------|-------|------------|----------|
| `norn-task/state.rs` | flags and reference count of one task | `prepare_poll`, `complete_poll`, `complete_task`, `notify`, `abort`, `shutdown`, `clone_ref`, `drop_ref`, `drop_join_handle` | called by the task cell |
| `norn-task` task cell, set, queue | cells (future or output), the waker in each header, the set's list, the run queue | `spawn`, `Runnable::run`, `JoinHandle` poll / abort / detach, waker clone / wake / drop, `TaskQueue::shutdown` | application futures and their destructors, which call back |
| `norn-executor` | the root future, its notified flag, the run queue, the park mode | `block_on`, `enter`, `Drop` | tasks, the park layer |
| `norn-executor/park` | the mutex and condition variable of `ThreadPark` | `park`, `unpark`, `needs_park`, `shutdown` | the executor, other threads |
| `norn-timer` | wheels of levels of slots, entries, the elapsed time | `Sleep` poll / reset / drop, `Driver::park`, `Clock::advance` | the executor above, the park layer below, wakers |
| `norn-uring` driver | submission and completion queues, status, the backpressure `Notify` | `PushFuture` poll / drop, `park`, `submit`, `drain`, `shutdown` | the kernel, operations |
| `norn-uring` unparker | a status word (park bit, remote bit), an eventfd | `park`, `wake`, `reset` | the reactor and other threads |
| `norn-uring` operations | the stage of each operation, its references, queued completions | `Op` poll / drop, `complete` | the driver, the kernel |
| `norn-uring` descriptors | the shared fd and its close state, buffers | `close`, `accept`, `read_ready`, `BufRing` get / put | operations |
| `norn-util` `PollSet` | futures and a ready list | `spawn`, `poll_tasks`, `clear` | a task |

What is hard in it:

- *Re-entrancy.* Everything runs on one thread without locks. Application code
  (polls, destructors, wakers) is called in the middle of the runtime's
  operations and may call any of them; the state is shared by raw pointers,
  hand-counted references and `RefCell`s.
- *Threads.* Only `unpark.rs` and `park/thread.rs` meet other threads; a wake
  that is lost there blocks the program.
- *The kernel.* Completions arrive in any order, for operations whose future is
  gone; queues are bounded.
- *Time.* A hierarchical wheel is driven by parks that may return late or early.

What makes each part correct:

| Part | Correct when |
|------|--------------|
| task system | counts are exact, nothing is used after free, no wakeup is lost, a result is stored once and delivered, shutdown leaves nothing to run |
| executor | a runnable task or a notified root is never kept waiting by a park |
| park layers | an unpark before or during a park ends it |
| timers | a sleep ends no earlier than its deadline and no later than the first park after it |
| unparker | a wake while the reactor is parked writes the eventfd exactly once and ends the park |
| driver, operations | an operation is freed once, after the kernel's last completion; waiters for queue space all get it; shutdown ends |
| descriptors, buffers | a descriptor is closed once, after its last use; a buffer is owned by the kernel or by one holder |

The `hazards` list of `PROJECT.json` names the places where these are at risk.

## 2. The task system

`TaskState.tla` is `state.rs`: one operator per transition, on the set of flags.
An enum result is the predicate that selects it (`NotifySubmits`,
`AbortSubmits`), and the `assert!`s of a transition are its `...Ok` predicate.

`Task.tla` composes it with the cells, headers, join handles, the task set and
the run queue, on the one thread that owns them.

- `flags`, `refcount`, `cell` and `slot` are the header and the cell of each
  task; `owner` says which future owns its `JoinHandle`, `wakers` how many
  wakers exist outside the headers; `registered` and `closed` are the
  `TaskSet`, `runqueue` the `TaskQueue`.
- `ctl` is where the thread is, in the tail of `TaskCell::poll`, in the loop of
  `TaskSet::shutdown`, or in application code (a poll, a destructor, or the code
  outside tasks, `Root`). `releasing` is the `TaskRef` whose `Drop` runs before
  the thread goes on; a deallocation drops the waker in the task's header, so
  one release may cause another (`Release`).
- Application code is every sequence of API calls: while the thread is in it
  (`UserCode`), any of `Spawn`, `CloneWaker`, `WakeByRef`, `WakeByVal`,
  `DropWaker`, `AbortTask`, `PollHandle`, `DropHandle`, `GiveHandle` may happen
  any number of times, on any task it holds a handle or waker of. A destructor
  drops the handles its future owned before it returns.
- `crashed` is `"assert"` after an `assert!` that fails inside the runtime, which
  never happens (`NoCrash`, theorem `NeverAborts`), and `"spawn"` after the one known
  abort, a destructor that spawns while shutdown has the set's `RefCell` borrowed
  (`SpawnWhileBorrowed`). Nothing follows either.

What the model assumes of applications: a future does not poll the handle of
its own task, and a handle is not polled again after it was ready (both are
documented to panic, or are useless). Destructors do not panic (the runtime
aborts on that by design). Nothing else is assumed.

What it leaves out: the destructor of a task's output (it runs no code of the
task system), the u32 overflow of the reference count, and the order in which
the set's list is shut down (any order is allowed, the code's is one of them).

`JoinPromise.tla` is the abstract specification: what a spawned future gets,
without counts, queues or a thread: a result is stored once and is final, and a
task that is aborted or has a result is done in the end. `Promise` of `Task` is the
refinement mapping, and `PromiseKept` the whole of it; its safety, `PSpec`, is also
proved (section 11).

`LiveIffReferenced`, `QueuedOnce`, `FutureIsRegistered` and `JoinIsNotified` are
proved (section 11) and follow from what the proofs need; no run repeats them.

### Runs

| Run | Instance | Shows |
|-----|----------|-------|
| `task` (MCTask.cfg) | 2 tasks, 1 outside waker each, `FairSpec` | counts are exact, no wakeup is lost, no assert fails, shutdown leaves nothing, `Task` implements `JoinPromise` with its liveness (aborted tasks end), no starvation, shutdown ends |

Two tasks suffice for every race between a task and one other actor, for a cycle of
two that wait for each other (`OnlyCycles`), and for a deallocation that releases the
other. What three do, chains of deallocations and longer cycles, is covered by the
proofs, which hold for any number. One outside waker already
allows a wake at every point of a task's life; wakers held in headers are
counted besides. The bounds of the model are `Tasks` and `MaxWakers`, and no
other. Deadlock is not checked: the system stops when the application is done
or the process has aborted.

### Fairness

`FairSpec` assumes that the thread keeps running. Runtime code waits for
nothing, so its step happens (weak fairness). Application code returns: `block_on`
takes the next Runnable, a poll returns, a destructor drops its handles and
returns. Between two steps of that kind the same code may re-enter the runtime
any number of times, so this is strong fairness of the return. Nothing is assumed about
which calls an application makes, nor that it ever shuts down.

### Disagreements with the documentation

Three need no run to be seen:

- `tasks.rs:44` promises a refused spawn once the set is closed. In a destructor
  that `TaskSet::shutdown` runs, the set's `RefCell` is mutably borrowed,
  `is_closed` panics and the process aborts (`SpawnWhileBorrowed`).
- `tasks.rs:54` promises that outputs are dropped with the set, but the output of
  a task that completed before stays with its handle (`PollReady`,
  `ShutdownTask`: only registered tasks are reached).
- `join.rs:28` says that an aborted task that has not completed resolves to an
  error, but one aborted during the poll that returns `Ready` resolves to its
  value (`CompleteTaskCell` reads no `CANCELLED`); `JoinPromise` allows both.

## 3. The unparker and the driver's sleep

`Unparker.tla` is how the io_uring reactor goes to sleep and is woken:
`driver/unpark.rs` with `Driver::park`, `submit`, `drain` and `shutdown` of
`driver/mod.rs`.

- `flag` is the status word, `waker` where each thread is in `wake_inner` (the
  `fetch_or` is `Wake`, the `write` is `WriteEventfd`), `eventfd` the counter.
- `read`, `ops` and `nop` count the entries (the read of the eventfd, the
  application's operations, the last no-op with `IO_DRAIN`) that are in the
  submission queue, in the kernel, and in the completion queue.
- `at` is the reactor's thread. `Park` is the head of `Driver::park` with
  `drain`; `Submit` is `Driver::submit` up to the system call, where
  `prepare_park`'s `fetch_or` is the one step other threads can see; `Enter`,
  `EnterBusy`, `Interrupted` and `WakeUp` are the ways `io_uring_enter` goes on.
- `SubmitNow` is the submission outside of park, in `cancel` and `close_fd`.
- `ShutdownCancel` is the submission and the synchronous cancellation of `shutdown`,
  `ShutdownFails` the failure of either, EBUSY or a signal: the code unwraps both
  results (`mod.rs:318`), and the thread is `"failed"`.
- The kernel completes armed entries in any order; an eventfd read when the
  counter is positive, an `IO_DRAIN` entry when nothing before it is left.

Left out: what the completion of an operation does (a count here), submissions
by destructors during the driver's shutdown, and errors of `io_uring_enter` other
than EBUSY and EINTR, which leave park and are the executor's to handle.

`Parker.tla` is the abstract specification, what norn-executor asks of a park
layer: a thread blocks, an unpark of a blocked thread forces it, a forced thread
returns (`park/mod.rs`). `P` is the refinement mapping: the reactor is blocked
from the moment `prepare_park` allows a sleep until park returns or starts over.

| Run | Instance | Shows |
|-----|----------|-------|
| `unparker` (MCUnparker.cfg) | 3 threads, a queue of 2 entries, 3 operations | one read and one write at most, wakes are under way, `Unparker` implements `Parker`'s safety, with a queue that may fill; if the read always finds room, unparked means returned (`ParkerReturnsWithRoom`); shutdown ends, or panics in one of its two unwraps, and once those are over it ends (`ShutdownEnds`) |
| `unparker_full` (MCUnparkerFull.cfg) | a queue of 1 | finding 1 below |

Two threads make the race for the write, a third comes after it has been
decided. Three operations fill a queue of two with one to spare.
`ParkerReturnsWithRoom` assumes no bound on the queue, but that it has room
whenever the read is to be queued (`RoomForRead`). `Threads`, `SqSize` and `MaxOps` are the
only bounds: a thread writes once per reset, which bounds the eventfd.
Deadlock is not checked, since the reactor stops after shutdown.

Fairness (`FairSpec`): the reactor's thread goes on (`Reactor`), a thread that must
write does, the kernel completes a read that has data and an entry that waits for
nothing, and after shutdown has cancelled everything each operation completes.
Nothing is assumed of operations before that, of signals, of the application, or
of threads to call `unpark`.

Finding 1, `unparker_full`: `prepare_park` sets the park bit before it queues the
read of the eventfd and leaves it set when the queue is full. The next park believes
that a read is pending and sleeps without one; no unpark can end that sleep
(`park/mod.rs:54`, `unpark.rs:8`).

A second disagreement has no run of its own. A wake that finds the reactor awake
sets the remote bit and does not write (`unpark.rs:22` says that who sets it does,
`unpark.rs:125`). Nothing resets the word any more: later wakes do not write either,
and from then on every park returns at once. `RemoteIsWritten` states the comment;
as an INVARIANT of `MCUnparker` TLC finds it violated in a few steps.

## 4. The timer wheels

`Wheels.tla` is norn-timer: sleeps (`entry.rs`) in hierarchical wheels (`wheels.rs`,
`level.rs`) that `Driver::park` (`lib.rs`) advances to the tick of a clock.

- `WheelMath.tla` is the arithmetic. A level is a digit of a tick in base
  `Slots`, and a slot is the value of that digit: `WheelFor` is the highest digit
  in which the elapsed time and a deadline differ. The range of a level is a power of
  `Slots`, by recursion (`Power`). `WheelBits.tla` has the masks, leading zeros,
  shifts and rotations of the code, on words, which are sets of bits (`Word`, `Number`);
  `BitsAreDigits` compares the two. It has a size of its own (`BitLevels`), for the code
  needs as many bits in a digit as there are levels, while a run of the wheels needs three
  levels and few slots: all bitfields of two levels of four slots and all pairs of words of
  six bits, two more than the levels can tell, so that the cap at `MAX_DURATION` is
  reached. It says the same in every state, so TLC evaluates it in the initial one. The
  theorem is for every size (section 11).
- `state`, `duration`, `deadline`, `complete` are a sleep and its entry; `place`
  is the level and slot whose list links it; `elapsed` and `shutdown` are the
  wheels. The bitfield of a level is the set of its occupied slots.
- `Sleep`, `Poll`, `PollFired`, `Drop` and `Reset` are what the application does.
  `Park` reads the clock, each `Expire` is one round of the loop of
  `Wheels::advance`, `EndAdvance` puts back what has not expired and calls the
  park layer below, which sleeps until `until` at most and may return before
  (`Wakeup`). `Tick` is the clock, in moments of which `Unit` make a tick.
- An entry that would be removed from a list it is not in, and a `debug_assert`
  that fails, end in `at = "crashed"`; a reset of an entry that is registered, whose
  `debug_assert` fails, in `"misused"`.

Left out: the waker an entry stores, and the overflow of ticks of 64 bits. Wakers only
schedule tasks, so no application code runs within a park.

`FlatTimers.tla` is the abstract specification, sleeps with due ticks and no
wheels: a sleep ends when its tick has come, and when the driver rests none that
is due is left. `F` is the refinement mapping.

| Run | Instance | Shows |
|-----|----------|-------|
| `wheels` (MCWheels.cfg) | 2 sleeps, 3 levels of 2 slots, 2 moments per tick, durations 0 to 4 ticks | `Inv`: every entry is where `remove` looks for it, none is overdue, and the thread never sleeps past one; `BitsAreDigits`; the wheels implement `FlatTimers` (`TimersKept`), and sleeps whose tick comes end |

Three levels make an entry cascade twice, and nine ticks turn the last level
more than once; two slots make every carry happen within those. Durations
go up to `Horizon` (`Slots - 1` slots of the last level; this is `ShortSleeps`, the
hypothesis of the theorems, which the run checks), because a sleep of a full rotation lies in the current slot of the last level: the search for the
next slot starts there and takes it for the nearest, and sleeps in later slots go
overdue unnoticed (with durations of 1, 2 and 4 ticks and two levels, TLC finds
`NoneOverdue` violated). `level.rs:88` says that durations are limited, which no
code does; in the code it takes a sleep of about two years beside one of more
than twelve days. Two sleeps suffice for one that hides, delays or shares the
slot of another. The bounds are `Durations` and `MaxTime`.

Fairness (`FairSpec`): the clock goes on however often a park interrupts it (strong,
because a park reads the clock once), and the driver does not stop in the middle of
an advance, nor stays out of parks forever (`block_on` is that loop); this is stated
as `[]<>` of the states outside, which TLC checks faster than the fairness of each
step. The layer below returns when its timeout is over. The property is about ticks
that come before `MaxTime`.

Disagreements with the documentation, by reading and with `MCWheels`:

- A pending timer's timeout replaces `NoPark`, that of the caller and that set when
  sleeps were fired (`lib.rs:166`), so ready tasks wait for it; `park/mod.rs:69` asks
  layers to respect the mode. `ModeIsRespected` states that, and TLC refutes it.
- `Sleep::reset` does not change the entry's state, so a registered entry fails a
  `debug_assert` (`entry.rs:98`) and a fired one stays fired, against `entry.rs:92`.
- Deadlines count from the tick of the last park (`Poll`), not from the clock, so a
  sleep made after a long poll ends early, against `lib.rs:113`: with `Unit = 1`,
  one `Tick` between a park and a `Poll` shows it.

## 5. The operations

`Operations.tla` is an io_uring operation from `Op::new` to the last reference of
its memory: the future and its stages (`operation/mod.rs`), the memory it shares
with the kernel (`raw.rs`, `header.rs`), the wait for room in the submission queue
(`futures.rs`, `notify.rs`) and the driver (`driver/mod.rs`).

- `op[o]` is the operation at address `o`. Its `stage` is its future's; a future
  that is dropped while the kernel has the operation leaves the address
  `dropped`, and when the last reference goes the address is free, and used again.
  `refcount`, `waker`, `completions`, `complete` and `data` are its header;
  `wait` is the `Notified` of its `PushFuture`, and `woken` says that its task
  will poll it.
- `waiters` is the list of `Notify`; `sq` and `cq` are the rings, entry by entry;
  `armed` and `cancelled` are what the kernel has.
- `held` counts the results the kernel gave for an operation and nobody consumed
  or cleaned up. It is not in the code: it stands for descriptors and buffers.
- One thread runs everything but the kernel. `at` is where it is: in tasks
  (`New`, `Poll`, the `Drop...` actions, `CloseFd`), in `Driver::park` (`Park`,
  `Reap`, `EndDrain`, `Prepare`, `Enter`, `WakeUp`) or in `Driver::shutdown`.
- A failed assertion of the operations is `at = "crashed"`; a failed unwrap of
  `Driver::shutdown` is `"failed"`.

What it abstracts: results have no values; the read of the eventfd, `close_fd`
entries and their completions only fill the queue; `io_uring_enter` takes all
entries or fails with EBUSY (only when completions are pending) or EINTR; an
operation is polled by one task, which polls it again after each wake.
`Prepare` has every outcome of `prepare_park`; the word behind it is `Unparker`'s.

| Run | Instance | Shows |
|-----|----------|-------|
| `operations` (MCOperations.cfg) | a singleshot and a multishot operation, a queue of 1 entry, one completion with more to come | `Inv` (counts are exact, no assertion fails), results are consumed or cleaned up once, no wakeup and no room is lost, a late cancellation never hits the next operation of its address, dropped operations end, shutdown ends |

Each address is used any number of times, so two stand for a sequence of
operations. A queue of one entry is full after every push, and `CloseFd` and the
driver fill it as well, so that both operations wait at once and a notified one
finds it full again. One further completion makes the last one not the first.
`Ops`, `SqSize` and `MaxMore` are the only bounds. Deadlock is not checked: the
system stops after shutdown.

Fairness (`FairSpec`): the driver's steps happen, the executor parks, and it polls
a woken task although it may do other things between (strong fairness); a sleep
ends when a completion is there; the kernel completes what is cancelled and the
entry with `IO_DRAIN`. An operation that is not cancelled may take forever.

One disagreement: the waiters are notified after `io_uring_enter`, which makes room
first and then may sleep (`driver/mod.rs:426`). A future that waits for room sleeps
with the driver, next to an empty queue, until some earlier operation completes,
against `driver/mod.rs:104` ("this will block until there is space"). `needs_park`
makes the executor park for that future, but with the mode `NextCompletion`.
`WaiterIsNotified` states the comment, and TLC refutes it.

Also seen: `Driver::shutdown` unwraps a submission that
may fail with EBUSY (`CancelBusy`), where `driver/mod.rs:186` asks for a retry.
When the submission in `Op`'s drop fails, the cancellation is given up (`unsent`),
and `DroppedIsFreed` is stated with that exception. A multishot stream hands out
the latest completion first (`PollStream`).

## 6. The descriptors

`Descriptors.tla` is `NornFd` (`fd.rs`) and the operations of sockets and files as
far as they hold a descriptor or make one.

- The kernel's `table` maps numbers to files, and gives the lowest free number; a
  number that is closed twice may be another file's by then. Each request to close
  carries, for the properties only, the file it was meant for and its cause.
- `fd[f]` is the `NornFd` of a file: how many handles the application has (`app`),
  and where a `close` of it is (`closer`). The count of the `Rc` is `Strong`.
- `op[o]` is an operation with the clone it holds and the results that nobody has
  taken. `Complete`, `Update`, `DropSent` and `Destroy` are what becomes of them;
  `Cleanup` is the `cleanup` of each operation.
- `closes` are requests to close that nobody waits for, `leaked` the files for which
  the queue could not take one (`close_fd` logs that and goes on).

The waiting for room, the order of the queue and shutdown are left to `Operations`;
a request that is pushed reaches the kernel at any time. The bytes an operation moves
are left out: a `"transfer"` stands for every operation that only uses a descriptor.

| Run | Instance | Shows |
|-----|----------|-------|
| `descriptors` (MCDescriptors.cfg) | 2 files, 2 operations, 3 numbers, 1 result of a stream before its last | `Inv`: what an operation or a handle uses is open under its number; a close hits its own file but in the ways of finding 2; nothing is leaked; a close that waits ends |
| `descriptors_kept` (MCDescriptorsKept.cfg) | the same | finding 2 |

Two files are one that is closed and one that takes its number; two operations are
one that holds a descriptor while another makes one. The third number is 0, which is
open from the start. Files, operations and numbers are used again and again.
`MaxResults` is the only other bound. After a wrong close (`harm`) no step follows,
which is what `harm = "none"` in the properties is about.

Fairness: a close that is woken is polled, and the kernel executes it.

Finding 2, `descriptors_kept`: `Connect::cleanup` takes the result of a connect whose
future was dropped for a descriptor (`socket.rs:530`). A connect that succeeds has the
result 0, so number 0 is closed. Two more ways lead to a wrong close: the future of a
`close` is dropped after its `CloseFd` was submitted (cause `"cancelled"`), or the
close fails after the kernel closed the number (`fd.rs:83` returns before `closed` is
set); in both the drop of the last owner closes the number again (`"again"`).
`ClosesItsOwn` says that there are no others.

Not modelled, by reading: `Inner::drop` calls `Handle::current`, which panics when the
last owner is dropped outside of the runtime.

## 7. The buffer rings

`BufRing.tla` is `bufring.rs` with the receives that use it (`RecvFromRing`).

- `ring[r]` is an `InnerBufRing`: its entries (`slots`), the application's `tail` and
  the `shared` one that the kernel reads, and the application's clones. `head` is the
  kernel's index, `group` the ring it has for each identifier.
- A push and its `Sync` are two steps, and the kernel may take entries between. The
  application is one thread: nothing else of it happens between the two (`Quiet`).
- `held` counts the `BufRingBuf`s of a buffer, `op` are the receives.
- Indices are taken modulo `Width` (2^16 in the code), entries modulo their number,
  both powers of two.

| Run | Instance | Shows |
|-----|----------|-------|
| `buf_ring` (MCBufRing.cfg) | 2 rings, one identifier, `Width` 8, requests of 2 entries, of 3 (rounded to 4), and of 5 (refused); 2 receives, 2 clones | `Inv`: a receive belongs to the ring the kernel has for it; `Conserved`: every buffer is in one place; `OfferedIsStable`: no entry changes while the kernel may read it |

A tail of three bits wraps every eight buffers, and the largest ring that it allows
has four entries, as 2^15 is the largest for 2^16. Two rings with one identifier are
one after the other. Rings and receives are interchangeable, hence the symmetry; no
liveness is checked here. `MaxHandles` and the requests are the bounds.

Disagreements, by reading and with this model: a `Builder` whose registration fails
drops a ring that was never registered, and its `Drop` unregisters the identifier
(`bufring.rs:430`). If another ring has it, that one is unregistered with receives
outstanding, against which `bufring.rs:318` warns; else the failure of that is
unwrapped and panics, where an error should be returned. `FailureIsReported` states
this, and TLC refutes it. The `Drop` also takes the handle of the current thread's driver
(`bufring.rs:432`), and panics where there is none: the last owner of a ring has to go
while the runtime is entered, and the model drops it nowhere else. A receive that succeeds without a buffer, as at the end of
a stream, is unwrapped in `get_buf` (`bufring.rs:370`). After either, no step follows.

## 8. The streams

`Streams.tla` is one half of a `TcpStream`: `ReadyStream` of `net/tcp.rs` between the
events of a multishot `Poll` and system calls that may block.

- `notified` and `armed` are its fields, `events` the completions of the `Poll` that
  were not taken; `at` is where the task is in `poll_op` and `poll_ready`.
- `room` is what the socket has, and `signal` says that the kernel is to look at it:
  it does so when it gets the `Poll` and when something comes (edges, not levels).

| Run | Instance | Shows |
|-----|----------|-------|
| `streams` (MCStreams.cfg) | room for 4, 3 events | `Inv`: a task that waits beside a socket that has something is woken, or a `Poll` will find it; such a wait ends; a call returns or waits |

Four is room for a call that takes part and one that takes the rest, and new arrivals
between. Three events are one that is taken, one that is stale and the last. Both
bounds (`Room`, `MaxEvents`) are constants of the module. The two halves of a stream
share only the descriptor, which is in `Descriptors`.

Fairness: the executor polls a woken task, a call goes on, and the kernel takes what
is pushed and looks when it is told. Nothing is assumed of the peer.

## 9. The executor

`Executor.tla` is `LocalExecutor::block_on` over the two layers it is used with, the
timers and io_uring: who is polled, when the thread sleeps, and what is left when the
executor is dropped.

- `notified` is `poll_root` of the root future's waker, `queue` the task queue; a
  future is any sequence of waking others, spawning, starting an operation or a timer.
- `op` is the operation each future waits for, from the wait for room to its
  completion; `timers` the futures with a pending timer.
- `Park` is the timer driver's part and the driver's `drain`; `SubmitOnly` and `Sleep`
  the submission; `WakeUp` and `TimedOut` the end of the sleep. The `mode` is what the
  layers make of the caller's.
- A future is dropped (`Dropped`) when it completes or, if a task, panics, which
  `future_cell.rs:113` catches (`Finish`); when the panic of the root future, or that of
  `block_on` itself, unwinds (`Panic`, `Unwind`); and in the drop of the executor
  (`DropFuture`). Its destructor wakes whom it likes. An operation that it has in flight is
  cancelled by `Op`'s drop: everything queued is submitted and a cancellation pushed, or
  the submission fails with EBUSY and the operation is left alone. Either way it stays in
  `op`, under the name of a future that is not alive, until it is over and reaped.
- An executor is made with nothing in it (`at = "returned"`), takes spawns through a
  handle, runs any number of root futures one after the other (`BlockOn`), and is
  dropped in between (`Drop`), with whatever a root future that completed or panicked in
  the middle of a poll has left: queued tasks, entries in the submission queue, operations.
  `DropFuture` and `ShutTasks` are the shutdown of the tasks; `ShutTimers`, then `Stop` and
  `Drain`, that of the layers. `StopFails` is the panic of one of the two unwraps
  (`driver/mod.rs:318`). `own` is the entry of the driver's own, a cancellation or the last
  no-op.

What is inside of each (counts, wheels, the status word) is in the other modules; a
future waits for one operation and one timer at most. A name is given to a new future
when the operation that was left under it is over; what an earlier root future left
takes the name of a task that is not used, so that the next root future need not wait
for it. The completion of a cancellation that finds nothing is a stray wakeup: it ends
the sleep that submitted it (`Interrupted`), as a signal does, and is otherwise left out,
with the retries after EBUSY and EINTR (`Unparker` and `Operations` have these). The
destructors of the drop spawn nothing: to do so aborts the process (`Task`).

| Run | Instance | Shows |
|-----|----------|-------|
| `executor` (MCExecutor.cfg) | the root future, 2 tasks, a queue of 1 entry | `Inv`: the thread sleeps beside a task in the queue only if a layer asked for the park or a timer made it a timed one; a dropped executor leaves no task, no timer and nothing with the kernel (`NothingIsLeft`); a task in the queue is run; a woken root future is polled; the drop ends, or panics in `StopFails` (`DropEnds`) |
| `thread_park` (MCThreadPark.cfg) | | finding 3 |

Two tasks can keep each other running, and fill the queue of one entry and wait for
room. There are no bounds: `Tasks` and `SqSize` are the only constants.

Fairness: the thread goes on, and a sleep whose completion is there or whose time may
be over ends. `TaskIsRun` assumes that no sleep lasts forever; `RootIsPolled` that the
tasks do not keep each other running, since `block_on` polls the root future only when
the queue is empty (`lib.rs:72`). `DropEnds` needs the kernel to complete what it was
told to cancel; it excepts the failure of the driver's last submission or cancellation,
and says that once these have succeeded the drop does end. `NothingIsLeft` is about a drop
that has ended, and claims nothing of one that has failed.

Disagreements, stated in the module and refuted by TLC: the thread sleeps although
tasks are ready (`SleepsWhenIdle`, against `lib.rs:38`), after `needs_park` or with a
timer pending; and a timed sleep that submitted nothing ends with ETIME, which
`block_on` unwraps (`TimeoutReturns`, `lib.rs:82`).

`ThreadPark.tla` is the other park layer, a condition variable (`park/thread.rs`),
measured against `Parker` with `P`. Finding 3, `thread_park`: the wait has no flag
beside it, so an unpark between the call of `park` and the wait wakes nobody and is not
remembered (`thread.rs:77`, `park/mod.rs:54`).

## 10. The poll set

`PollSet.tla` is `norn-util/pollset.rs`: a future that runs tasks of its own. `waker` is
the one of its parent, which is used once and stored again when the queue is empty;
`parentWoken` says that the parent will poll.

| Run | Instance | Shows |
|-----|----------|-------|
| `poll_set` (MCPollSet.cfg) | 3 tasks | `PInv`: a task that is woken between two polls has woken the parent; it is run, however often the others wake themselves and each other |

Three tasks are one that must be run and two that keep each other running. Tasks are
woken on the thread of the set, which is not `Sync`. Fairness: a poll goes on, and a
parent that is woken polls. Spawning wakes nobody: who spawns is to poll.

Not stated by any text, and seen here: the drop of a set empties its queue and no more.
Its tasks hold the set's registry and the registry holds them, so they leak (`Drop`).

## 11. What is proved

### The task system

`TaskProofs.tla` proves, for any finite set of tasks and any `MaxWakers`, that
`IInv` is an invariant of `Spec` (theorem `Inductive`), and from it the
theorems listed in `PROJECT.json`: the type invariant, `RefcountExact`,
`LiveIffReferenced`, `QueuedOnce`, `NotifiedIsQueued`, `FutureIsRegistered`,
`JoinIsNotified`, `ShutdownIsFinal`, `LeaksAreCycles`, and `Inv` (the types and `NoCrash`:
`NeverAborts`). The only assumption is `TaskAssumption`, which every run evaluates.

Why the properties are not inductive alone, and what `IInv` adds:

- Counting (`RefcountExact`) needs to know that the places it counts are
  distinct: that a task is queued once (`QueuedOnce`) and that the code about to
  queue a task finds it not queued, which depends on where the thread is
  (`PhaseInv`, `RunningInv`).
- That an operation is called on a live task comes from counting: whoever calls
  holds a reference (lemma `Referenced`), and a positive count means live memory
  (`LiveInv`). The asserts of `state.rs` follow.
- Shutdown needs that a task that is not complete is registered
  (`CompleteInv`), and what is left at each point of the way (`ClosedInv`).

There is one lemma per action (`SpawnInv`, `ReleaseInv`, ...), each with one step
per part of `IInv` that the action can disturb; the arithmetic of counting is in
`WaitingChange` (the headers that hold a waker) and `CountFacts`.

`TaskImplementsPromise` is the safety of the refinement of `JoinPromise`: every step of
`Task` is a step of `JoinPromise` or a stutter. `IInv` says where a task's future is, not
what its result may be; `ResultInv` adds that a live task without a future that is not
complete is the one the thread works on, before `complete_task`, with its result in place,
and that a registered task is complete only while it is unregistered.

Three theorems are about the steps that the liveness properties are made of.
`TasksRunInTurn`: in every step a queued task keeps its place or moves up by one, because
the thread takes the first; `QueueHasRoomForAll`: there are no more places than tasks; so
`NotifiedIsPolled` asks of fairness only that the thread comes back to the queue.
`ShutdownDescends`: once the set is closed the list of registered tasks never grows, and
each turn of the loop of `TaskSet::shutdown` takes a task off it or ends the loop.

Model-checked only: the liveness half of `PromiseKept`, `NotifiedIsPolled` and
`ShutdownEnds` (run `task`); liveness is out of the prover's reach.

### The unparker

`UnparkerProofs.tla` proves, for every finite set of threads, queue size and
number of operations, that `UInv` is an invariant (`UnparkerInductive`). From it
follow `Inv` (the types, `OneRead` and `OneWrite`) and `WakeIsUnderWay`.
`UnparkerIsParker` is the refinement: every step of `Unparker` is a step of `Parker`
or a stutter.

Two theorems are finding 1 for every queue. `SleepsWithItsRead`: the reactor sleeps
with its read of the eventfd armed, or else the read is lost, which is to say that the
park bit is set with no read out (`LostRead`); and the only step that loses it is
`prepare_park` on a full queue (`ReadIsRefused`): no timeout, EINTR, EBUSY, wake, late
completion or submission outside of park does. `LostForGood`: until the shutdown drains,
no step brings a lost read back. `ParkerReturnsWithRoom` is the other side, that without
such a step every unpark is heard.

`UInv` adds what the status word says while the driver runs (`WordInv`): no read
is pending when the park bit is unset; there is a write only when both bits are
set; and a reactor bound to sleep set the park bit when the remote bit was unset,
so that a remote bit it has now came with a write. The number of writing threads
is a cardinality, and `WritersStep` is where the facts about finite sets are used.

`ShutdownNeedsNobody` proves `ShutdownIsServed`: when the driver sleeps in its shutdown there
is a completion, or the kernel has an operation to end, or it has the last entry and nothing
that keeps it back. In particular no read of the eventfd is left, which only another thread's
unpark would end: `shutdown` cancels it, and `EndInv` adds to `UInv` that nothing arms one
again. These are the guards of the steps that the fairness of `ShutdownEnds` is about.

Model-checked only: `ParkerReturnsWithRoom` and `ShutdownEnds` of the unparker.

### The timer wheels

`WheelsProofs.tla` proves `Inv` of `Wheels` (`WheelsInvariant`) and the refinement of
`FlatTimers` (`WheelsImplementFlatTimers`, `TimersKept`) for any number of levels and
slots, any set of sleeps and any clock. The assumptions are `WheelMathAssumption` and
`WheelsAssumption`, which every run evaluates, and the hypothesis `ShortSleeps`, without
which both are false (section 4). The argument has three layers, and the bits of the code a fourth:

- *Arithmetic.* `Upper(n, l)` is a tick without its last `l` digits. Its laws
  (`UpperNext`, `UpperAtLeast`, `SameAbove`) come from the definition of division and from
  the law of the powers, `PowerLaw`. The latter is an induction, and the library's
  induction theorems cannot be used here; it is done with the least number for which the
  law would fail (`LeastNumber`), and the existence of the function that the recursion
  describes with tables of its first values (`Powers`). `WheelForIs` says which level
  `WheelFor` finds, `SlotBegins` when the slot of an entry turns (`Turn`), with the one
  rotation of the last level that its assertion allows, and `StillPlaced` that until then
  the entry's place does not depend on the present.
- *What comes next.* `NextIsFirst`: the slot that `next_expiration` names, on the lowest
  level that has one and the nearest there, turns before the slot of any other entry
  (`NearerIsSooner` on one level, `HigherIsLater` between levels), and no later than the
  deadline of each entry in it.
- *Steps.* `IInv` says that every linked entry is within `Horizon` of the elapsed time, at
  the place that this time and its deadline give (`Wheeled`), that linked are the
  registered ones but for those to be put back (`Listed`), which lie ahead of the tick
  (`PendingInv`), and that the wheels never run ahead of the clock (`ClockInv`); TLC checked
  it first, on the instance of the run. `PlacedByDeadline` alone is not inductive: that a
  turn leaves an entry's place right needs that nothing was overdue, and that the level
  can tell its slot from the current one. A turn (`ExpireStep`) empties the slot that comes
  next and moves nothing else, by `NextIsFirst` and `StillPlaced`; the end of an advance
  puts the rest where the tick says (`EndAdvanceStep`).
- *Bits.* `BitsMatchDigits` proves `BitsAreDigits` for words of any width, every pair of
  ticks and every bitfield, under `CodeWheels`: that there is more than one level, that the
  digits of all levels fit in a word (`WordFits`, which `MCWheels` has TLC evaluate), and
  that the wheels have the size of the bits. That is what `NUM_LEVELS`, used for the levels
  and for the bits of a slot, relies on. A digit is a group of bits by the law of exponents (`TwoOfSum`, `SlotRangeIsTwo`); ticks agree above a level
  exactly when no bit above it differs (`UpperIsShifted`, from `SameBits` and its converse);
  so the highest bit that differs lies in the highest digit that does, the mask gives the
  first level when they differ in no other, and the cap the last (`WheelForBitsIs`). That
  the comparison with `MAX_DURATION` is one of numbers and the rest one of bits is bridged
  by `NumberIs` (every word is that of a number) and `LessIs`. The rotation is arithmetic
  of remainders (`AheadIs`, `NextSlotBitsIs`).

`EveryRoundTurns` says that each step within an advance moves the elapsed time on and never
past the tick: the loop of `Wheels::advance` ends, which the fairness of section 4 (no
behaviour stays in an advance) takes for granted. `NoneEndsEarly` needs no hypothesis: of
sleeps of any length, none ends before the clock has come to its tick, unless the driver
shuts down; it is only late that a sleep of more than a rotation can make others.
`SleepsEnd` is model-checked.

### The streams

`WakeupProofs.tla`, which has the two protocols that hand a wake-up on, proves `Inv` of
`Streams` for every size of the socket and every
number of events. `WaitIsCovered` is about a task that waits, and becomes true or
false long before: `SInv` adds that a half forgets its notification only when the
socket has nothing (`SignalInv`), that events belong to a `Poll` that the kernel has
or ended, an error being its last (`EventsInv`), and that the first of them wakes the
task (`PendingInv`). `WaitEnds` and `CallReturns` are model-checked.

### The executor

`ExecutorProofs.tla` proves `Inv` of `Executor` for any number of tasks and any queue.
The reason for a sleep is laid down in three places, and `EInv` follows it: a park
begins with tasks queued only if a layer asked for it (`ParkInv`); whoever the layers
wake makes the park one that does not sleep, or leaves a timer (`ModeInv`); and
`NoPark` never sleeps (`SleepInv`). `DropLeavesNothing` proves `NothingIsLeft`: the drop goes
through its parts in order, and `DropInv` says what each has left empty for the rest. That
the drop may come after a future that was dropped in the middle of its poll enters by
`DroppedD`: of such a future nothing remains but the operation it has submitted, so only
futures that are alive are queued, wait for room or have a timer (`QueueInv`, `OwnedInv`).

Four theorems say what the liveness properties rest on, without fairness. `DropWork` counts
what is left of a drop: the stages to go, the futures that live, and for each operation, the
read of the eventfd and the driver's no-op the steps until it is reaped. It goes down with
every step, whoever takes it (`DropStepsAreBounded`); and while the ring is drained there is
a step that needs no other thread (`DrainNeedsNobody`), because the write that `shutdown`
makes has ended the read and no park of the drop starts another (`StopInv`). The panic of
`StopFails` is such a step, and the last one. That leaves `DropEnds` to the kernel and the
thread taking the steps they can. Of `TaskIsRun`, `TasksRunInTurn` proves that a queued task
keeps its place or moves up, and `QueueHasRoomForAll` that there are no more places than
tasks; what is left to fairness is that the thread comes back to the queue. `TaskIsRun`,
`RootIsPolled` and `DropEnds` as such are model-checked.

### The poll set

`WakeupProofs.tla` proves `PInv` for any number of tasks. `SetInv` adds that the waker is
there when no poll is under way, or has been used, or that no task was ever polled
(`WakerInv`), and that one task is polled at a time, whose waking of itself is acted on
before the poll goes on (`PollInv`, `QueueInv`). `SetQueueIsExact` proves that the queue holds
those that are spawned or woken and not run since, each once; and `SetRunsInTurn` that each of
them keeps its place or moves up when the first is run. `WokenIsRun`, which rests on these, is
model-checked.

### The operations

`OperationsProofs.tla` proves `Inv`, `ResultsKept`, `RoomIsOffered`, `TaskIsWoken` and the
action property `CancelsItsOwn` for any finite set of operations, singleshot or
multishot, any queue and any number of completions. `OInv` has three arguments:

- *Where the entry is.* The reference that an operation's entry has is in the submission
  queue, in the kernel or in the completion queue, in one of them and once (`Rings`).
  `Good` says what the memory of an operation may be, given that place and the number of
  its completions that wait; so there is one lemma per way the memory changes
  (`PushIsGood` to `EndedIsGood`), one per way the queues do (`Pushes`, `Takes`, `Posts`,
  `Reaps`), and a step combines the two. Counting, results and wakeups are conjuncts of
  `Good`.
- *Who waits.* The list has those whose `Notified` is linked, once (`Waits`): so `notify(n)`
  fires `n` of them or empties the list. `Offered` says that the notified, the free
  entries and what a sleep has submitted add up to the queue; outside a sleep that is
  `RoomIsOffered`.
- *What a cancellation names.* A cancellation that is to reach an operation is for one that
  was dropped (`Aimed`). It is not enough that the queue is submitted before the
  cancellation is pushed; the address is used again only when the entry is nowhere, and
  until then the memory keeps saying that it was dropped.

Four more theorems say what the liveness properties rest on, and what waiting for room means:

- `DropsAreCancelled`: an operation whose future was dropped is cancelled, or a cancellation
  for it is behind it in the queue (`Hit`), or its last completion is to be reaped, unless
  the cancellation could not be submitted. The argument is that of every step: a submission
  makes of the second the first, the kernel of the first the third, and reaping the third
  ends the operation (`MeantStays`); and only the drop of a future that was submitted leaves
  one behind (`OnlyDropsDrop`, `MeantByDrop`). `DroppedIsFreed` asks no more of fairness
  than that the queue is submitted and that the kernel answers what is cancelled.
- `WaitersTakeTurns`: nobody is notified while one before him goes on waiting, and the drop of
  a waiter does not change the order of the others. A step does one of four things to the list
  (`WaitersStep`), and there is a lemma for each.
- `NothingIsInTheKernel` and `ShutdownSleepIsServed`, from `EndInv`: once all is cancelled
  nothing joins what is in the kernel, and the entry with the `DRAIN_TOKEN` is in the queue, in
  the kernel or the last of the completions. So when `Driver::shutdown` returns the kernel has
  nothing of the program, whatever destructors submit later, and until then a park that sleeps
  is one the kernel will end.

`DroppedIsFreed` and `ShutdownEnds` as such are model-checked.

### The descriptors

`DescriptorsProofs.tla` proves `Inv` and `NoneLeaked` for any set of numbers, files and
operations. To the program a file is alive (a `NornFd` has it), or was made by an
operation and not taken, or is asked to be closed. `FdInv` says that the three exclude
each other, that what is alive or made is open under the number that names it
(`AliveIsOpen`, `MadeIsOpen`), and that the first request to close a file is the only one
(`AskedIsOver`), until a file was closed that was not meant. Every operation ends by
passing on what it made and dropping what it used, in one order or the other: the lemmas
`Passing` and `OperationEnds` are about that, and the ways it can end cite them.

### The buffer rings

`BufRingProofs.tla` proves all three invariants of `BufRing` for any rings, receives,
width and sizes.

- `RingsOutliveReceives` (`Inv`): what owns a ring (a clone, a buffer, a receive) keeps it
  alive, and the rings that live and the kernel's groups are one to one, until a failed
  `Builder` has unregistered another's ring (`harm`).
- `BuffersAreConserved`: the entries between the kernel's index and the tail hold
  different buffers, and none of them the buffer that is pushed; so there are fewer of
  them than entries, and the new entry overwrites none. The pigeonhole is
  `FS_Injection`; that indices wrap while entries are counted modulo their number needs
  the number to divide the width, which is why both are powers of two.
- `OfferedIsKept`, the action property, follows from the same.

### What is model-checked only

All liveness, the half of `PromiseKept` that is about it included, because the provers
have no rule for fairness and ENABLED. Every other property of the passing runs is a
theorem. For most of the liveness properties a theorem states the safety half: that there is
a step to take (`DrainNeedsNobody`, `ShutdownNeedsNobody`, `ShutdownSleepIsServed`,
`DropsAreCancelled`), or that a step makes progress (`DropStepsAreBounded`, `EveryRoundTurns`,
`ShutdownDescends`, and the turns of the queues). What TLC adds is that the fairness stated
for each module makes these steps happen. `ParkerReturnsWithRoom`, `RootIsPolled`, `CloseEnds`,
`WaitEnds` and `CallReturns` have no such theorem beyond the invariants of their modules.

## 12. Plan

Done, in this order: the task system (`TaskState`, `Task`, `JoinPromise`), the unparker
(`Unparker`, `Parker`), the timers (`WheelMath`, `WheelBits`, `Wheels`, `FlatTimers`),
`Operations`, `Executor` with its drop, `ThreadPark`, `Descriptors`, `BufRing`, `Streams`
and `PollSet`, with the proofs of section 11. What would come next:

1. *Progress.* Section 11 has theorems about the steps of most liveness properties. Left are
   `CloseEnds`, `WaitEnds` and `CallReturns`, whose measures would count the entries of the
   rings and the events of a socket.
2. *Composition.* `Unparker` implements `Parker`. `Executor` and `Operations` have sleeps of their
   own, without the status word: with it in them, they could be measured against `Parker` too.

## 13. Not modelled

- `buf.rs`, `fs/opts.rs`, `fs/dir.rs`: data wrappers, builders of options and one-shot
  calls, without state over several steps.
- `SpinPark`: a park that returns at once, and an unpark that does nothing.
- Formatting of errors and addresses (`error.rs`, parts of `net/socket.rs`), benchmarks,
  build files and continuous integration.
- Of the modelled parts: what each section names as left out.
