------------------------------- MODULE Wheels -------------------------------
(***************************************************************************)
(* The timer driver of norn-timer: sleeps (entry.rs) in hierarchical       *)
(* wheels (wheels.rs, level.rs) that Driver::park advances (lib.rs) to the *)
(* tick of a clock.                                                        *)
(*                                                                         *)
(* Everything runs on one thread, and wakers only schedule tasks.  A park  *)
(* is a step that reads the clock, a step for each slot that expires, and  *)
(* one that puts back what has not expired and calls the park layer below. *)
(***************************************************************************)
EXTENDS WheelMath

CONSTANTS
  Timers,       (* the sleeps that may exist at a time                      *)
  Unit,         (* moments per tick: the clock is finer than a millisecond  *)
  Durations,    (* bound: the durations of sleeps, in moments               *)
  MaxTime       (* bound: the last moment of the clock                      *)

ASSUME WheelsAssumption ==
  /\ Unit \in Nat \ {0}
  /\ Durations \subseteq Nat /\ MaxTime \in Nat

(* How far ahead an entry may lie for the last level to tell its slot from *)
(* the current one.  level.rs:88 says that timers are limited to what one  *)
(* rotation of the last level reaches; nothing in the code limits them, so *)
(* this is a hypothesis of the theorems, and of the durations of the run.  *)
Horizon == (Slots - 1) * SlotRange(Levels - 1)

ShortSleeps == \A d \in Durations : d \div Unit <= Horizon

VARIABLES
  time,      (* the clock, in moments                                       *)
  state,     (* Entry::state, "None" for no sleep                           *)
  duration,  (* Sleep::duration                                             *)
  deadline,  (* Entry::deadline                                             *)
  complete,  (* Entry::complete                                             *)
  place,     (* the level and the slot whose list links the entry           *)
  elapsed,   (* Wheels::elapsed                                             *)
  shutdown,  (* Wheels::shutdown                                            *)
  at,        (* where the thread is                                         *)
  tick,      (* Wheels::advance: now                                        *)
  pending,   (* Wheels::advance: the entries to be put back                 *)
  fired,     (* Wheels::advance: whether an entry was fired                 *)
  mode,      (* the ParkMode of the park under way                          *)
  until      (* the moment until which the layer below may sleep            *)

entries == <<state, duration, deadline, complete, place>>
parking == <<tick, pending, fired, mode, until>>
vars == <<time, entries, elapsed, shutdown, at, parking>>

(* Outside of park, in Wheels::advance, in the park of the layer below,    *)
(* after shutdown, or panicked: at an assertion of the wheels, or at that  *)
(* of a reset.                                                             *)
At == {"run", "advance", "asleep", "stopped", "crashed", "misused"}

ParkMode == [kind : {"NoPark", "Timeout", "NextCompletion"}, ticks : Nat]
NoPark   == [kind |-> "NoPark", ticks |-> 0]
Timeout(n) == [kind |-> "Timeout", ticks |-> n]
NextCompletion == [kind |-> "NextCompletion", ticks |-> 0]

Nowhere == <<>>
Linked(t) == place[t] # Nowhere

-----------------------------------------------------------------------------
(* What expires next.                                                      *)

Occupied(where, l) == {s \in Slot : \E t \in Timers : where[t] = <<l, s>>}

HasNext(where) == \E l \in Level : Occupied(where, l) # {}

(* Wheels::next_expiration: of the first level that has an entry. *)
NextExpiration(where, now) ==
  LET l == CHOOSE l \in Level : /\ Occupied(where, l) # {}
                                /\ \A k \in Level : Occupied(where, k) # {} => l <= k
      s == NextSlot(Occupied(where, l), l, now) IN
  [level |-> l, slot |-> s, deadline |-> SlotDeadline(l, s, now)]

(* Its debug_assert: only the last level rotates. *)
NextExpirationOk(where, now) ==
  HasNext(where) =>
    LET next == NextExpiration(where, now) IN
    SlotStart(next.level, next.slot, now) <= now => next.level = Levels - 1

-----------------------------------------------------------------------------
Init ==
  /\ time = 0 /\ elapsed = 0 /\ shutdown = FALSE /\ at = "run"
  /\ state = [t \in Timers |-> "None"] /\ duration = [t \in Timers |-> 0]
  /\ deadline = [t \in Timers |-> 0] /\ complete = [t \in Timers |-> "Ok"]
  /\ place = [t \in Timers |-> Nowhere]
  /\ tick = 0 /\ pending = {} /\ fired = FALSE /\ mode = NoPark /\ until = 0

(* The clock goes on, except within a park, which reads it once. *)
Tick ==
  /\ at \in {"run", "asleep"} /\ time < MaxTime
  /\ time' = time + 1
  /\ UNCHANGED <<entries, elapsed, shutdown, at, parking>>

-----------------------------------------------------------------------------
(* Sleeps, while the thread is not in park.                                *)

Free == at \in {"run", "stopped"}

Sleep(t, d) ==
  /\ Free /\ state[t] = "None"
  /\ state' = [state EXCEPT ![t] = "Unregistered"]
  /\ duration' = [duration EXCEPT ![t] = d]
  /\ deadline' = [deadline EXCEPT ![t] = 0]
  /\ complete' = [complete EXCEPT ![t] = "Ok"]
  /\ UNCHANGED <<time, place, elapsed, shutdown, at, parking>>

(* The first poll: TimerList::add and Wheels::insert.  A sleep fired there *)
(* is ready at once.  The stored waker is left out.                        *)
Poll(t) ==
  LET expiration == elapsed + duration[t] \div Unit IN
  /\ Free /\ state[t] = "Unregistered"
  /\ deadline' = [deadline EXCEPT ![t] = IF duration[t] = 0 THEN @ ELSE expiration]
  /\ IF duration[t] = 0 \/ shutdown \/ expiration <= elapsed
     THEN state' = [state EXCEPT ![t] = "Fired"] /\ UNCHANGED place
     ELSE /\ state' = [state EXCEPT ![t] = "Registered"]
          /\ place' = [place EXCEPT ![t] = Place(elapsed, expiration)]
  /\ UNCHANGED <<time, duration, complete, elapsed, shutdown, at, parking>>

(* A later poll hands out the completion. *)
PollFired(t) ==
  /\ Free /\ state[t] = "Fired" /\ complete[t] # "Ok"
  /\ complete' = [complete EXCEPT ![t] = "Ok"]
  /\ UNCHANGED <<time, state, duration, deadline, place, elapsed, shutdown, at, parking>>

(* Wheels::remove looks where the entry would be inserted now; in another  *)
(* slot's list it would break the links.                                   *)
Removable(t) == place[t] = Place(elapsed, deadline[t])

Drop(t) ==
  /\ Free /\ state[t] # "None"
  /\ IF state[t] = "Registered" /\ ~Removable(t)
     THEN at' = "crashed" /\ UNCHANGED entries
     ELSE /\ state' = [state EXCEPT ![t] = "None"]
          /\ deadline' = [deadline EXCEPT ![t] = 0]
          /\ place' = [place EXCEPT ![t] = Nowhere]
          /\ UNCHANGED <<duration, complete, at>>
  /\ UNCHANGED <<time, elapsed, shutdown, parking>>

(* A registered entry is unlinked and stays registered, which the          *)
(* debug_assert finds.                                                     *)
Reset(t) ==
  /\ Free /\ state[t] # "None"
  /\ place' = [place EXCEPT ![t] = Nowhere]
  /\ IF state[t] = "Registered"
     THEN at' = "misused" /\ UNCHANGED <<deadline, complete>>
     ELSE /\ deadline' = [deadline EXCEPT ![t] = 0]
          /\ complete' = [complete EXCEPT ![t] = "Ok"]
          /\ UNCHANGED at
  /\ UNCHANGED <<time, state, duration, elapsed, shutdown, parking>>

-----------------------------------------------------------------------------
(* Driver::park.  Its locals go back to their first values when it ends.   *)

Park(m) ==
  /\ at = "run" /\ at' = "advance"
  /\ tick' = time \div Unit /\ mode' = m
  /\ UNCHANGED <<time, entries, elapsed, shutdown, pending, fired, until>>

(* mutant: a slot of a higher level fires as a whole. *)
ExpireWhole ==
  LET next == NextExpiration(place, elapsed)
      slot == {t \in Timers : place[t] = <<next.level, next.slot>>} IN
  /\ at = "advance" /\ HasNext(place) /\ next.deadline <= tick
  /\ state' = [t \in Timers |-> IF t \in slot THEN "Fired" ELSE state[t]]
  /\ complete' = [t \in Timers |-> IF t \in slot THEN "Ok" ELSE complete[t]]
  /\ place' = [t \in Timers |-> IF t \in slot THEN Nowhere ELSE place[t]]
  /\ fired' = TRUE /\ elapsed' = next.deadline
  /\ UNCHANGED <<time, duration, deadline, shutdown, at, tick, pending, mode, until>>

(* One round of the loop of Wheels::advance: a slot fires or cascades. *)
Expire ==
  LET next == NextExpiration(place, elapsed)
      slot == {t \in Timers : place[t] = <<next.level, next.slot>>}
      early == {t \in slot : deadline[t] > tick} IN
  /\ at = "advance" /\ HasNext(place) /\ next.deadline <= tick
  /\ state' = [t \in Timers |-> IF t \in slot \ early THEN "Fired" ELSE state[t]]
  /\ complete' = [t \in Timers |-> IF t \in slot \ early THEN "Ok" ELSE complete[t]]
  /\ place' = [t \in Timers |-> IF t \in slot THEN Nowhere ELSE place[t]]
  /\ pending' = pending \cup early
  /\ fired' = (fired \/ slot # early)
  /\ elapsed' = next.deadline
  /\ at' = IF NextExpirationOk(place, elapsed) /\ (early # {} => next.level # 0)
           THEN at ELSE "crashed"
  /\ UNCHANGED <<time, duration, deadline, shutdown, tick, mode, until>>

(* The mode for the layer below: what expires next limits the sleep. *)
Limit(m, where, now) ==
  IF ~HasNext(where) THEN m
  ELSE LET next == NextExpiration(where, now).deadline
           delta == IF next > tick THEN next - tick ELSE 0 IN
       IF m.kind = "Timeout" /\ m.ticks <= delta THEN m ELSE Timeout(delta)

(* mutant: what has not expired is put back before the wheels turn. *)
PutBackFirst(t) == Place(elapsed, deadline[t])

(* mutant: what has not expired is forgotten. *)
PutBackNever(t) == Nowhere

(* Where an entry that has not expired is put back. *)
PutBack(t) == Place(tick, deadline[t])

(* The rest of Wheels::advance and of park. *)
EndAdvance ==
  /\ at = "advance"
  /\ HasNext(place) => NextExpiration(place, elapsed).deadline > tick
  /\ place' = [t \in Timers |-> IF t \in pending THEN PutBack(t) ELSE place[t]]
  /\ elapsed' = tick /\ pending' = {} /\ fired' = FALSE /\ tick' = 0
  /\ mode' = Limit(IF fired THEN NoPark ELSE mode, place',
                   IF pending = {} THEN elapsed ELSE tick)
  /\ until' = IF mode'.kind = "Timeout" THEN time + mode'.ticks * Unit ELSE 0
  /\ at' = IF ~NextExpirationOk(place, elapsed) THEN "crashed"
           ELSE IF mode'.kind = "NoPark" THEN "run" ELSE "asleep"
  /\ UNCHANGED <<time, state, duration, deadline, complete, shutdown>>

(* The layer below may return at any time. *)
Wakeup ==
  /\ at = "asleep" /\ at' = "run" /\ mode' = NoPark /\ until' = 0
  /\ UNCHANGED <<time, entries, elapsed, shutdown, tick, pending, fired>>

(* Driver::shutdown empties every slot. *)
Shutdown ==
  LET left == {t \in Timers : Linked(t)} IN
  /\ at = "run" /\ at' = "stopped" /\ shutdown' = TRUE
  /\ state' = [t \in Timers |-> IF t \in left THEN "Fired" ELSE state[t]]
  /\ complete' = [t \in Timers |-> IF t \in left THEN "Err" ELSE complete[t]]
  /\ place' = [t \in Timers |-> Nowhere]
  /\ UNCHANGED <<time, duration, deadline, elapsed, parking>>

-----------------------------------------------------------------------------
CallerMode == {NoPark, NextCompletion, Timeout(1)}

Driver == (\E m \in CallerMode : Park(m)) \/ Expire \/ EndAdvance

Next ==
  \/ \E t \in Timers : \/ \E d \in Durations : Sleep(t, d)
                       \/ Poll(t) \/ PollFired(t) \/ Drop(t) \/ Reset(t)
  \/ Driver \/ Wakeup \/ Shutdown \/ Tick

Spec == Init /\ [][Next]_vars

(* The clock goes on, however often a park reads it; the executor parks    *)
(* again and again and a park goes on, which is WF_vars(Driver); the layer *)
(* below returns when its timeout is over.                                 *)
FairSpec ==
  /\ Spec
  /\ SF_vars(Tick)
  /\ []<>(at # "run") /\ []<>(at # "advance")
  /\ WF_vars(Wakeup /\ mode.kind = "Timeout" /\ time >= until)

-----------------------------------------------------------------------------
(* Properties.                                                             *)

TypeOK ==
  /\ time \in Nat /\ elapsed \in Nat /\ tick \in Nat /\ until \in Nat
  /\ shutdown \in BOOLEAN /\ fired \in BOOLEAN /\ at \in At
  /\ state \in [Timers -> {"None", "Unregistered", "Registered", "Fired"}]
  /\ duration \in [Timers -> Nat] /\ deadline \in [Timers -> Nat]
  /\ complete \in [Timers -> {"Ok", "Err"}]
  /\ place \in [Timers -> {Nowhere} \cup (Level \X Slot)]
  /\ pending \subseteq Timers /\ mode \in ParkMode

(* No assertion of the wheels fails, and no entry is removed from a list   *)
(* it is not in; the assertion of reset does fail.                         *)
NoCrash == at # "crashed"

(* A registered entry is where its deadline and the elapsed time say,      *)
(* however far the wheels have turned since it was inserted.               *)
PlacedByDeadline ==
  at \notin {"crashed", "misused"} => \A t \in Timers :
    /\ Linked(t) <=> state[t] = "Registered" /\ t \notin pending
    /\ Linked(t) => Removable(t)

(* Between parks no registered entry is overdue. *)
NoneOverdue ==
  at \in {"run", "asleep"} => \A t \in Timers : Linked(t) => deadline[t] > elapsed

(* The layer below never sleeps past the tick of any registered entry.     *)
SleepsNoLonger ==
  at = "asleep" => \A t \in Timers : state[t] = "Registered" =>
    mode.kind = "Timeout" /\ until \div Unit <= deadline[t]

(* The types, and these four, which need each other: a placement is right  *)
(* because nothing overdue was left behind, which a longer sleep would do. *)
Inv == TypeOK /\ NoCrash /\ PlacedByDeadline /\ NoneOverdue /\ SleepsNoLonger

(* The wheels implement a flat set of sleeps. *)
F == INSTANCE FlatTimers WITH
  status  <- [t \in Timers |-> IF state[t] = "Registered" THEN "waiting"
                               ELSE IF state[t] = "Fired" THEN "done" ELSE "idle"],
  due     <- deadline,
  now     <- IF at = "advance" THEN tick ELSE elapsed,
  serving <- at = "advance",
  closed  <- shutdown

TimersKept == F!FSafety

(* Whoever sleeps until a tick that comes is woken, unless the process     *)
(* panics.                                                                 *)
SleepsEnd ==
  \A t \in Timers :
    state[t] = "Registered" /\ deadline[t] <= MaxTime \div Unit
      ~> state[t] # "Registered" \/ at = "misused"

(* park/mod.rs:69: a layer respects the mode it is given; when it fired a  *)
(* sleep, or the caller has work to do, nothing sleeps.                    *)
ModeIsRespected ==
  [][EndAdvance /\ (fired \/ mode = NoPark) => mode' = NoPark]_vars
=============================================================================
