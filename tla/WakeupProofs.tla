---------------------------- MODULE WakeupProofs ----------------------------
(***************************************************************************)
(* The two protocols in which a wake-up is handed on, proved to lose none: *)
(* the readiness of a stream reaches the task that waits (Streams), for a  *)
(* socket of any size and any number of events; and the wake-up of a task  *)
(* of a set reaches the parent of the set (PollSet), for any set of tasks. *)
(***************************************************************************)
EXTENDS Streams, PollSet, TLAPS

-----------------------------------------------------------------------------
(* Streams.                                                                *)

(* Events wait only for a Poll that the kernel has or ended, and an error  *)
(* was its last.                                                           *)
EventsInv ==
  /\ armed \in {"none", "pushed"} => events = <<>>
  /\ \A i \in DOMAIN events : events[i] = "error" => armed = "ended"

(* A task that waits has a Poll, and is woken by the first event.          *)
PendingInv ==
  at = "pending" =>
    /\ ~notified /\ armed # "none"
    /\ events # <<>> \/ armed = "ended" => woken

(* A half forgets that it was notified only when the socket has nothing,   *)
(* so what it has since then is still to be signalled.                     *)
SignalInv ==
  ~notified /\ armed = "live" /\ room > 0 /\ events = <<>> => signal

SInv == TypeOK /\ EventsInv /\ PendingInv /\ SignalInv

(* What a step that changes neither the events nor the Poll owes. *)
LEMMA Kept ==
  ASSUME SInv, UNCHANGED <<armed, events>>
  PROVE  EventsInv'
BY DEF SInv, EventsInv

LEMMA InitSInv == Init => SInv
<1> SUFFICES ASSUME Init PROVE SInv
  OBVIOUS
<1>1. events \in Seq({"ready", "error"}) /\ Len(events) = 0 /\ DOMAIN events = {}
  BY DEF Init
<1>2. TypeOK
  <2>1. Len(events) <= MaxEvents
    BY <1>1, StreamsAssumption
  <2>2. /\ notified \in BOOLEAN /\ armed \in Armed /\ signal \in BOOLEAN
        /\ room \in 0..Room /\ at \in At /\ woken \in BOOLEAN
    BY DEF Init, Armed, At
  <2> QED
    BY <1>1, <2>1, <2>2 DEF TypeOK
<1>3. EventsInv /\ PendingInv /\ SignalInv
  BY <1>1 DEF Init, EventsInv, PendingInv, SignalInv
<1> QED
  BY <1>2, <1>3 DEF SInv

(* The latest event is taken, and the others stay. *)
LEMMA TakeEventInv == ASSUME SInv, TakeEvent PROVE SInv'
<1>1. /\ events \in Seq({"ready", "error"}) /\ Len(events) \in Nat \ {0}
      /\ events[Len(events)] \in {"ready", "error"}
  BY DEF SInv, TypeOK, TakeEvent
<1>2. /\ events' \in Seq({"ready", "error"}) /\ Len(events') <= MaxEvents
      /\ DOMAIN events' \subseteq DOMAIN events
      /\ \A i \in DOMAIN events' : events'[i] = events[i]
  BY <1>1, StreamsAssumption DEF SInv, TypeOK, TakeEvent
<1>3. TypeOK'
  BY <1>2 DEF SInv, TypeOK, TakeEvent, Armed, At
<1>4. EventsInv'
  BY <1>1, <1>2 DEF SInv, EventsInv, TakeEvent
<1>5. PendingInv'
  BY DEF TakeEvent, PendingInv
<1>6. SignalInv'
  <2>1. CASE events[Len(events)] = "error"
    BY <1>1, <2>1 DEF SInv, EventsInv, SignalInv, TakeEvent
  <2>2. CASE events[Len(events)] # "error"
    BY <2>2 DEF SignalInv, TakeEvent
  <2> QED
    BY <2>1, <2>2
<1> QED
  BY <1>3, <1>4, <1>5, <1>6 DEF SInv

(* What Look and Fail share: an event is added, which wakes a task. *)
LEMMA PostInv ==
  ASSUME SInv, NEW e \in {"ready", "error"}, Post(e), Len(events) < MaxEvents,
         armed = "live", armed' \in {"live", "ended"}, e = "error" => armed' = "ended",
         signal' = FALSE, UNCHANGED <<notified, room, at>>
  PROVE  SInv'
<1>1. events \in Seq({"ready", "error"}) /\ events' = Append(events, e)
  BY DEF SInv, TypeOK, Post
<1>2. /\ events' \in Seq({"ready", "error"}) /\ Len(events') = Len(events) + 1
      /\ events' # <<>>
  BY <1>1
<1>3. \A i \in DOMAIN events' : events'[i] = e \/ (i \in DOMAIN events /\ events'[i] = events[i])
  BY <1>1
<1>4. TypeOK'
  <2>1. Len(events) \in Nat /\ Len(events') <= MaxEvents
    BY <1>1, <1>2, StreamsAssumption
  <2> QED
    BY <1>2, <2>1 DEF SInv, TypeOK, Armed, Post
<1>5. EventsInv'
  BY <1>3 DEF SInv, EventsInv
<1>6. PendingInv' /\ SignalInv'
  BY <1>2 DEF SInv, PendingInv, SignalInv, Post
<1> QED
  BY <1>4, <1>5, <1>6 DEF SInv

LEMMA LookInv == ASSUME SInv, Look PROVE SInv'
<1>1. CASE room = 0
  <2>1. TypeOK'
    BY <1>1 DEF SInv, TypeOK, Look
  <2>2. PendingInv' /\ SignalInv'
    BY <1>1 DEF SInv, PendingInv, SignalInv, Look
  <2> QED
    BY <1>1, <2>1, <2>2, Kept DEF SInv, Look
<1>2. CASE room # 0
  BY <1>2, PostInv DEF Look
<1> QED
  BY <1>1, <1>2

LEMMA FailInv == ASSUME SInv, Fail PROVE SInv'
BY PostInv DEF Fail

(* The other steps, which leave the events alone. *)
LEMMA CallInv == ASSUME SInv, Call \/ GiveUp \/ Ready \/ Wait PROVE SInv'
<1>1. TypeOK'
  BY DEF SInv, TypeOK, Call, GiveUp, Ready, Wait, At
<1>2. PendingInv' /\ SignalInv'
  BY DEF SInv, PendingInv, SignalInv, Call, GiveUp, Ready, Wait
<1> QED
  BY <1>1, <1>2, Kept DEF SInv, Call, GiveUp, Ready, Wait

LEMMA TryInv == ASSUME SInv, Succeed \/ SucceedWithout \/ WouldBlock PROVE SInv'
<1>1. room' \in 0..Room /\ (room' > 0 => room > 0)
  BY StreamsAssumption DEF SInv, TypeOK, Succeed, SucceedWithout, WouldBlock
<1>2. TypeOK'
  BY <1>1 DEF SInv, TypeOK, Succeed, SucceedWithout, WouldBlock, At
<1>3. PendingInv' /\ SignalInv'
  BY <1>1 DEF SInv, TypeOK, PendingInv, SignalInv, Succeed, SucceedWithout, WouldBlock
<1> QED
  BY <1>2, <1>3, Kept DEF SInv, Succeed, SucceedWithout, WouldBlock

LEMMA ArmInv == ASSUME SInv, Disarm \/ Arm \/ Submit PROVE SInv'
<1>1. events = <<>> /\ UNCHANGED events
  BY DEF SInv, EventsInv, Disarm, Arm, Submit
<1>2. TypeOK'
  BY <1>1 DEF SInv, TypeOK, Disarm, Arm, Submit, Armed, At
<1>3. EventsInv'
  BY <1>1 DEF EventsInv
<1>4. PendingInv' /\ SignalInv'
  BY <1>1 DEF SInv, PendingInv, SignalInv, Disarm, Arm, Submit
<1> QED
  BY <1>2, <1>3, <1>4 DEF SInv

LEMMA RefillInv == ASSUME SInv, Refill PROVE SInv'
<1>1. room' \in 0..Room
  BY StreamsAssumption DEF SInv, TypeOK, Refill
<1>2. TypeOK'
  BY <1>1 DEF SInv, TypeOK, Refill
<1>3. PendingInv' /\ SignalInv'
  BY DEF SInv, PendingInv, SignalInv, Refill
<1> QED
  BY <1>2, <1>3, Kept DEF SInv, Refill

LEMMA StutterInv == ASSUME SInv, UNCHANGED vars PROVE SInv'
BY DEF SInv, TypeOK, EventsInv, PendingInv, SignalInv, vars

THEOREM StreamsInductive == Spec => []SInv
<1>1. ASSUME SInv, [Next]_vars PROVE SInv'
  BY <1>1, CallInv, TryInv, TakeEventInv, ArmInv, RefillInv, LookInv, FailInv, StutterInv
     DEF Next, PollOp
<1> QED
  BY <1>1, InitSInv, PTL DEF Spec

(* While a task waits beside a socket that has something, it is woken, or  *)
(* a Poll will find it: readiness is never forgotten by both sides.        *)
THEOREM NoReadinessLost == Spec => []Inv
<1>1. ASSUME SInv PROVE Inv
  <2> SUFFICES ASSUME at = "pending", room > 0, ~woken
               PROVE  armed = "pushed" \/ (armed = "live" /\ signal)
    BY <1>1 DEF SInv, Inv, WaitIsCovered
  <2> QED
    BY <1>1 DEF SInv, TypeOK, Armed, PendingInv, SignalInv
<1> QED
  BY <1>1, StreamsInductive, PTL

-----------------------------------------------------------------------------
(* PollSet.                                                                *)

Polled(t)  == status[t] \in {"running", "again"}
InQueue(t) == \E i \in DOMAIN queue : queue[i] = t

(* One task is polled at a time.                                           *)
PollInv ==
  /\ phase = "poll" <=> \E t \in Tasks : Polled(t)
  /\ \A t, u \in Tasks : Polled(t) /\ Polled(u) => t = u

(* The waker is there, or was used, or there was nothing to use it for     *)
(* before the first poll.                                                  *)
WakerInv ==
  phase \in {"out", "dropped"} =>
    waker \/ parentWoken \/ \A t \in Tasks : status[t] \in {"absent", "spawned"}

(* The queue holds those that are to be run, until the set is dropped.     *)
QueueInv == phase # "dropped" => \A t \in Tasks : status[t] = "queued" => InQueue(t)

SetInv == PTypeOK /\ PollInv /\ WakerInv /\ QueueInv /\ ParentIsWoken

LEMMA InitInv == PInit => SetInv
<1>1. ASSUME PInit PROVE queue \in Seq(Tasks)
  BY <1>1 DEF PInit
<1> QED
  BY <1>1 DEF PInit, SetInv, PTypeOK, Status, Phase, PollInv, Polled, WakerInv, QueueInv, ParentIsWoken

(* What is appended is in the queue, and so is what was there.             *)
LEMMA Appended ==
  ASSUME PTypeOK, NEW t \in Tasks, queue' = Append(queue, t)
  PROVE  queue' \in Seq(Tasks) /\ InQueue(t)' /\ \A u \in Tasks : InQueue(u) => InQueue(u)'
<1>1. queue \in Seq(Tasks)
  BY DEF PTypeOK
<1>2. /\ queue' \in Seq(Tasks) /\ Len(queue) + 1 \in DOMAIN queue' /\ queue'[Len(queue) + 1] = t
      /\ \A i \in DOMAIN queue : i \in DOMAIN queue' /\ queue'[i] = queue[i]
  BY <1>1
<1> QED
  BY <1>2 DEF InQueue

(* The task that is polled is the one there is.                            *)
LEMMA OneCurrent ==
  ASSUME PollInv, phase = "poll"
  PROVE  Current \in Tasks /\ Polled(Current) /\ \A t \in Tasks : Polled(t) => t = Current
BY DEF PollInv, Polled, Current

LEMMA SpawnInv == ASSUME SetInv, NEW t \in Tasks, Spawn(t) PROVE SetInv'
<1>1. queue' \in Seq(Tasks) /\ \A u \in Tasks : InQueue(u) => InQueue(u)'
  BY Appended DEF SetInv, Spawn
<1>2. /\ status' \in [Tasks -> Status] /\ status'[t] = "spawned" /\ status[t] = "absent"
      /\ \A u \in Tasks : u # t => status'[u] = status[u]
  BY DEF SetInv, PTypeOK, Spawn, Status
<1>3. PTypeOK'
  BY <1>1, <1>2 DEF SetInv, PTypeOK, Spawn
<1> QED
  BY <1>1, <1>2, <1>3 DEF SetInv, Spawn, PollInv, Polled, WakerInv, QueueInv, ParentIsWoken

LEMMA WakeInv == ASSUME SetInv, NEW t \in Tasks, Wake(t) PROVE SetInv'
<1>1. queue' \in Seq(Tasks) /\ InQueue(t)' /\ \A u \in Tasks : InQueue(u) => InQueue(u)'
  BY Appended DEF SetInv, Wake, Schedule
<1>2. /\ status' \in [Tasks -> Status] /\ status'[t] = "queued" /\ status[t] = "idle"
      /\ \A u \in Tasks : u # t => status'[u] = status[u]
  BY DEF SetInv, PTypeOK, Wake, Status
<1>3. PTypeOK'
  BY <1>1, <1>2 DEF SetInv, PTypeOK, Wake, Schedule
<1>4. PollInv' /\ QueueInv'
  BY <1>1, <1>2 DEF SetInv, Wake, PollInv, Polled, QueueInv
<1>5. phase \in {"out", "dropped"} => parentWoken'
  BY <1>2 DEF SetInv, WakerInv, Wake, Schedule
<1> QED
  BY <1>3, <1>4, <1>5 DEF SetInv, Wake, WakerInv, ParentIsWoken

LEMMA WakeSelfInv == ASSUME SetInv, WakeSelf PROVE SetInv'
<1>1. Current \in Tasks /\ Polled(Current)
  BY OneCurrent DEF SetInv, WakeSelf
<1>2. /\ status' \in [Tasks -> Status] /\ status'[Current] = "again"
      /\ \A u \in Tasks : u # Current => status'[u] = status[u]
  BY <1>1 DEF SetInv, PTypeOK, WakeSelf, Status
<1>3. PTypeOK'
  BY <1>2 DEF SetInv, PTypeOK, WakeSelf
<1> QED
  BY <1>1, <1>2, <1>3 DEF SetInv, WakeSelf, PollInv, Polled, WakerInv, QueueInv, InQueue, ParentIsWoken

LEMMA PollStepInv == ASSUME SetInv, Poll \/ EndPoll \/ Drop PROVE SetInv'
<1>0. <<>> \in Seq(Tasks)
  OBVIOUS
<1>1. queue' \in Seq(Tasks)
  BY <1>0 DEF SetInv, PTypeOK, Poll, EndPoll, Drop
<1>2. PTypeOK'
  BY <1>1 DEF SetInv, PTypeOK, Poll, EndPoll, Drop, Phase
<1>3. EndPoll => \A t \in Tasks : status[t] # "queued"
  BY DEF SetInv, QueueInv, InQueue, EndPoll
<1> QED
  BY <1>2, <1>3 DEF SetInv, Poll, EndPoll, Drop, PollInv, Polled, WakerInv, QueueInv, InQueue, ParentIsWoken

LEMMA RunInv == ASSUME SetInv, Run PROVE SetInv'
<1> DEFINE t == Head(queue)
<1>1. queue \in Seq(Tasks) /\ queue # <<>>
  BY DEF SetInv, PTypeOK, Run
<1>2. /\ t \in Tasks /\ t = queue[1] /\ queue' \in Seq(Tasks)
      /\ \A i \in DOMAIN queue : i = 1 \/ (i - 1 \in DOMAIN queue' /\ queue'[i - 1] = queue[i])
  BY <1>1 DEF Run
<1>3. \A u \in Tasks : InQueue(u) => InQueue(u)' \/ u = t
  BY <1>2 DEF InQueue
<1> HIDE DEF t
<1>6. status' = [status EXCEPT ![t] = "running"]
  BY DEF Run, t
<1>4. /\ status' \in [Tasks -> Status] /\ status'[t] = "running"
      /\ \A u \in Tasks : u # t => status'[u] = status[u]
  BY <1>2, <1>6 DEF SetInv, PTypeOK, Status
<1>5. PTypeOK'
  BY <1>2, <1>4 DEF SetInv, PTypeOK, Run, Phase
<1> QED
  BY <1>2, <1>3, <1>4, <1>5 DEF SetInv, Run, PollInv, Polled, WakerInv, QueueInv, ParentIsWoken

LEMMA EndTaskInv == ASSUME SetInv, Pending \/ Finish PROVE SetInv'
<1>0. PICK c \in Tasks : c = Current
  BY OneCurrent DEF SetInv, Pending, Finish
<1>1. Polled(c) /\ \A t \in Tasks : Polled(t) => t = c
  BY <1>0, OneCurrent DEF SetInv, Pending, Finish
<1>2. /\ status' \in [Tasks -> Status] /\ status'[c] \in {"idle", "queued", "done"}
      /\ \A u \in Tasks : u # c => status'[u] = status[u]
  BY <1>0, <1>1 DEF SetInv, PTypeOK, Pending, Finish, Status
<1>3. /\ queue' \in Seq(Tasks) /\ \A u \in Tasks : InQueue(u) => InQueue(u)'
      /\ status'[c] = "queued" => InQueue(c)'
  <2>1. CASE Schedule(c)
    BY <1>1, <2>1, Appended DEF SetInv, Schedule
  <2>2. CASE UNCHANGED queue /\ status'[c] # "queued"
    BY <2>2 DEF SetInv, PTypeOK, InQueue
  <2> QED
    BY <1>0, <1>1, <2>1, <2>2 DEF SetInv, PTypeOK, Pending, Finish
<1>4. PTypeOK'
  BY <1>0, <1>2, <1>3 DEF SetInv, PTypeOK, Pending, Finish, Schedule, Phase
<1> QED
  BY <1>1, <1>2, <1>3, <1>4
     DEF SetInv, Pending, Finish, PollInv, Polled, WakerInv, QueueInv, ParentIsWoken

THEOREM PollSetInductive == PSpec => []SetInv
<1>1. ASSUME SetInv, UNCHANGED pvars PROVE SetInv'
  BY <1>1 DEF SetInv, pvars, PTypeOK, PollInv, Polled, WakerInv, QueueInv, InQueue, ParentIsWoken
<1>2. ASSUME SetInv, [PNext]_pvars PROVE SetInv'
  BY <1>1, <1>2, SpawnInv, WakeInv, WakeSelfInv, PollStepInv, RunInv, EndTaskInv DEF PNext, Step
<1> QED
  BY <1>2, InitInv, PTL DEF PSpec

(* A task that is woken between two polls has woken the parent.            *)
THEOREM ParentIsAlwaysWoken == PSpec => []PInv
<1>1. SetInv => PInv
  BY DEF SetInv, PInv
<1> QED
  BY <1>1, PollSetInductive, PTL

-----------------------------------------------------------------------------
(* The queue of a set is one: what TLC checks as WokenIsRun rests on it.   *)

(* The queue holds those that are spawned or woken and not run since, and  *)
(* each once.                                                              *)
QueueIsExact ==
  phase # "dropped" =>
    /\ \A t \in Tasks : InQueue(t) <=> status[t] \in {"spawned", "queued"}
    /\ \A i, j \in DOMAIN queue : queue[i] = queue[j] => i = j

(* Whoever is in the queue stays at its place, or moves up by one when the *)
(* first is run, unless the set is dropped.                                *)
Keeps(i)   == i \in DOMAIN queue' /\ queue'[i] = queue[i]
MovesUp(i) ==
  /\ phase = "next" /\ phase' = "poll"
  /\ IF i = 1 THEN status'[queue[1]] = "running"
     ELSE i - 1 \in DOMAIN queue' /\ queue'[i - 1] = queue[i]

TurnsAreKept == [][\A i \in DOMAIN queue : Keeps(i) \/ MovesUp(i) \/ phase' = "dropped"]_pvars

(* A task that is not in the queue is appended to it.                      *)
LEMMA Joins ==
  ASSUME PTypeOK, NEW t \in Tasks, queue' = Append(queue, t)
  PROVE  /\ \A i \in DOMAIN queue : Keeps(i)
         /\ \A u \in Tasks : InQueue(u)' <=> InQueue(u) \/ u = t
         /\ ~InQueue(t) /\ (\A i, j \in DOMAIN queue : queue[i] = queue[j] => i = j) =>
              \A i, j \in DOMAIN queue' : queue'[i] = queue'[j] => i = j
<1>1. queue \in Seq(Tasks)
  BY DEF PTypeOK
<1>2. /\ DOMAIN queue' = DOMAIN queue \cup {Len(queue) + 1} /\ queue'[Len(queue) + 1] = t
      /\ \A i \in DOMAIN queue : queue'[i] = queue[i]
  BY <1>1
<1> QED
  BY <1>2 DEF InQueue, Keeps

(* The first task leaves it.                                               *)
LEMMA Leaves ==
  ASSUME PTypeOK, queue # <<>>, queue' = Tail(queue)
  PROVE  /\ queue[1] \in Tasks /\ Head(queue) = queue[1] /\ 1 \in DOMAIN queue
         /\ \A i \in DOMAIN queue : i # 1 => i - 1 \in DOMAIN queue' /\ queue'[i - 1] = queue[i]
         /\ \A i \in DOMAIN queue' : i + 1 \in DOMAIN queue /\ queue'[i] = queue[i + 1]
         /\ DOMAIN queue \subseteq Nat /\ DOMAIN queue' \subseteq Nat /\ 0 \notin DOMAIN queue'
BY DEF PTypeOK

LEMMA ExactRun == ASSUME SetInv, QueueIsExact, Run PROVE QueueIsExact'
<1>1. PTypeOK /\ queue # <<>> /\ queue' = Tail(queue) /\ phase # "dropped"
  BY DEF SetInv, Run
<1>0. PICK t \in Tasks : t = queue[1]
  BY <1>1, Leaves
<1>2. /\ status'[t] = "running"
      /\ \A u \in Tasks : u # t => status'[u] = status[u]
  BY <1>0, <1>1, Leaves DEF PTypeOK, Run
<1>3. /\ \A u \in Tasks : InQueue(u) <=> status[u] \in {"spawned", "queued"}
      /\ \A i, j \in DOMAIN queue : queue[i] = queue[j] => i = j
  BY <1>1 DEF QueueIsExact
<1>4. \A i, j \in DOMAIN queue' : queue'[i] = queue'[j] => i = j
  <2> SUFFICES ASSUME NEW i \in DOMAIN queue', NEW j \in DOMAIN queue', queue'[i] = queue'[j]
               PROVE  i = j
    OBVIOUS
  <2>1. i \in Nat /\ j \in Nat /\ i + 1 = j + 1
    BY <1>1, <1>3, Leaves
  <2> QED
    BY <2>1
<1>5. ~InQueue(t)'
  <2> SUFFICES ASSUME NEW i \in DOMAIN queue', queue'[i] = t PROVE FALSE
    BY DEF InQueue
  <2>1. i \in Nat /\ i # 0 /\ i + 1 = 1
    BY <1>0, <1>1, <1>3, Leaves
  <2> QED
    BY <2>1
<1>6. ASSUME NEW u \in Tasks, u # t PROVE InQueue(u)' <=> InQueue(u)
  <2>1. ASSUME NEW i \in DOMAIN queue, queue[i] = u PROVE InQueue(u)'
    <3>1. i # 1 /\ i - 1 \in DOMAIN queue' /\ queue'[i - 1] = u
      BY <1>0, <1>1, <1>6, <2>1, Leaves
    <3> QED
      BY <3>1 DEF InQueue
  <2>2. ASSUME NEW i \in DOMAIN queue', queue'[i] = u PROVE InQueue(u)
    <3>1. i + 1 \in DOMAIN queue /\ queue[i + 1] = u
      BY <1>1, <2>2, Leaves
    <3> QED
      BY <3>1 DEF InQueue
  <2> QED
    BY <2>1, <2>2 DEF InQueue
<1> QED
  BY <1>2, <1>3, <1>4, <1>5, <1>6 DEF QueueIsExact

(* A task is queued.                                                       *)
LEMMA ExactJoin ==
  ASSUME SetInv, QueueIsExact, NEW t \in Tasks, queue' = Append(queue, t), phase # "dropped",
         status[t] \notin {"spawned", "queued"}, status'[t] \in {"spawned", "queued"},
         \A u \in Tasks : u # t => status'[u] = status[u]
  PROVE  QueueIsExact'
<1>1. /\ \A u \in Tasks : InQueue(u) <=> status[u] \in {"spawned", "queued"}
      /\ \A i, j \in DOMAIN queue : queue[i] = queue[j] => i = j
  BY DEF QueueIsExact
<1>2. /\ \A u \in Tasks : InQueue(u)' <=> InQueue(u) \/ u = t
      /\ \A i, j \in DOMAIN queue' : queue'[i] = queue'[j] => i = j
  BY <1>1, Joins DEF SetInv
<1> QED
  BY <1>1, <1>2 DEF QueueIsExact

(* A task is polled, or was.                                               *)
LEMMA ExactSame ==
  ASSUME QueueIsExact, UNCHANGED queue, phase' # "dropped" => phase # "dropped",
         \A u \in Tasks : status'[u] \in {"spawned", "queued"} <=> status[u] \in {"spawned", "queued"}
  PROVE  QueueIsExact'
BY DEF QueueIsExact, InQueue

LEMMA ExactStep == ASSUME SetInv, QueueIsExact, [PNext]_pvars PROVE QueueIsExact'
<1>1. PTypeOK /\ PollInv
  BY DEF SetInv
<1>2. CASE Run
  BY <1>2, ExactRun
<1>3. ASSUME NEW t \in Tasks, Spawn(t) \/ Wake(t) PROVE QueueIsExact'
  <2>1. CASE phase = "dropped"
    BY <1>3, <2>1 DEF Spawn, Wake, QueueIsExact
  <2>2. CASE phase # "dropped"
    <3>1. /\ queue' = Append(queue, t)
          /\ status[t] \in {"absent", "idle"} /\ status'[t] \in {"spawned", "queued"}
          /\ \A u \in Tasks : u # t => status'[u] = status[u]
      BY <1>1, <1>3 DEF PTypeOK, Spawn, Wake, Schedule
    <3> QED
      BY <2>2, <3>1, ExactJoin
  <2> QED
    BY <2>1, <2>2
<1>4. CASE Poll \/ EndPoll \/ Drop \/ UNCHANGED pvars
  <2>1. CASE Drop
    BY <2>1 DEF Drop, QueueIsExact
  <2>2. CASE Poll \/ EndPoll \/ UNCHANGED pvars
    BY <2>2, ExactSame DEF Poll, EndPoll, pvars
  <2> QED
    BY <1>4, <2>1, <2>2
<1>5. CASE WakeSelf \/ Pending \/ Finish
  <2>1. PICK c \in Tasks : c = Current /\ Polled(c)
    BY <1>1, <1>5, OneCurrent DEF WakeSelf, Pending, Finish
  <2>2. \A u \in Tasks : u # c => status'[u] = status[u]
    BY <1>1, <1>5, <2>1 DEF PTypeOK, WakeSelf, Pending, Finish
  <2>3. status[c] \notin {"spawned", "queued"} /\ phase = "poll"
    BY <1>5, <2>1 DEF Polled, WakeSelf, Pending, Finish
  <2>4. CASE UNCHANGED queue /\ status'[c] \notin {"spawned", "queued"}
    BY <2>2, <2>3, <2>4, ExactSame
  <2>5. CASE queue' = Append(queue, c) /\ status'[c] = "queued"
    BY <2>2, <2>3, <2>5, ExactJoin
  <2> QED
    BY <1>1, <1>5, <2>1, <2>4, <2>5 DEF PTypeOK, WakeSelf, Pending, Finish, Schedule
<1> QED
  BY <1>2, <1>3, <1>4, <1>5 DEF PNext, Step

(* A task that is to be run is in the queue, and there once; one that has  *)
(* nothing to do, runs, or is done is not: no wakeup makes a second poll.  *)
THEOREM SetQueueIsExact == PSpec => []QueueIsExact
<1>1. PInit => QueueIsExact
  BY DEF PInit, QueueIsExact, InQueue
<1> QED
  BY <1>1, ExactStep, PollSetInductive, PTL DEF PSpec

(* The tasks of a set are run in the order in which they were spawned and  *)
(* woken: nobody in the queue is overtaken or lost before the drop.        *)
THEOREM SetRunsInTurn == PSpec => TurnsAreKept
<1>1. ASSUME SetInv, PNext, NEW i \in DOMAIN queue
      PROVE  Keeps(i) \/ MovesUp(i) \/ phase' = "dropped"
  <2>1. PTypeOK /\ PollInv
    BY <1>1 DEF SetInv
  <2>2. CASE UNCHANGED queue
    BY <2>2 DEF Keeps
  <2>3. CASE Run
    <3>1. /\ queue # <<>> /\ queue' = Tail(queue) /\ phase = "next" /\ phase' = "poll"
          /\ status'[Head(queue)] = "running"
      BY <2>1, <2>3, Leaves DEF Run, PTypeOK
    <3> QED
      BY <1>1, <2>1, <3>1, Leaves DEF MovesUp
  <2>4. CASE \E t \in Tasks : queue' = Append(queue, t)
    BY <1>1, <2>1, <2>4, Joins
  <2>5. CASE Drop
    BY <2>5 DEF Drop
  <2>6. CASE Pending
    <3>1. Current \in Tasks
      BY <2>1, <2>6, OneCurrent DEF Pending
    <3> QED
      BY <2>2, <2>4, <2>6, <3>1 DEF Pending, Schedule
  <2> QED
    BY <1>1, <2>2, <2>3, <2>4, <2>5, <2>6
       DEF PNext, Step, Poll, EndPoll, WakeSelf, Finish, Spawn, Wake, Schedule
<1>2. SetInv /\ [PNext]_pvars =>
        [\A i \in DOMAIN queue : Keeps(i) \/ MovesUp(i) \/ phase' = "dropped"]_pvars
  BY <1>1
<1> QED
  BY <1>2, PollSetInductive, PTL DEF PSpec, TurnsAreKept
=============================================================================
