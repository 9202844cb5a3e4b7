----------------------------- MODULE TaskProofs -----------------------------
(***************************************************************************)
(* Proofs about module Task: IInv is inductive, for any finite set of      *)
(* tasks and any bound on wakers.                                          *)
(***************************************************************************)
EXTENDS Task, FiniteSetTheorems, SequenceTheorems, TLAPS

USE TaskAssumption

(* A task pushed on a queue that does not hold it. *)
LEMMA PushQueue ==
  ASSUME runqueue \in Seq(Tasks), NEW t \in Tasks, ~Queued(t),
         \A i, j \in DOMAIN runqueue : runqueue[i] = runqueue[j] => i = j,
         runqueue' = Append(runqueue, t)
  PROVE  /\ runqueue' \in Seq(Tasks)
         /\ (\A i, j \in DOMAIN runqueue : runqueue[i] = runqueue[j] => i = j)'
         /\ \A x \in Tasks : Queued(x)' <=> Queued(x) \/ x = t
<1>1. /\ runqueue' \in Seq(Tasks)
      /\ DOMAIN runqueue' = 1..(Len(runqueue) + 1)
      /\ DOMAIN runqueue = 1..Len(runqueue) /\ Len(runqueue) \in Nat
      /\ \A i \in 1..Len(runqueue) : runqueue'[i] = runqueue[i]
      /\ runqueue'[Len(runqueue) + 1] = t
  BY AppendProperties, LenProperties
<1>2. \A x \in Tasks : Queued(x)' <=> Queued(x) \/ x = t
  BY <1>1 DEF Queued
<1>3. (\A i, j \in DOMAIN runqueue : runqueue[i] = runqueue[j] => i = j)'
  BY <1>1 DEF Queued
<1> QED BY <1>1, <1>2, <1>3

(* The head taken from a queue without duplicates. *)
LEMMA PopQueue ==
  ASSUME runqueue \in Seq(Tasks), runqueue # <<>>,
         \A i, j \in DOMAIN runqueue : runqueue[i] = runqueue[j] => i = j,
         runqueue' = Tail(runqueue)
  PROVE  /\ runqueue' \in Seq(Tasks)
         /\ Head(runqueue) \in Tasks /\ Queued(Head(runqueue))
         /\ (\A i, j \in DOMAIN runqueue : runqueue[i] = runqueue[j] => i = j)'
         /\ \A x \in Tasks : Queued(x)' <=> Queued(x) /\ x # Head(runqueue)
<1>1. /\ runqueue' \in Seq(Tasks)
      /\ Head(runqueue) = runqueue[1] /\ runqueue[1] \in Tasks
      /\ Len(runqueue) \in Nat /\ Len(runqueue) >= 1
      /\ DOMAIN runqueue = 1..Len(runqueue)
      /\ DOMAIN runqueue' = 1..(Len(runqueue) - 1)
      /\ \A i \in 1..(Len(runqueue) - 1) : runqueue'[i] = runqueue[i + 1]
  BY HeadTailProperties, LenProperties, ElementOfSeq
<1>2. Queued(Head(runqueue))
  BY <1>1 DEF Queued
<1>3. (\A i, j \in DOMAIN runqueue : runqueue[i] = runqueue[j] => i = j)'
  BY <1>1
<1>4. ASSUME NEW x \in Tasks
      PROVE  Queued(x)' <=> Queued(x) /\ x # Head(runqueue)
  <2>1. ASSUME NEW i \in DOMAIN runqueue', runqueue'[i] = x
        PROVE  Queued(x) /\ x # Head(runqueue)
    <3>1. i + 1 \in DOMAIN runqueue /\ runqueue[i + 1] = x /\ i + 1 # 1
          /\ 1 \in DOMAIN runqueue
      BY <1>1, <2>1
    <3> QED BY <1>1, <3>1 DEF Queued
  <2>2. ASSUME NEW i \in DOMAIN runqueue, runqueue[i] = x, x # Head(runqueue)
        PROVE  Queued(x)'
    <3>1. i - 1 \in DOMAIN runqueue' /\ runqueue'[i - 1] = x
      BY <1>1, <2>2
    <3> QED BY <3>1 DEF Queued
  <2> QED BY <2>1, <2>2 DEF Queued
<1> QED BY <1>1, <1>2, <1>3, <1>4

(* How many headers hold a waker of a task. *)
LEMMA WaitingCount ==
  ASSUME slot \in [Tasks -> Tasks \cup {Root, None}]
  PROVE  \A t \in Tasks : /\ IsFiniteSet(Waiting(t))
                          /\ Cardinality(Waiting(t)) \in Nat
                          /\ Waiting(t) # {} => Cardinality(Waiting(t)) > 0
<1> TAKE t \in Tasks
<1>1. IsFiniteSet(Waiting(t))
  BY FS_Subset DEF Waiting
<1> QED BY <1>1, FS_CardinalityType, FS_EmptySet

(* The headers that hold a waker of a task change only with `slot`. *)
LEMMA WaitingSame ==
  ASSUME UNCHANGED slot
  PROVE  \A t \in Tasks : Cardinality(Waiting(t))' = Cardinality(Waiting(t))
BY DEF Waiting

(* What one change of one header's waker does to those counts. *)
LEMMA WaitingChange ==
  ASSUME slot \in [Tasks -> Tasks \cup {Root, None}], NEW h \in Tasks,
         \A u \in Tasks : u # h => slot'[u] = slot[u]
  PROVE  \A t \in Tasks : Cardinality(Waiting(t))' =
           Cardinality(Waiting(t)) + One(t = slot'[h]) - One(t = slot[h])
<1> TAKE t \in Tasks
<1>0. IsFiniteSet(Waiting(t)) /\ Cardinality(Waiting(t)) \in Nat
  BY WaitingCount
<1>1. CASE t = slot'[h] /\ t # slot[h]
  <2>1. Waiting(t)' = Waiting(t) \cup {h} /\ h \notin Waiting(t)
    BY <1>1 DEF Waiting
  <2>2. Cardinality(Waiting(t) \cup {h}) = Cardinality(Waiting(t)) + 1
    BY <1>0, <2>1, FS_AddElement
  <2> QED BY <1>0, <1>1, <2>1, <2>2 DEF One
<1>2. CASE t = slot[h] /\ t # slot'[h]
  <2>1. Waiting(t)' = Waiting(t) \ {h} /\ h \in Waiting(t)
    BY <1>2 DEF Waiting
  <2>2. Cardinality(Waiting(t) \ {h}) = Cardinality(Waiting(t)) - 1
    BY <1>0, <2>1, FS_RemoveElement
  <2> QED BY <1>0, <1>2, <2>1, <2>2 DEF One
<1>3. CASE t = slot'[h] <=> t = slot[h]
  <2>1. Waiting(t)' = Waiting(t)
    BY <1>3 DEF Waiting
  <2> QED BY <1>0, <1>3, <2>1 DEF One
<1> QED BY <1>1, <1>2, <1>3

-----------------------------------------------------------------------------
(* Each action preserves the inductive invariant.                          *)

(* A task that a reference of any kind designates is live. *)
LEMMA Referenced ==
  ASSUME IInv, NEW t \in Tasks,
         \/ t \in registered \/ owner[t] # None \/ Queued(t) \/ wakers[t] > 0
         \/ ctl.task = t /\ ctl.at \in Running \cup {"teardown"}
         \/ releasing = t
         \/ \E u \in Tasks : slot[u] = t
  PROVE  refcount[t] > 0 /\ Live(t)
<1>1. \E u \in Tasks : slot[u] = t => Waiting(t) # {}
  BY DEF Waiting
<1>2. /\ Cardinality(Waiting(t)) \in Nat
      /\ (\E u \in Tasks : slot[u] = t) => Cardinality(Waiting(t)) > 0
  BY WaitingCount DEF Waiting, IInv, TypeOK
<1>3. refcount[t] = DirectRefs(t) + Cardinality(Waiting(t)) /\ wakers[t] \in Nat
  BY DEF IInv, RefcountExact, Refs, TypeOK
<1>4. refcount[t] > 0
  BY <1>2, <1>3 DEF DirectRefs, One
<1> QED BY <1>4 DEF IInv, LiveInv

(* The bookkeeping that the count of every task satisfies. *)
LEMMA CountFacts ==
  ASSUME IInv, NEW x \in Tasks
  PROVE  /\ refcount[x] = DirectRefs(x) + Cardinality(Waiting(x))
         /\ Cardinality(Waiting(x)) \in Nat /\ wakers[x] \in Nat
         /\ refcount[x] \in Nat /\ DirectRefs(x) \in Nat
<1>1. wakers[x] \in Nat /\ refcount[x] \in Nat
  BY DEF IInv, TypeOK
<1>2. DirectRefs(x) \in Nat
  BY <1>1 DEF DirectRefs, One
<1> QED BY <1>1, <1>2, WaitingCount DEF IInv, TypeOK, RefcountExact, Refs

LEMMA CountTypes ==
  ASSUME IInv
  PROVE  refcount \in [Tasks -> Nat] /\ wakers \in [Tasks -> Nat]
BY DEF IInv, TypeOK

(* A task's count stays exact when it moves with what refers to the task. *)
LEMMA RefsMove ==
  ASSUME IInv, NEW x \in Tasks, NEW d \in Int, UNCHANGED slot,
         DirectRefs(x)' = DirectRefs(x) + d, refcount'[x] = refcount[x] + d
  PROVE  (refcount[x] = Refs(x))'
<1>1. /\ refcount[x] = DirectRefs(x) + Cardinality(Waiting(x))
      /\ Cardinality(Waiting(x)) \in Int /\ DirectRefs(x) \in Int
  BY CountFacts
<1>2. Cardinality(Waiting(x))' = Cardinality(Waiting(x))
  BY WaitingSame
<1>3. Refs(x)' = DirectRefs(x)' + Cardinality(Waiting(x))'
  BY DEF Refs
<1> QED BY <1>1, <1>2, <1>3

(* What is queued changes only with the queue. *)
LEMMA QueuedSame ==
  ASSUME UNCHANGED runqueue
  PROVE  \A x \in Tasks : Queued(x)' <=> Queued(x)
BY DEF Queued

(* The code that runs owns what it uses: the actor is Root or a live task. *)
LEMMA ActorLives ==
  ASSUME IInv, UserCode
  PROVE  /\ Actor \in Tasks \cup {Root} /\ Actor # None
         /\ Actor \in Tasks => Live(Actor) /\ refcount[Actor] > 0
<1>1. Actor \in Tasks \cup {Root} /\ Actor # None
  BY DEF IInv, TypeOK, Actor, UserCode, Destructor
<1>2. Actor \in Tasks => ctl.task = Actor /\ ctl.at \in Running \cup {"teardown"}
  BY DEF Actor, UserCode, Destructor, Running, InPoll
<1> QED BY <1>1, <1>2, Referenced

(* What TaskCell::waker_wake_ref does to the invariant's parts. *)
LEMMA WakeInv ==
  ASSUME IInv, NEW t \in Tasks, Wake(t), refcount[t] > 0,
         UNCHANGED <<ctl, registered, owner>>
  PROVE  /\ flags' \in [Tasks -> SUBSET Flag] /\ crashed' = "no"
         /\ runqueue' \in Seq(Tasks) /\ refcount' \in [Tasks -> Nat]
         /\ QueuedOnce' /\ NotifiedIsQueued'
         /\ \A x \in Tasks : /\ refcount'[x] = refcount[x] + One(Queued(x)') - One(Queued(x))
                             /\ Queued(x) => Queued(x)'
                             /\ refcount'[x] > 0 <=> refcount[x] > 0
         /\ \A x \in Tasks, f \in {"RUNNING", "COMPLETE", "JOIN_HANDLE", "CANCELLED"} :
              f \in flags'[x] <=> f \in flags[x]
         /\ \A x \in Tasks : "NOTIFIED" \in flags[x] => "NOTIFIED" \in flags'[x]
         /\ "COMPLETE" \in flags[t] => UNCHANGED runqueue
<1> USE DEF IInv, TypeOK, Wake
<1>0. flags' \in [Tasks -> SUBSET Flag] /\ crashed' = "no"
  <2>1. Notify(flags[t]) \in SUBSET Flag
    BY DEF Notify, Flag
  <2>2. flags' \in [Tasks -> SUBSET Flag]
    BY <2>1
  <2>3. crashed' = "no"
    BY DEF Asserts
  <2> QED BY <2>2, <2>3
<1>1. /\ \A x \in Tasks, f \in {"RUNNING", "COMPLETE", "JOIN_HANDLE", "CANCELLED"} :
              f \in flags'[x] <=> f \in flags[x]
      /\ \A x \in Tasks : "NOTIFIED" \in flags[x] => "NOTIFIED" \in flags'[x]
  BY DEF Notify, Flag
<1>2. CASE NotifySubmits(flags[t])
  <2>1. ~Queued(t)
    BY <1>2 DEF NotifySubmits, QueuedOnce
  <2>2. /\ runqueue' \in Seq(Tasks)
        /\ (\A i, j \in DOMAIN runqueue : runqueue[i] = runqueue[j] => i = j)'
        /\ \A x \in Tasks : Queued(x)' <=> Queued(x) \/ x = t
    BY <1>2, <2>1, PushQueue DEF QueuedOnce, Submit
  <2>3. "NOTIFIED" \in flags'[t] /\ "RUNNING" \notin flags'[t]
    BY <1>2 DEF NotifySubmits, Notify
  <2>4. \A x \in Tasks : x # t => flags'[x] = flags[x]
    OBVIOUS
  <2>5. QueuedOnce'
    BY <2>2, <2>3, <2>4 DEF QueuedOnce
  <2>6. NotifiedIsQueued'
    BY <2>2, <2>4 DEF NotifiedIsQueued
  <2>7. \A x \in Tasks : /\ refcount'[x] = refcount[x] + One(Queued(x)') - One(Queued(x))
                         /\ Queued(x) => Queued(x)'
                         /\ refcount'[x] > 0 <=> refcount[x] > 0
    <3>1. /\ refcount'[t] = refcount[t] + 1 /\ refcount[t] \in Nat
          /\ \A x \in Tasks : x # t => refcount'[x] = refcount[x]
      BY <1>2 DEF Submit
    <3> HIDE DEF IInv, TypeOK, Wake
    <3>2. TAKE x \in Tasks
    <3>3. refcount[x] \in Nat
      BY DEF IInv, TypeOK
    <3>4. CASE x = t
      BY <2>1, <2>2, <3>1, <3>4 DEF One
    <3>5. CASE x # t
      BY <2>2, <3>1, <3>3, <3>5 DEF One
    <3> QED BY <3>4, <3>5
  <2>9. "COMPLETE" \notin flags[t]
    BY <1>2 DEF NotifySubmits
  <2> HIDE DEF IInv, TypeOK, Wake
  <2>8. refcount' \in [Tasks -> Nat]
    BY <1>2, CountTypes DEF Submit, Wake
  <2> QED BY <1>0, <1>1, <2>2, <2>5, <2>6, <2>7, <2>8, <2>9
<1>3. CASE ~NotifySubmits(flags[t])
  <2>1. UNCHANGED <<refcount, runqueue>>
    BY <1>3
  <2>2. \A x \in Tasks : Queued(x)' <=> Queued(x)
    BY <2>1 DEF Queued
  <2>3. \A x \in Tasks : flags'[x] = flags[x] \/ (x = t /\ flags'[x] = flags[x] \cup {"NOTIFIED"}
                         /\ (flags[x] \cap {"RUNNING", "NOTIFIED"} # {}))
    BY <1>3 DEF Notify, NotifySubmits
  <2>4. QueuedOnce'
    BY <2>1, <2>2, <2>3 DEF QueuedOnce
  <2>5. NotifiedIsQueued'
    BY <2>1, <2>2, <2>3 DEF NotifiedIsQueued
  <2> HIDE DEF IInv, TypeOK, Wake
  <2>6. refcount' \in [Tasks -> Nat] /\ runqueue' \in Seq(Tasks)
    BY <2>1, CountTypes DEF IInv, TypeOK
  <2>7. \A x \in Tasks : refcount'[x] = refcount[x] + One(Queued(x)') - One(Queued(x))
    BY <2>1, <2>2, CountTypes DEF One
  <2> QED BY <1>0, <1>1, <2>1, <2>2, <2>4, <2>5, <2>6, <2>7
<1> QED BY <1>2, <1>3

(* waker_wake_ref: the only reference that can appear is the queue's. *)
LEMMA WakeByRefInv == ASSUME IInv, NEW t \in Tasks, WakeByRef(t) PROVE IInv'
<1> USE DEF IInv
<1>1. refcount[t] > 0 /\ Live(t)
  BY Referenced DEF WakeByRef, HasWaker, UserCode, Running, InPoll, TypeOK
<1>2. Wake(t) /\ UNCHANGED <<cell, slot, owner, wakers, taskset, thread>>
  BY DEF WakeByRef
<1>3. /\ flags' \in [Tasks -> SUBSET Flag] /\ crashed' = "no"
      /\ runqueue' \in Seq(Tasks) /\ refcount' \in [Tasks -> Nat]
      /\ QueuedOnce' /\ NotifiedIsQueued'
      /\ \A x \in Tasks : /\ refcount'[x] = refcount[x] + One(Queued(x)') - One(Queued(x))
                          /\ Queued(x) => Queued(x)'
                          /\ refcount'[x] > 0 <=> refcount[x] > 0
      /\ \A x \in Tasks, f \in {"RUNNING", "COMPLETE", "JOIN_HANDLE", "CANCELLED"} :
           f \in flags'[x] <=> f \in flags[x]
      /\ "COMPLETE" \in flags[t] => UNCHANGED runqueue
  BY <1>1, <1>2, WakeInv DEF taskset, thread
<1>4. TypeOK'
  BY <1>2, <1>3 DEF TypeOK, taskset, thread
<1>5. RefcountExact'
  <2> SUFFICES ASSUME NEW x \in Tasks PROVE (refcount[x] = Refs(x))'
    BY DEF RefcountExact
  <2>1. DirectRefs(x)' = DirectRefs(x) + One(Queued(x)') - One(Queued(x))
    <3>1. wakers[x] \in Int /\ UNCHANGED <<registered, owner, wakers, ctl, releasing>>
      BY <1>2 DEF TypeOK, taskset, thread
    <3> HIDE DEF IInv
    <3> QED BY <3>1 DEF DirectRefs, One
  <2>2. refcount[x] = DirectRefs(x) + Cardinality(Waiting(x))
    BY DEF RefcountExact, Refs
  <2>3. DirectRefs(x) \in Int /\ Cardinality(Waiting(x)) \in Int
    BY CountFacts
  <2> QED BY <1>2, <1>3, <2>1, <2>2, <2>3, WaitingSame DEF Refs, One
<1>6. LiveInv' /\ HandleInv' /\ RunningInv' /\ CompleteInv' /\ SlotInv'
      /\ NoCrash' /\ JoinIsNotified'
  BY <1>2, <1>3 DEF LiveInv, Live, HandleInv, RunningInv, CompleteInv,
     SlotInv, NoCrash, JoinIsNotified, taskset, thread
<1>7. PhaseInv'
  BY <1>2, <1>3 DEF PhaseInv, TypeOK, taskset, thread, WakeByRef, UserCode, Destructor, Executing
<1>8. ClosedInv'
  <2>1. closed /\ ctl.at = "root" => "COMPLETE" \in flags[t]
    BY <1>1 DEF ClosedInv, CompleteInv
  <2> QED BY <1>2, <1>3, <2>1 DEF ClosedInv, taskset, thread
<1> QED BY <1>3, <1>4, <1>5, <1>6, <1>7, <1>8

(* A dropped waker's reference becomes the one whose Drop runs. *)
LEMMA DropWakerInv == ASSUME IInv, NEW t \in Tasks, DropWaker(t) PROVE IInv'
<1>1. /\ releasing = None /\ wakers[t] > 0
      /\ wakers' = [wakers EXCEPT ![t] = @ - 1] /\ releasing' = t
      /\ UNCHANGED <<flags, refcount, cell, slot, owner, registered, closed, runqueue, ctl, crashed>>
  BY DEF DropWaker, UserCode, taskset
<1>2. TypeOK'
  BY <1>1 DEF IInv, TypeOK
<1>3. RefcountExact'
  <2> SUFFICES ASSUME NEW x \in Tasks PROVE (refcount[x] = Refs(x))'
    BY DEF RefcountExact
  <2>1. DirectRefs(x)' = DirectRefs(x)
    <3>1. wakers[x] \in Int /\ wakers'[x] = wakers[x] - One(x = t)
      BY <1>1, CountFacts, CountTypes DEF One
    <3> QED BY <1>1, <3>1, QueuedSame DEF DirectRefs, One
  <2>9. UNCHANGED slot /\ refcount'[x] = refcount[x]
    BY <1>1
  <2> QED BY <2>1, <2>9, CountFacts, WaitingSame DEF Refs
<1>4. QueuedOnce' /\ NotifiedIsQueued'
  BY <1>1 DEF IInv, QueuedOnce, NotifiedIsQueued, Queued
<1>5. /\ LiveInv' /\ HandleInv' /\ RunningInv' /\ PhaseInv' /\ CompleteInv'
      /\ ClosedInv' /\ SlotInv' /\ NoCrash' /\ JoinIsNotified'
  BY <1>1 DEF IInv, LiveInv, Live, HandleInv, RunningInv, PhaseInv, Queued,
     CompleteInv, ClosedInv, SlotInv, NoCrash, JoinIsNotified
<1> QED BY <1>2, <1>3, <1>4, <1>5 DEF IInv

(* A cloned waker counts one reference more. *)
LEMMA CloneWakerInv == ASSUME IInv, NEW t \in Tasks, CloneWaker(t) PROVE IInv'
<1>0. refcount[t] > 0
  BY Referenced DEF CloneWaker, HasWaker, Running, InPoll, IInv, TypeOK
<1>1. /\ wakers[t] < MaxWakers /\ crashed' = "no"
      /\ wakers' = [wakers EXCEPT ![t] = @ + 1]
      /\ refcount' = [refcount EXCEPT ![t] = @ + 1]
      /\ UNCHANGED <<flags, cell, slot, owner, registered, closed, runqueue, ctl, releasing>>
  BY <1>0 DEF CloneWaker, Asserts, taskset, thread
<1>2. TypeOK'
  <2>1. wakers' \in [Tasks -> 0..MaxWakers] /\ refcount' \in [Tasks -> Nat]
    BY <1>1 DEF IInv, TypeOK
  <2> QED BY <1>1, <2>1 DEF IInv, TypeOK
<1>3. RefcountExact'
  <2> SUFFICES ASSUME NEW x \in Tasks PROVE (refcount[x] = Refs(x))'
    BY DEF RefcountExact
  <2>1. DirectRefs(x)' = DirectRefs(x) + One(x = t)
    <3>1. wakers[x] \in Int /\ wakers'[x] = wakers[x] + One(x = t)
      BY <1>1, CountFacts, CountTypes DEF One
    <3> QED BY <1>1, <3>1, QueuedSame DEF DirectRefs, One
  <2>2. refcount'[x] = refcount[x] + One(x = t)
    BY <1>1, CountFacts, CountTypes DEF One
  <2>9. UNCHANGED slot
    BY <1>1
  <2>10. One(x = t) \in Int
    BY DEF One
  <2> QED BY <2>1, <2>2, <2>9, <2>10, RefsMove
<1>4. QueuedOnce' /\ NotifiedIsQueued'
  BY <1>1 DEF IInv, QueuedOnce, NotifiedIsQueued, Queued
<1>5. LiveInv'
  BY <1>0, <1>1 DEF IInv, TypeOK, LiveInv, Live
<1>6. /\ HandleInv' /\ RunningInv' /\ PhaseInv' /\ CompleteInv'
      /\ ClosedInv' /\ SlotInv' /\ NoCrash' /\ JoinIsNotified'
  BY <1>1 DEF IInv, Live, HandleInv, RunningInv, PhaseInv, Queued,
     CompleteInv, ClosedInv, SlotInv, NoCrash, JoinIsNotified
<1> QED BY <1>2, <1>3, <1>4, <1>5, <1>6 DEF IInv

(* waker_wake_val: a wake, then the waker's own reference is released. *)
LEMMA WakeByValInv == ASSUME IInv, NEW t \in Tasks, WakeByVal(t) PROVE IInv'
<1>1. /\ releasing = None /\ wakers[t] > 0 /\ Wake(t)
      /\ wakers' = [wakers EXCEPT ![t] = @ - 1] /\ releasing' = t
      /\ UNCHANGED <<cell, slot, owner, registered, closed, ctl>>
      /\ ctl.at \in {"root", "poll"} \cup Destructor
  BY DEF WakeByVal, UserCode, taskset
<1>2. refcount[t] > 0 /\ Live(t)
  BY <1>1, Referenced
<1>3. /\ flags' \in [Tasks -> SUBSET Flag] /\ crashed' = "no"
      /\ runqueue' \in Seq(Tasks) /\ refcount' \in [Tasks -> Nat]
      /\ QueuedOnce' /\ NotifiedIsQueued'
      /\ \A x \in Tasks : /\ refcount'[x] = refcount[x] + One(Queued(x)') - One(Queued(x))
                          /\ Queued(x) => Queued(x)'
                          /\ refcount'[x] > 0 <=> refcount[x] > 0
      /\ \A x \in Tasks, f \in {"RUNNING", "COMPLETE", "JOIN_HANDLE", "CANCELLED"} :
           f \in flags'[x] <=> f \in flags[x]
      /\ "COMPLETE" \in flags[t] => UNCHANGED runqueue
  BY <1>1, <1>2, WakeInv
<1>4. TypeOK'
  <2>1. wakers' \in [Tasks -> 0..MaxWakers]
    BY <1>1 DEF IInv, TypeOK
  <2> QED BY <1>1, <1>3, <2>1 DEF IInv, TypeOK
<1>5. RefcountExact'
  <2> SUFFICES ASSUME NEW x \in Tasks PROVE (refcount[x] = Refs(x))'
    BY DEF RefcountExact
  <2>1. DirectRefs(x)' = DirectRefs(x) + One(Queued(x)') - One(Queued(x))
    <3>1. wakers[x] \in Int /\ wakers'[x] = wakers[x] - One(x = t)
      BY <1>1, CountFacts, CountTypes DEF One
    <3> QED BY <1>1, <3>1 DEF DirectRefs, One
  <2>8. refcount'[x] = refcount[x] + One(Queued(x)') - One(Queued(x))
    BY <1>3
  <2>9. UNCHANGED slot
    BY <1>1
  <2>10. One(Queued(x)') - One(Queued(x)) \in Int
    BY DEF One
  <2>11. /\ One(Queued(x)') \in Int /\ One(Queued(x)) \in Int
    BY DEF One
  <2> QED BY <2>1, <2>8, <2>9, <2>10, <2>11, CountFacts, RefsMove
<1>6. LiveInv' /\ HandleInv' /\ RunningInv' /\ CompleteInv' /\ SlotInv'
      /\ NoCrash' /\ JoinIsNotified'
  BY <1>1, <1>3 DEF IInv, LiveInv, Live, HandleInv, RunningInv, CompleteInv,
     SlotInv, NoCrash, JoinIsNotified
<1>7. PhaseInv'
  BY <1>1, <1>3 DEF IInv, PhaseInv, TypeOK, Destructor, Executing
<1>8. ClosedInv'
  <2>1. closed /\ ctl.at = "root" => "COMPLETE" \in flags[t]
    BY <1>2 DEF IInv, ClosedInv, CompleteInv
  <2> QED BY <1>1, <1>3, <2>1 DEF IInv, ClosedInv
<1> QED BY <1>3, <1>4, <1>5, <1>6, <1>7, <1>8 DEF IInv

(* The handle's reference becomes the one whose Drop runs, and JOIN_HANDLE *)
(* is cleared with it.                                                     *)
LEMMA DropHandleInv == ASSUME IInv, NEW h \in Tasks, DropHandle(h) PROVE IInv'
<1>0. Actor # None
  BY ActorLives DEF DropHandle
<1>1. /\ releasing = None /\ owner[h] # None
      /\ ctl.at \in {"root", "poll"} \cup Destructor
      /\ Asserts(DropJoinHandleOk(flags[h], refcount[h]))
      /\ flags' = [flags EXCEPT ![h] = DropJoinHandle(@)]
      /\ owner' = [owner EXCEPT ![h] = None] /\ releasing' = h
      /\ UNCHANGED <<refcount, cell, slot, wakers, registered, closed, runqueue, ctl>>
  BY <1>0 DEF DropHandle, UserCode, Owned, taskset
<1>2. refcount[h] > 0
  BY <1>1, Referenced
<1>3. crashed' = "no"
  BY <1>1, <1>2 DEF Asserts, DropJoinHandleOk, IInv, HandleInv
<1>4. /\ \A x \in Tasks, f \in Flag \ {"JOIN_HANDLE"} : f \in flags'[x] <=> f \in flags[x]
      /\ \A x \in Tasks : "JOIN_HANDLE" \in flags'[x] <=> x # h /\ "JOIN_HANDLE" \in flags[x]
  BY <1>1 DEF DropJoinHandle, IInv, TypeOK
<1>5. flags' \in [Tasks -> SUBSET Flag]
  BY <1>1 DEF DropJoinHandle, IInv, TypeOK
<1>6. TypeOK'
  BY <1>1, <1>3, <1>5 DEF IInv, TypeOK
<1>7. RefcountExact'
  <2> SUFFICES ASSUME NEW x \in Tasks PROVE (refcount[x] = Refs(x))'
    BY DEF RefcountExact
  <2>1. DirectRefs(x)' = DirectRefs(x)
    <3>1. wakers[x] \in Int /\ (owner'[x] # None <=> x # h /\ owner[x] # None)
      BY <1>1, CountFacts DEF IInv, TypeOK
    <3> QED BY <1>1, <3>1, QueuedSame DEF DirectRefs, One
  <2>9. UNCHANGED slot /\ refcount'[x] = refcount[x]
    BY <1>1
  <2> QED BY <2>1, <2>9, CountFacts, WaitingSame DEF Refs
<1>8. QueuedOnce' /\ NotifiedIsQueued'
  BY <1>1, <1>4 DEF IInv, QueuedOnce, NotifiedIsQueued, Queued, Flag
<1>9. HandleInv' /\ RunningInv' /\ PhaseInv' /\ CompleteInv' /\ JoinIsNotified'
  BY <1>1, <1>4 DEF IInv, TypeOK, HandleInv, RunningInv, PhaseInv, Queued, Live,
     CompleteInv, JoinIsNotified, Flag
<1>10. LiveInv' /\ ClosedInv' /\ SlotInv' /\ NoCrash'
  BY <1>1, <1>3 DEF IInv, LiveInv, Live, ClosedInv, SlotInv, NoCrash
<1> QED BY <1>6, <1>7, <1>8, <1>9, <1>10 DEF IInv

(* Moving a handle moves its reference. *)
LEMMA GiveHandleInv ==
  ASSUME IInv, NEW h \in Tasks, NEW u \in Tasks \cup {Root}, GiveHandle(h, u)
  PROVE  IInv'
<1>0. Actor # None
  BY ActorLives DEF GiveHandle
<1>1. /\ owner[h] # None /\ owner' = [owner EXCEPT ![h] = u]
      /\ UNCHANGED <<flags, refcount, cell, slot, wakers, registered, closed,
                     runqueue, ctl, releasing, crashed>>
  BY <1>0 DEF GiveHandle, Owned, taskset, thread
<1>2. TypeOK'
  BY <1>1 DEF IInv, TypeOK
<1>3. \A x \in Tasks : owner'[x] = None <=> owner[x] = None
  BY <1>1 DEF IInv, TypeOK
<1>4. RefcountExact'
  <2> SUFFICES ASSUME NEW x \in Tasks PROVE (refcount[x] = Refs(x))'
    BY DEF RefcountExact
  <2>1. DirectRefs(x)' = DirectRefs(x)
    <3>1. wakers[x] \in Int
      BY CountFacts
    <3> QED BY <1>1, <1>3, <3>1, QueuedSame DEF DirectRefs, One
  <2>9. UNCHANGED slot /\ refcount'[x] = refcount[x]
    BY <1>1
  <2> QED BY <2>1, <2>9, CountFacts, WaitingSame DEF Refs
<1>5. /\ QueuedOnce' /\ NotifiedIsQueued'
      /\ LiveInv' /\ HandleInv' /\ RunningInv' /\ PhaseInv' /\ CompleteInv'
      /\ ClosedInv' /\ SlotInv' /\ NoCrash' /\ JoinIsNotified'
  BY <1>1, <1>3 DEF IInv, LiveInv, Live, HandleInv, RunningInv, PhaseInv, Queued,
     CompleteInv, ClosedInv, SlotInv, NoCrash, JoinIsNotified, QueuedOnce,
     NotifiedIsQueued
<1> QED BY <1>2, <1>4, <1>5 DEF IInv

(* Drop of a reference: the last one frees the memory, and passes on to the*)
(* reference the header's waker holds.                                     *)
LEMMA ReleaseInv == ASSUME IInv, Release PROVE IInv'
<1> DEFINE t == releasing
<1>1. /\ t \in Tasks /\ t # None /\ Asserts(DropRefOk(flags[t], refcount[t]))
      /\ refcount' = [refcount EXCEPT ![t] = @ - 1]
      /\ IF refcount[t] = 1 THEN Dealloc(t)
         ELSE releasing' = None /\ UNCHANGED <<cell, slot>>
      /\ UNCHANGED <<flags, owner, wakers, registered, closed, runqueue, ctl>>
  BY DEF Release, IInv, TypeOK, taskset
<1>2. refcount[t] > 0 /\ Live(t) /\ refcount[t] \in Nat
  BY <1>1, Referenced, CountFacts
<1>3. refcount[t] = 1 =>
        /\ t \notin registered /\ owner[t] = None /\ ~Queued(t) /\ wakers[t] = 0
        /\ ~(ctl.task = t /\ ctl.at \in Running \cup {"teardown"})
        /\ Cardinality(Waiting(t)) = 0
  BY <1>1, CountFacts DEF DirectRefs, One
<1>4. crashed' = "no"
  BY <1>1, <1>2, <1>3 DEF Asserts, DropRefOk, IInv, HandleInv
<1>5. CASE refcount[t] # 1
  <2>1. releasing' = None /\ UNCHANGED <<cell, slot>>
    BY <1>1, <1>5
  <2>2. TypeOK'
    <3>1. refcount' \in [Tasks -> Nat]
      BY <1>1, <1>2 DEF IInv, TypeOK
    <3> QED BY <1>1, <1>4, <2>1, <3>1 DEF IInv, TypeOK
  <2>3. RefcountExact'
    <3> SUFFICES ASSUME NEW x \in Tasks PROVE (refcount[x] = Refs(x))'
      BY DEF RefcountExact
    <3>1. DirectRefs(x)' = DirectRefs(x) - One(x = t)
      <4>1. wakers[x] \in Int
        BY CountFacts
      <4> QED BY <1>1, <2>1, <4>1, QueuedSame DEF DirectRefs, One
    <3>2. refcount'[x] = refcount[x] - One(x = t)
      <4>1. refcount \in [Tasks -> Nat]
        BY DEF IInv, TypeOK
      <4> QED BY <1>1, <4>1 DEF One
    <3>9. UNCHANGED slot
      BY <2>1
    <3>10. -One(x = t) \in Int
      BY DEF One
    <3> QED BY <3>1, <3>2, <3>9, <3>10, RefsMove
  <2>4. LiveInv'
    BY <1>1, <1>2, <1>5, <2>1 DEF IInv, TypeOK, LiveInv, Live
  <2>5. /\ QueuedOnce' /\ NotifiedIsQueued' /\ HandleInv' /\ RunningInv'
        /\ PhaseInv' /\ CompleteInv' /\ ClosedInv' /\ SlotInv' /\ NoCrash'
        /\ JoinIsNotified'
    BY <1>1, <1>4, <2>1 DEF IInv, Live, HandleInv, RunningInv, PhaseInv, Queued,
       CompleteInv, ClosedInv, SlotInv, NoCrash, JoinIsNotified, QueuedOnce,
       NotifiedIsQueued
  <2> QED BY <2>2, <2>3, <2>4, <2>5 DEF IInv
<1>6. CASE refcount[t] = 1
  <2>1. /\ cell' = [cell EXCEPT ![t] = "freed"]
        /\ slot' = [slot EXCEPT ![t] = None]
        /\ releasing' = IF slot[t] \in Tasks THEN slot[t] ELSE None
        /\ slot[t] # t
    BY <1>1, <1>6 DEF Dealloc, IInv, SlotInv
  <2>2. TypeOK'
    <3>1. refcount' \in [Tasks -> Nat]
      BY <1>1, <1>2 DEF IInv, TypeOK
    <3>2. cell' \in [Tasks -> Cell] /\ slot' \in [Tasks -> Tasks \cup {Root, None}]
      BY <2>1 DEF IInv, TypeOK, Cell
    <3> QED BY <1>1, <1>4, <2>1, <3>1, <3>2 DEF IInv, TypeOK
  <2>3. RefcountExact'
    <3> SUFFICES ASSUME NEW x \in Tasks PROVE (refcount[x] = Refs(x))'
      BY DEF RefcountExact
    <3>1. Cardinality(Waiting(x))' = Cardinality(Waiting(x)) - One(x = slot[t])
      <4>1. /\ slot \in [Tasks -> Tasks \cup {Root, None}]
            /\ \A u \in Tasks : u # t => slot'[u] = slot[u]
            /\ slot'[t] = None /\ x # None
        BY <1>1, <2>1 DEF IInv, TypeOK
      <4>2. Cardinality(Waiting(x))' =
              Cardinality(Waiting(x)) + One(x = slot'[t]) - One(x = slot[t])
        BY <1>1, <4>1, WaitingChange
      <4> QED BY <4>1, <4>2, CountFacts DEF One
    <3>2. DirectRefs(x)' = DirectRefs(x) - One(x = t) + One(x = slot[t])
      <4>1. wakers[x] \in Int
        BY CountFacts
      <4> QED BY <1>1, <2>1, <4>1, QueuedSame DEF DirectRefs, One
    <3>3. refcount'[x] = refcount[x] - One(x = t)
      <4>1. refcount \in [Tasks -> Nat]
        BY DEF IInv, TypeOK
      <4> QED BY <1>1, <4>1 DEF One
    <3> QED BY <3>1, <3>2, <3>3, CountFacts DEF Refs, One
  <2>4. LiveInv'
    BY <1>1, <1>6, <2>1 DEF IInv, TypeOK, LiveInv, Live
  <2>5. /\ QueuedOnce' /\ NotifiedIsQueued' /\ HandleInv' /\ RunningInv'
        /\ ClosedInv' /\ NoCrash'
    BY <1>1, <1>4, <2>1 DEF IInv, TypeOK, HandleInv, RunningInv, Queued, ClosedInv,
       NoCrash, QueuedOnce, NotifiedIsQueued
  <2>7. SlotInv'
    BY <1>1, <2>1 DEF IInv, TypeOK, SlotInv, Live
  <2>6. PhaseInv' /\ CompleteInv' /\ JoinIsNotified'
    BY <1>1, <1>3, <1>6, <2>1 DEF IInv, TypeOK, PhaseInv, CompleteInv, Live, Queued,
       JoinIsNotified
  <2> QED BY <2>2, <2>3, <2>4, <2>5, <2>6, <2>7 DEF IInv
<1> QED BY <1>5, <1>6

(* The parts of a task that was never spawned. *)
LEMMA UnbornFacts ==
  ASSUME IInv, NEW t \in Tasks, cell[t] = "unborn"
  PROVE  /\ refcount[t] = 0 /\ t \notin registered /\ owner[t] = None
         /\ ~Queued(t) /\ wakers[t] = 0 /\ releasing # t
         /\ ~(ctl.task = t /\ ctl.at \in Running \cup {"teardown"})
         /\ Cardinality(Waiting(t)) = 0
<1>1. refcount[t] = 0
  BY CountFacts DEF IInv, LiveInv, Live
<1>2. Cardinality(Waiting(t)) = 0
  BY <1>1, CountFacts
<1>3. /\ t \notin registered /\ owner[t] = None /\ ~Queued(t)
      /\ ~(wakers[t] > 0) /\ releasing # t
      /\ ~(ctl.task = t /\ ctl.at \in Running \cup {"teardown"})
  BY <1>1, Referenced
<1>4. wakers[t] = 0
  BY <1>3, CountFacts
<1> QED BY <1>1, <1>2, <1>3, <1>4

(* A new task gets two references when the set refuses it, else three. *)
LEMMA SpawnInv == ASSUME IInv, NEW t \in Tasks, Spawn(t) PROVE IInv'
<1>1. /\ cell[t] = "unborn" /\ releasing = None
      /\ ctl.at \in {"root", "poll", "dropping", "cancelled"}
      /\ owner' = [owner EXCEPT ![t] = Actor]
      /\ UNCHANGED <<slot, wakers, closed, ctl, crashed>>
  BY DEF Spawn, UserCode, Destructor, Borrowed
<1>2. Actor \in Tasks \cup {Root} /\ Actor # None
  BY ActorLives DEF Spawn
<1>3. /\ refcount[t] = 0 /\ t \notin registered /\ owner[t] = None
      /\ ~Queued(t) /\ wakers[t] = 0
      /\ ~(ctl.task = t /\ ctl.at \in Running \cup {"teardown"})
  BY <1>1, UnbornFacts
<1>4. CASE closed
  <2>1. /\ flags' = [flags EXCEPT ![t] = Shutdown(NewFlags)]
        /\ refcount' = [refcount EXCEPT ![t] = 2]
        /\ cell' = [cell EXCEPT ![t] = "cancelled"]
        /\ releasing' = t
        /\ UNCHANGED <<registered, runqueue>>
    BY <1>4 DEF Spawn, NewRefcount
  <2>2. /\ flags' \in [Tasks -> SUBSET Flag]
        /\ \A x \in Tasks : x # t => flags'[x] = flags[x]
        /\ flags'[t] = {"JOIN_HANDLE", "NOTIFIED", "CANCELLED", "COMPLETE"}
    BY <2>1 DEF IInv, TypeOK, Shutdown, NewFlags, Flag
  <2>3. TypeOK'
    BY <1>1, <1>2, <2>1, <2>2 DEF IInv, TypeOK, Cell, Outcome
  <2>4. RefcountExact'
    <3> SUFFICES ASSUME NEW x \in Tasks PROVE (refcount[x] = Refs(x))'
      BY DEF RefcountExact
    <3>1. DirectRefs(x)' = DirectRefs(x) + 2 * One(x = t)
      <4>1. wakers[x] \in Int /\ (owner'[x] = None <=> x # t /\ owner[x] = None)
        BY <1>1, <1>2, CountFacts DEF IInv, TypeOK
      <4> QED BY <1>1, <1>3, <2>1, <4>1, QueuedSame DEF DirectRefs, One
    <3>2. refcount'[x] = refcount[x] + 2 * One(x = t)
      BY <1>3, <2>1, CountFacts, CountTypes DEF One
    <3>9. UNCHANGED slot
      BY <1>1
    <3>10. 2 * One(x = t) \in Int
      BY DEF One
    <3> QED BY <3>1, <3>2, <3>9, <3>10, RefsMove
  <2>5. LiveInv'
    BY <2>1 DEF IInv, TypeOK, LiveInv, Live
  <2>6. HandleInv' /\ RunningInv' /\ CompleteInv' /\ JoinIsNotified'
    <3>1. HandleInv' /\ JoinIsNotified'
      BY <1>1, <1>2, <1>4, <2>1, <2>2 DEF IInv, TypeOK, HandleInv, JoinIsNotified
    <3>2. RunningInv'
      BY <1>1, <1>3, <2>1, <2>2 DEF IInv, RunningInv, Running, InPoll, Executing
    <3>3. CompleteInv'
      BY <2>1, <2>2 DEF IInv, TypeOK, CompleteInv, Live
    <3> QED BY <3>1, <3>2, <3>3
  <2>7. PhaseInv' /\ QueuedOnce' /\ NotifiedIsQueued'
    <3>1. \A x \in Tasks : Queued(x)' <=> Queued(x)
      BY <2>1, QueuedSame
    <3>2. PhaseInv'
      BY <1>1, <1>3, <2>1, <2>2, <3>1 DEF IInv, TypeOK, PhaseInv, Running, InPoll,
         Executing
    <3>3. QueuedOnce'
      BY <1>3, <2>1, <2>2, <3>1 DEF IInv, QueuedOnce
    <3>4. NotifiedIsQueued'
      BY <1>1, <2>2, <3>1 DEF IInv, NotifiedIsQueued
    <3> QED BY <3>2, <3>3, <3>4
  <2>8. ClosedInv' /\ NoCrash'
    BY <1>1, <2>1 DEF IInv, ClosedInv, NoCrash
  <2>9. SlotInv'
    BY <1>1, <2>1 DEF IInv, TypeOK, SlotInv, Live
  <2> QED BY <2>3, <2>4, <2>5, <2>6, <2>7, <2>8, <2>9 DEF IInv
<1>5. CASE ~closed
  <2>1. /\ flags' = [flags EXCEPT ![t] = NewFlags]
        /\ refcount' = [refcount EXCEPT ![t] = 3]
        /\ cell' = [cell EXCEPT ![t] = "future"]
        /\ registered' = registered \cup {t}
        /\ runqueue' = Append(runqueue, t)
        /\ UNCHANGED releasing
    BY <1>5 DEF Spawn, NewRefcount
  <2>2. /\ flags' \in [Tasks -> SUBSET Flag]
        /\ \A x \in Tasks : x # t => flags'[x] = flags[x]
        /\ flags'[t] = {"JOIN_HANDLE", "NOTIFIED"}
    BY <2>1 DEF IInv, TypeOK, NewFlags, Flag
  <2>3. /\ runqueue' \in Seq(Tasks)
        /\ (\A i, j \in DOMAIN runqueue : runqueue[i] = runqueue[j] => i = j)'
        /\ \A x \in Tasks : Queued(x)' <=> Queued(x) \/ x = t
    BY <1>3, <2>1, PushQueue DEF IInv, TypeOK, QueuedOnce
  <2>4. TypeOK'
    BY <1>1, <1>2, <2>1, <2>2, <2>3 DEF IInv, TypeOK, Cell
  <2>5. RefcountExact'
    <3> SUFFICES ASSUME NEW x \in Tasks PROVE (refcount[x] = Refs(x))'
      BY DEF RefcountExact
    <3>1. DirectRefs(x)' = DirectRefs(x) + 3 * One(x = t)
      <4>1. wakers[x] \in Int /\ (owner'[x] = None <=> x # t /\ owner[x] = None)
        BY <1>1, <1>2, CountFacts DEF IInv, TypeOK
      <4>2. CASE x = t
        <5>1. /\ ~(ctl.task = x /\ ctl.at \in InPoll) /\ releasing # x
              /\ x \in registered' /\ owner'[x] # None /\ Queued(x)'
          BY <1>1, <1>2, <1>3, <2>1, <2>3, <4>1, <4>2 DEF Running
        <5> QED BY <1>1, <1>3, <2>1, <4>1, <4>2, <5>1 DEF DirectRefs, One
      <4>3. CASE x # t
        <5>1. /\ x \in registered' <=> x \in registered
              /\ owner'[x] = owner[x] /\ Queued(x)' <=> Queued(x)
          BY <1>1, <2>1, <2>3, <4>1, <4>3 DEF IInv, TypeOK
        <5> QED BY <1>1, <2>1, <4>1, <4>3, <5>1 DEF DirectRefs, One
      <4> QED BY <4>2, <4>3
    <3>2. refcount'[x] = refcount[x] + 3 * One(x = t)
      BY <1>3, <2>1, CountFacts, CountTypes DEF One
    <3>9. UNCHANGED slot
      BY <1>1
    <3>10. 3 * One(x = t) \in Int
      BY DEF One
    <3> QED BY <3>1, <3>2, <3>9, <3>10, RefsMove
  <2>6. LiveInv'
    BY <2>1 DEF IInv, TypeOK, LiveInv, Live
  <2>7. HandleInv' /\ RunningInv' /\ CompleteInv' /\ JoinIsNotified'
    <3>1. HandleInv' /\ JoinIsNotified'
      BY <1>1, <1>2, <1>5, <2>1, <2>2 DEF IInv, TypeOK, HandleInv, JoinIsNotified
    <3>2. RunningInv'
      BY <1>1, <1>3, <2>1, <2>2 DEF IInv, RunningInv, Running, InPoll, Executing
    <3>3. CompleteInv'
      BY <2>1, <2>2 DEF IInv, TypeOK, CompleteInv, Live
    <3> QED BY <3>1, <3>2, <3>3
  <2>8. PhaseInv' /\ QueuedOnce' /\ NotifiedIsQueued'
    <3>1. PhaseInv'
      BY <1>1, <1>3, <2>1, <2>2, <2>3 DEF IInv, TypeOK, PhaseInv, Running, InPoll,
         Executing
    <3>2. QueuedOnce'
      BY <2>2, <2>3 DEF IInv, QueuedOnce
    <3>3. NotifiedIsQueued'
      BY <1>1, <2>2, <2>3 DEF IInv, NotifiedIsQueued
    <3> QED BY <3>1, <3>2, <3>3
  <2>9. ClosedInv' /\ NoCrash'
    BY <1>1, <1>5, <2>1 DEF IInv, ClosedInv, NoCrash, Borrowed
  <2>10. SlotInv'
    BY <1>1, <2>1 DEF IInv, TypeOK, SlotInv, Live
  <2> QED BY <2>3, <2>4, <2>5, <2>6, <2>7, <2>8, <2>9, <2>10 DEF IInv
<1> QED BY <1>4, <1>5

(* The spawn that aborts leaves everything as it was. *)
LEMMA SpawnWhileBorrowedInv == ASSUME IInv, SpawnWhileBorrowed PROVE IInv'
<1>1. ctl.at \in Borrowed /\ crashed' = "spawn"
      /\ UNCHANGED <<flags, refcount, cell, slot, owner, wakers, registered,
                     closed, runqueue, ctl, releasing>>
  BY DEF SpawnWhileBorrowed, taskset, thread
<1>2. TypeOK' /\ NoCrash'
  BY <1>1 DEF IInv, TypeOK, NoCrash, ClosedInv
<1>3. RefcountExact'
  BY <1>1, CountFacts, WaitingSame, QueuedSame DEF RefcountExact, Refs, DirectRefs, One
<1>4. /\ QueuedOnce' /\ NotifiedIsQueued'
      /\ LiveInv' /\ HandleInv' /\ RunningInv' /\ PhaseInv' /\ CompleteInv'
      /\ ClosedInv' /\ SlotInv' /\ JoinIsNotified'
  BY <1>1 DEF IInv, LiveInv, Live, HandleInv, RunningInv, PhaseInv, Queued,
     CompleteInv, ClosedInv, SlotInv, JoinIsNotified, QueuedOnce, NotifiedIsQueued
<1> QED BY <1>2, <1>3, <1>4 DEF IInv

(* JoinHandle::abort queues a task only if it is not queued yet. *)
LEMMA AbortTaskInv == ASSUME IInv, NEW h \in Tasks, AbortTask(h) PROVE IInv'
<1>0. Actor # None
  BY ActorLives DEF AbortTask
<1>1. /\ owner[h] # None /\ Asserts(AbortOk(flags[h], refcount[h]))
      /\ ctl.at \in {"root", "poll"} \cup Destructor
      /\ flags' = [flags EXCEPT ![h] = Abort(@)]
      /\ UNCHANGED <<cell, slot, owner, wakers, registered, closed, ctl, releasing>>
  BY <1>0 DEF AbortTask, Owned, UserCode, taskset, thread
<1>2. refcount[h] > 0 /\ Live(h)
  BY <1>1, Referenced
<1>3. crashed' = "no"
  BY <1>1, <1>2 DEF Asserts, AbortOk, IInv, HandleInv
<1>4. /\ flags' \in [Tasks -> SUBSET Flag]
      /\ \A x \in Tasks : x # h => flags'[x] = flags[x]
      /\ flags'[h] = IF flags[h] \cap {"CANCELLED", "COMPLETE"} # {} THEN flags[h]
                     ELSE flags[h] \cup {"CANCELLED", "NOTIFIED"}
  <2>1. Abort(flags[h]) \in SUBSET Flag
    BY DEF Abort, Flag, IInv, TypeOK
  <2> QED BY <1>1, <2>1 DEF Abort, IInv, TypeOK
<1>5. \A x \in Tasks : \A f \in {"RUNNING", "COMPLETE", "JOIN_HANDLE"} :
        f \in flags'[x] <=> f \in flags[x]
  BY <1>4
<1>6. CASE AbortSubmits(flags[h])
  <2>1. /\ refcount' = [refcount EXCEPT ![h] = @ + 1]
        /\ runqueue' = Append(runqueue, h)
    BY <1>6 DEF AbortTask, Submit
  <2>2. ~Queued(h)
    BY <1>6 DEF AbortSubmits, IInv, QueuedOnce
  <2>3. /\ runqueue' \in Seq(Tasks)
        /\ (\A i, j \in DOMAIN runqueue : runqueue[i] = runqueue[j] => i = j)'
        /\ \A x \in Tasks : Queued(x)' <=> Queued(x) \/ x = h
    BY <2>1, <2>2, PushQueue DEF IInv, TypeOK, QueuedOnce
  <2>4. TypeOK'
    <3>1. refcount' \in [Tasks -> Nat]
      BY <2>1 DEF IInv, TypeOK
    <3> QED BY <1>1, <1>3, <1>4, <2>1, <2>3, <3>1 DEF IInv, TypeOK
  <2>5. RefcountExact'
    <3> SUFFICES ASSUME NEW x \in Tasks PROVE (refcount[x] = Refs(x))'
      BY DEF RefcountExact
    <3>1. DirectRefs(x)' = DirectRefs(x) + One(x = h)
      <4>1. wakers[x] \in Int
        BY CountFacts
      <4> QED BY <1>1, <2>2, <2>3, <4>1 DEF DirectRefs, One
    <3>2. refcount'[x] = refcount[x] + One(x = h)
      BY <2>1, CountFacts, CountTypes DEF One
    <3>9. UNCHANGED slot
      BY <1>1
    <3>10. One(x = h) \in Int
      BY DEF One
    <3> QED BY <3>1, <3>2, <3>9, <3>10, RefsMove
  <2>6. QueuedOnce' /\ NotifiedIsQueued'
    BY <1>1, <1>4, <1>6, <2>3 DEF IInv, QueuedOnce, NotifiedIsQueued, AbortSubmits
  <2>7. LiveInv'
    BY <1>1, <1>2, <2>1 DEF IInv, TypeOK, LiveInv, Live
  <2>9. ClosedInv'
    <3>1. ~(closed /\ ctl.at = "root")
      BY <1>2, <1>6 DEF IInv, ClosedInv, CompleteInv, AbortSubmits
    <3> QED BY <1>1, <3>1 DEF IInv, ClosedInv
  <2>8. /\ HandleInv' /\ RunningInv' /\ PhaseInv' /\ CompleteInv' /\ SlotInv'
        /\ NoCrash' /\ JoinIsNotified'
    BY <1>1, <1>3, <1>5 DEF IInv, TypeOK, HandleInv, RunningInv, PhaseInv, CompleteInv,
       Live, SlotInv, NoCrash, JoinIsNotified, Destructor, Executing
  <2> QED BY <2>4, <2>5, <2>6, <2>7, <2>8, <2>9 DEF IInv
<1>7. CASE ~AbortSubmits(flags[h])
  <2>1. UNCHANGED <<refcount, runqueue>>
    BY <1>7 DEF AbortTask
  <2>2. TypeOK'
    BY <1>1, <1>3, <1>4, <2>1 DEF IInv, TypeOK
  <2>3. RefcountExact'
    BY <1>1, <2>1, CountFacts, WaitingSame, QueuedSame DEF RefcountExact, Refs,
       DirectRefs, One
  <2>4. QueuedOnce' /\ NotifiedIsQueued'
    BY <1>1, <1>4, <1>7, <2>1 DEF IInv, QueuedOnce, NotifiedIsQueued, Queued, AbortSubmits
  <2>5. /\ LiveInv' /\ ClosedInv' /\ HandleInv' /\ RunningInv' /\ PhaseInv'
        /\ CompleteInv' /\ SlotInv' /\ NoCrash' /\ JoinIsNotified'
    BY <1>1, <1>3, <1>5, <2>1 DEF IInv, TypeOK, LiveInv, Live, ClosedInv, HandleInv,
       RunningInv, PhaseInv, CompleteInv, SlotInv, NoCrash, JoinIsNotified,
       Destructor, Executing
  <2> QED BY <2>2, <2>3, <2>4, <2>5 DEF IInv
<1> QED BY <1>6, <1>7

(* The waker put in the header counts one reference; the one it replaces is*)
(* released.                                                               *)
LEMMA PollHandleInv == ASSUME IInv, NEW h \in Tasks, PollHandle(h) PROVE IInv'
<1>0. Actor \in Tasks \cup {Root} /\ Actor # None
      /\ (Actor \in Tasks => Live(Actor) /\ refcount[Actor] > 0)
  BY ActorLives DEF PollHandle
<1>1. /\ owner[h] # None /\ releasing = None /\ Actor # h
      /\ UNCHANGED <<flags, owner, wakers, registered, closed, runqueue, ctl, crashed>>
  BY <1>0 DEF PollHandle, Owned, UserCode, taskset
<1>2. Live(h)
  BY <1>1, Referenced
<1>3. QueuedOnce' /\ NotifiedIsQueued' /\ HandleInv' /\ RunningInv' /\ ClosedInv' /\ NoCrash'
  BY <1>1 DEF IInv, QueuedOnce, NotifiedIsQueued, Queued, HandleInv, RunningInv,
     ClosedInv, NoCrash
<1>4. CASE "COMPLETE" \in flags[h]
  <2>1. /\ cell' = [cell EXCEPT ![h] = "empty"]
        /\ UNCHANGED <<slot, refcount, releasing>>
    BY <1>4 DEF PollHandle
  <2>2. TypeOK'
    BY <1>1, <2>1 DEF IInv, TypeOK, Cell
  <2>3. RefcountExact'
    BY <1>1, <2>1, CountFacts, WaitingSame, QueuedSame DEF RefcountExact, Refs,
       DirectRefs, One
  <2>4. /\ LiveInv' /\ PhaseInv' /\ CompleteInv' /\ SlotInv' /\ JoinIsNotified'
    BY <1>1, <1>2, <2>1 DEF IInv, TypeOK, LiveInv, Live, PhaseInv, CompleteInv, SlotInv,
       JoinIsNotified, Queued
  <2> QED BY <1>3, <2>2, <2>3, <2>4 DEF IInv
<1>5. CASE "COMPLETE" \notin flags[h] /\ slot[h] = Actor
  <2>1. UNCHANGED <<cell, slot, refcount, releasing>>
    BY <1>5 DEF PollHandle, SetWaker
  <2>2. TypeOK'
    BY <1>1, <2>1 DEF IInv, TypeOK
  <2>3. RefcountExact'
    BY <1>1, <2>1, CountFacts, WaitingSame, QueuedSame DEF RefcountExact, Refs,
       DirectRefs, One
  <2>4. /\ LiveInv' /\ PhaseInv' /\ CompleteInv' /\ SlotInv' /\ JoinIsNotified'
    BY <1>1, <2>1 DEF IInv, LiveInv, Live, PhaseInv, CompleteInv, SlotInv,
       JoinIsNotified, Queued
  <2> QED BY <1>3, <2>2, <2>3, <2>4 DEF IInv
<1>6. CASE "COMPLETE" \notin flags[h] /\ slot[h] # Actor
  <2>1. /\ slot' = [slot EXCEPT ![h] = Actor]
        /\ refcount' = IF Actor \in Tasks
                       THEN [refcount EXCEPT ![Actor] = @ + 1] ELSE refcount
        /\ releasing' = IF slot[h] \in Tasks THEN slot[h] ELSE None
        /\ UNCHANGED cell
    BY <1>6 DEF PollHandle, SetWaker
  <2>2. TypeOK'
    <3>1. /\ refcount' \in [Tasks -> Nat] /\ releasing' \in Tasks \cup {None}
          /\ slot' \in [Tasks -> Tasks \cup {Root, None}]
      BY <1>0, <2>1 DEF IInv, TypeOK
    <3> QED BY <1>1, <2>1, <3>1 DEF IInv, TypeOK
  <2>3. RefcountExact'
    <3> SUFFICES ASSUME NEW x \in Tasks PROVE (refcount[x] = Refs(x))'
      BY DEF RefcountExact
    <3>1. Cardinality(Waiting(x))' =
            Cardinality(Waiting(x)) + One(x = Actor) - One(x = slot[h])
      <4>1. /\ slot \in [Tasks -> Tasks \cup {Root, None}]
            /\ \A u \in Tasks : u # h => slot'[u] = slot[u]
            /\ slot'[h] = Actor
        BY <2>1 DEF IInv, TypeOK
      <4>2. Cardinality(Waiting(x))' =
              Cardinality(Waiting(x)) + One(x = slot'[h]) - One(x = slot[h])
        BY <4>1, WaitingChange
      <4> QED BY <4>1, <4>2
    <3>2. DirectRefs(x)' = DirectRefs(x) + One(x = slot[h])
      <4>1. wakers[x] \in Int
        BY CountFacts
      <4> QED BY <1>1, <2>1, <4>1, QueuedSame DEF DirectRefs, One
    <3>3. refcount'[x] = refcount[x] + One(x = Actor)
      <4>1. CASE Actor \in Tasks
        BY <2>1, <4>1, CountFacts, CountTypes DEF One
      <4>2. CASE Actor \notin Tasks
        BY <2>1, <4>2, CountFacts DEF One
      <4> QED BY <4>1, <4>2
    <3> QED BY <3>1, <3>2, <3>3, CountFacts DEF Refs, One
  <2>4. LiveInv'
    BY <1>0, <2>1 DEF IInv, TypeOK, LiveInv, Live
  <2>5. /\ PhaseInv' /\ CompleteInv' /\ JoinIsNotified'
    BY <1>0, <1>1, <1>6, <2>1 DEF IInv, TypeOK, Live, PhaseInv, CompleteInv,
       JoinIsNotified, Queued
  <2>6. SlotInv'
    BY <1>1, <1>2, <2>1 DEF IInv, TypeOK, SlotInv, Live
  <2> QED BY <1>3, <2>2, <2>3, <2>4, <2>5, <2>6 DEF IInv
<1> QED BY <1>4, <1>5, <1>6

(* prepare_poll: a queued task passes its asserts, and the queue's         *)
(* reference becomes the Runnable's.                                       *)
LEMMA RunInv == ASSUME IInv, Run PROVE IInv'
<1>1. /\ ctl.at = "root" /\ ctl.task = None /\ releasing = None /\ crashed = "no"
      /\ runqueue # <<>> /\ runqueue' = Tail(runqueue)
      /\ UNCHANGED <<slot, owner, wakers, registered, closed, releasing>>
  BY DEF Run, Runtime, taskset, IInv, TypeOK
<1>2. PICK t \in Tasks :
        /\ t = Head(runqueue) /\ Queued(t) /\ runqueue' \in Seq(Tasks)
        /\ (\A i, j \in DOMAIN runqueue : runqueue[i] = runqueue[j] => i = j)'
        /\ \A x \in Tasks : Queued(x)' <=> Queued(x) /\ x # t
  BY <1>1, PopQueue DEF IInv, TypeOK, QueuedOnce
<1>3. /\ refcount[t] > 0 /\ Live(t) /\ ~closed
      /\ "NOTIFIED" \in flags[t] /\ "RUNNING" \notin flags[t]
  BY <1>1, <1>2, Referenced DEF IInv, QueuedOnce, ClosedInv
<1>4. crashed' = "no"
  BY <1>2, <1>3 DEF Run, Asserts, PreparePollOk
<1>5. /\ flags' \in [Tasks -> SUBSET Flag]
      /\ \A x \in Tasks : x # t => flags'[x] = flags[x]
      /\ flags'[t] = IF "COMPLETE" \in flags[t] THEN flags[t]
                     ELSE (flags[t] \cup {"RUNNING"}) \ {"NOTIFIED"}
  <2>1. flags' = [flags EXCEPT ![t] = PreparePoll(@)]
    BY <1>2 DEF Run
  <2>2. PreparePoll(flags[t]) \in SUBSET Flag
    BY DEF PreparePoll, Flag, IInv, TypeOK
  <2> QED BY <2>1, <2>2 DEF PreparePoll, IInv, TypeOK
<1>6. \/ /\ "COMPLETE" \in flags[t] /\ ctl' = [at |-> "done", task |-> t]
         /\ UNCHANGED <<refcount, cell>>
      \/ /\ "COMPLETE" \notin flags[t] /\ ctl' = [at |-> "cancelled", task |-> t]
         /\ cell' = [cell EXCEPT ![t] = "cancelled"] /\ UNCHANGED refcount
      \/ /\ "COMPLETE" \notin flags[t] /\ ctl' = [at |-> "poll", task |-> t]
         /\ refcount' = [refcount EXCEPT ![t] = @ + 1] /\ UNCHANGED cell
  BY <1>2 DEF Run, Goto
<1>7. TypeOK'
  <2>1. refcount' \in [Tasks -> Nat]
    BY <1>6 DEF IInv, TypeOK
  <2>3. cell' \in [Tasks -> Cell]
    BY <1>6 DEF IInv, TypeOK, Cell, Outcome
  <2>2. /\ ctl' \in [at : At, task : Tasks \cup {None}]
        /\ (ctl.task = None <=> ctl.at \in {"root", "shutdown", "drain"})'
    BY <1>6 DEF At, Running, InPoll
  <2> QED BY <1>1, <1>2, <1>4, <1>5, <2>1, <2>2, <2>3 DEF IInv, TypeOK
<1>8. RefcountExact'
  <2> SUFFICES ASSUME NEW x \in Tasks PROVE (refcount[x] = Refs(x))'
    BY DEF RefcountExact
  <2>1. DirectRefs(x)' = DirectRefs(x) + One(x = t /\ ctl'.at = "poll")
    <3>1. wakers[x] \in Int
      BY CountFacts
    <3> QED BY <1>1, <1>2, <1>6, <3>1 DEF DirectRefs, One, Running, InPoll
  <2>2. refcount'[x] = refcount[x] + One(x = t /\ ctl'.at = "poll")
    <3>1. refcount[x] \in Nat /\ refcount \in [Tasks -> Nat]
      BY DEF IInv, TypeOK
    <3> QED BY <1>6, <3>1 DEF One
  <2>9. UNCHANGED slot
    BY <1>1
  <2>10. One(x = t /\ ctl'.at = "poll") \in Int
    BY DEF One
  <2> QED BY <2>1, <2>2, <2>9, <2>10, RefsMove
<1>9. QueuedOnce' /\ NotifiedIsQueued'
  BY <1>1, <1>2, <1>5 DEF IInv, QueuedOnce, NotifiedIsQueued
<1>10. LiveInv' /\ HandleInv' /\ RunningInv'
  <2>1. LiveInv'
    BY <1>3, <1>6 DEF IInv, TypeOK, LiveInv, Live
  <2>2. HandleInv'
    BY <1>1, <1>5 DEF IInv, HandleInv
  <2>3. RunningInv'
    BY <1>1, <1>3, <1>5, <1>6 DEF IInv, RunningInv, Executing
  <2> QED BY <2>1, <2>2, <2>3
<1>11. PhaseInv' /\ CompleteInv' /\ JoinIsNotified'
  <2>1. PhaseInv'
    BY <1>3, <1>5, <1>6 DEF IInv, TypeOK, PhaseInv, Executing
  <2>2. CompleteInv'
    BY <1>1, <1>3, <1>5, <1>6 DEF IInv, TypeOK, CompleteInv, Live
  <2>3. JoinIsNotified'
    BY <1>1, <1>5 DEF IInv, JoinIsNotified
  <2> QED BY <2>1, <2>2, <2>3
<1>12. ClosedInv' /\ SlotInv' /\ NoCrash'
  <2>1. SlotInv'
    BY <1>1, <1>3, <1>6 DEF IInv, TypeOK, SlotInv, Live
  <2> QED BY <1>1, <1>3, <1>4, <1>6, <2>1 DEF IInv, ClosedInv, NoCrash, Borrowed
<1> QED BY <1>7, <1>8, <1>9, <1>10, <1>11, <1>12 DEF IInv

(* The result of a poll is stored. *)
LEMMA PollReadyInv == ASSUME IInv, NEW r \in {"ok", "panic"}, PollReady(r) PROVE IInv'
<1> DEFINE t == ctl.task
<1>1. /\ t \in Tasks /\ ctl = [at |-> "poll", task |-> t]
      /\ ctl' = [at |-> "dropping", task |-> t]
      /\ cell' = [cell EXCEPT ![t] = r]
      /\ UNCHANGED <<flags, refcount, slot, owner, wakers, registered, closed,
                     runqueue, releasing, crashed>>
  BY DEF PollReady, Runtime, Goto, taskset, IInv, TypeOK
<1>2. refcount[t] > 0 /\ Live(t)
  BY <1>1, Referenced DEF Running, InPoll
<1> HIDE DEF t
<1>3. TypeOK'
  BY <1>1 DEF IInv, TypeOK, Cell, Outcome, At, Running, InPoll
<1>4. RefcountExact'
  <2> SUFFICES ASSUME NEW x \in Tasks PROVE (refcount[x] = Refs(x))'
    BY DEF RefcountExact
  <2>1. DirectRefs(x)' = DirectRefs(x)
    BY <1>1, QueuedSame DEF DirectRefs, One, Running, InPoll
  <2>9. UNCHANGED slot /\ refcount'[x] = refcount[x]
    BY <1>1
  <2> QED BY <2>1, <2>9, CountFacts, WaitingSame DEF Refs
<1>5. LiveInv' /\ CompleteInv' /\ PhaseInv'
  BY <1>1, <1>2 DEF IInv, TypeOK, LiveInv, Live, CompleteInv, PhaseInv, Executing, Queued
<1>6. /\ QueuedOnce' /\ NotifiedIsQueued' /\ HandleInv' /\ RunningInv'
      /\ ClosedInv' /\ NoCrash' /\ JoinIsNotified'
  BY <1>1 DEF IInv, QueuedOnce, NotifiedIsQueued, Queued, HandleInv, RunningInv,
     ClosedInv, NoCrash, JoinIsNotified, Executing, Borrowed
<1>7. SlotInv'
  BY <1>1, <1>2 DEF IInv, TypeOK, SlotInv, Live
<1> QED BY <1>3, <1>4, <1>5, <1>6, <1>7 DEF IInv

(* complete_poll: the poll's waker is released, and what was notified      *)
(* meanwhile is put back.                                                  *)
LEMMA PollPendingInv == ASSUME IInv, PollPending PROVE IInv'
<1> DEFINE t == ctl.task
<1>1. /\ t \in Tasks /\ ctl = [at |-> "poll", task |-> t] /\ releasing = None
      /\ UNCHANGED <<refcount, slot, owner, wakers, registered, closed, runqueue>>
  BY DEF PollPending, Runtime, taskset, IInv, TypeOK
<1>2. refcount[t] > 0 /\ Live(t)
  BY <1>1, Referenced DEF Running, InPoll
<1>3. /\ "RUNNING" \in flags[t] /\ "COMPLETE" \notin flags[t] /\ ~Queued(t)
  BY <1>1 DEF IInv, RunningInv, PhaseInv, Executing, QueuedOnce
<1>4. crashed' = "no"
  BY <1>2, <1>3 DEF PollPending, Asserts, CompletePollOk
<1>5. /\ flags' \in [Tasks -> SUBSET Flag]
      /\ \A x \in Tasks : x # t => flags'[x] = flags[x]
      /\ flags'[t] = IF "CANCELLED" \in flags[t] THEN flags[t]
                     ELSE flags[t] \ {"RUNNING"}
  BY <1>1 DEF PollPending, CompletePoll, IInv, TypeOK
<1>6. \/ /\ "CANCELLED" \in flags[t] /\ cell' = [cell EXCEPT ![t] = "cancelled"]
         /\ ctl' = [at |-> "dropping", task |-> t] /\ releasing' = None
      \/ /\ "CANCELLED" \notin flags[t] /\ releasing' = t /\ UNCHANGED cell
         /\ \/ "NOTIFIED" \in flags[t] /\ ctl' = [at |-> "resched", task |-> t]
            \/ "NOTIFIED" \notin flags[t] /\ ctl' = [at |-> "done", task |-> t]
  BY <1>1 DEF PollPending, Goto
<1> HIDE DEF t
<1>7. TypeOK'
  <2>1. cell' \in [Tasks -> Cell] /\ releasing' \in Tasks \cup {None}
    BY <1>1, <1>6 DEF IInv, TypeOK, Cell, Outcome
  <2>2. /\ ctl' \in [at : At, task : Tasks \cup {None}]
        /\ (ctl.task = None <=> ctl.at \in {"root", "shutdown", "drain"})'
    BY <1>1, <1>6 DEF At, Running, InPoll
  <2> QED BY <1>1, <1>4, <1>5, <2>1, <2>2 DEF IInv, TypeOK
<1>8. RefcountExact'
  <2> SUFFICES ASSUME NEW x \in Tasks PROVE (refcount[x] = Refs(x))'
    BY DEF RefcountExact
  <2>1. DirectRefs(x)' = DirectRefs(x)
    <3>1. wakers[x] \in Int
      BY CountFacts
    <3> QED BY <1>1, <1>6, <3>1, QueuedSame DEF DirectRefs, One, Running, InPoll
  <2>9. UNCHANGED slot /\ refcount'[x] = refcount[x]
    BY <1>1
  <2> QED BY <2>1, <2>9, CountFacts, WaitingSame DEF Refs
<1>9. LiveInv' /\ CompleteInv' /\ PhaseInv'
  <2>1. LiveInv'
    BY <1>1, <1>2, <1>6 DEF IInv, TypeOK, LiveInv, Live
  <2>2. CompleteInv'
    BY <1>1, <1>2, <1>5, <1>6 DEF IInv, TypeOK, CompleteInv, Live
  <2>3. PhaseInv'
    BY <1>1, <1>3, <1>5, <1>6, QueuedSame DEF IInv, TypeOK, PhaseInv, Executing
  <2> QED BY <2>1, <2>2, <2>3
<1>10. QueuedOnce' /\ NotifiedIsQueued' /\ HandleInv' /\ RunningInv'
  <2>1. QueuedOnce' /\ NotifiedIsQueued'
    BY <1>1, <1>3, <1>5, <1>6 DEF IInv, QueuedOnce, NotifiedIsQueued, Queued
  <2>2. HandleInv' /\ RunningInv'
    BY <1>1, <1>3, <1>5, <1>6 DEF IInv, HandleInv, RunningInv, Executing
  <2> QED BY <2>1, <2>2
<1>11. ClosedInv' /\ SlotInv' /\ NoCrash' /\ JoinIsNotified'
  <2>1. SlotInv'
    BY <1>1, <1>2, <1>6 DEF IInv, TypeOK, SlotInv, Live
  <2>2. JoinIsNotified'
    BY <1>1, <1>5 DEF IInv, JoinIsNotified
  <2> QED BY <1>1, <1>4, <1>6, <2>1, <2>2 DEF IInv, ClosedInv, NoCrash, Borrowed
<1> QED BY <1>7, <1>8, <1>9, <1>10, <1>11 DEF IInv

(* What a destructor's poll or shutdown still holds is released. *)
LEMMA EndDestructorInv == ASSUME IInv, EndDestructor PROVE IInv'
<1> DEFINE t == ctl.task
<1>1. /\ t \in Tasks /\ releasing = None
      /\ UNCHANGED <<flags, refcount, cell, slot, owner, wakers, registered, closed,
                     runqueue, crashed>>
  BY DEF EndDestructor, UserCode, Destructor, taskset, IInv, TypeOK
<1>2. \/ /\ ctl = [at |-> "dropping", task |-> t] /\ releasing' = t
         /\ ctl' = [at |-> "complete", task |-> t]
      \/ /\ ctl = [at |-> "cancelled", task |-> t] /\ releasing' = None
         /\ ctl' = [at |-> "complete", task |-> t]
      \/ /\ ctl = [at |-> "teardown", task |-> t] /\ releasing' = t
         /\ ctl' = [at |-> "shutdown", task |-> None]
  BY DEF EndDestructor, Goto, Destructor, IInv, TypeOK
<1> HIDE DEF t
<1>3. TypeOK'
  <2>1. /\ ctl' \in [at : At, task : Tasks \cup {None}]
        /\ (ctl.task = None <=> ctl.at \in {"root", "shutdown", "drain"})'
    BY <1>1, <1>2 DEF At, Running, InPoll, Borrowed
  <2> QED BY <1>1, <1>2, <2>1 DEF IInv, TypeOK
<1>4. RefcountExact'
  <2> SUFFICES ASSUME NEW x \in Tasks PROVE (refcount[x] = Refs(x))'
    BY DEF RefcountExact
  <2>1. DirectRefs(x)' = DirectRefs(x)
    <3>1. wakers[x] \in Int /\ x # None
      BY CountFacts
    <3> QED BY <1>1, <1>2, <3>1, QueuedSame DEF DirectRefs, One, Running, InPoll
  <2>9. UNCHANGED slot /\ refcount'[x] = refcount[x]
    BY <1>1
  <2> QED BY <2>1, <2>9, CountFacts, WaitingSame DEF Refs
<1>5. /\ LiveInv' /\ HandleInv' /\ CompleteInv' /\ SlotInv' /\ NoCrash'
      /\ JoinIsNotified' /\ QueuedOnce' /\ NotifiedIsQueued'
  BY <1>1, <1>2 DEF IInv, LiveInv, Live, HandleInv, CompleteInv, SlotInv, NoCrash,
     JoinIsNotified, QueuedOnce, NotifiedIsQueued, Queued
<1>6. RunningInv'
  BY <1>1, <1>2 DEF IInv, RunningInv, Executing
<1>7. PhaseInv'
  BY <1>1, <1>2 DEF IInv, PhaseInv, Executing
<1>8. ClosedInv'
  BY <1>1, <1>2 DEF IInv, ClosedInv, Borrowed
<1> QED BY <1>3, <1>4, <1>5, <1>6, <1>7, <1>8 DEF IInv

(* A task that is put back is not queued yet. *)
LEMMA RescheduleInv == ASSUME IInv, Reschedule PROVE IInv'
<1> DEFINE t == ctl.task
<1>1. /\ t \in Tasks /\ ctl = [at |-> "resched", task |-> t]
      /\ ctl' = [at |-> "done", task |-> t]
      /\ refcount' = [refcount EXCEPT ![t] = @ + 1]
      /\ runqueue' = Append(runqueue, t)
      /\ UNCHANGED <<flags, cell, slot, owner, wakers, registered, closed,
                     releasing, crashed>>
  BY DEF Reschedule, Runtime, Submit, Goto, taskset, IInv, TypeOK
<1>2. /\ "NOTIFIED" \in flags[t] /\ "RUNNING" \notin flags[t] /\ ~Queued(t)
      /\ ~closed
  BY <1>1 DEF IInv, PhaseInv, RunningInv, Executing, ClosedInv, Borrowed
<1>3. refcount[t] > 0 /\ Live(t)
  BY <1>1, Referenced DEF Running
<1> HIDE DEF t
<1>4. /\ runqueue' \in Seq(Tasks)
      /\ (\A i, j \in DOMAIN runqueue : runqueue[i] = runqueue[j] => i = j)'
      /\ \A x \in Tasks : Queued(x)' <=> Queued(x) \/ x = t
  BY <1>1, <1>2, PushQueue DEF IInv, TypeOK, QueuedOnce
<1>5. TypeOK'
  <2>1. refcount' \in [Tasks -> Nat]
    BY <1>1 DEF IInv, TypeOK
  <2> QED BY <1>1, <1>4, <2>1 DEF IInv, TypeOK, At, Running
<1>6. RefcountExact'
  <2> SUFFICES ASSUME NEW x \in Tasks PROVE (refcount[x] = Refs(x))'
    BY DEF RefcountExact
  <2>1. DirectRefs(x)' = DirectRefs(x) + One(x = t)
    <3>1. wakers[x] \in Int
      BY CountFacts
    <3> QED BY <1>1, <1>2, <1>4, <3>1 DEF DirectRefs, One, Running, InPoll
  <2>2. refcount'[x] = refcount[x] + One(x = t)
    BY <1>1, CountFacts, CountTypes DEF One
  <2>9. UNCHANGED slot
    BY <1>1
  <2>10. One(x = t) \in Int
    BY DEF One
  <2> QED BY <2>1, <2>2, <2>9, <2>10, RefsMove
<1>7. LiveInv'
  BY <1>1, <1>3 DEF IInv, TypeOK, LiveInv, Live
<1>8. QueuedOnce' /\ NotifiedIsQueued'
  BY <1>1, <1>2, <1>4 DEF IInv, QueuedOnce, NotifiedIsQueued
<1>9. /\ HandleInv' /\ RunningInv' /\ PhaseInv' /\ CompleteInv' /\ ClosedInv'
      /\ SlotInv' /\ NoCrash' /\ JoinIsNotified'
  BY <1>1, <1>2 DEF IInv, HandleInv, RunningInv, PhaseInv, CompleteInv, Live, ClosedInv,
     SlotInv, NoCrash, JoinIsNotified, Executing, Borrowed
<1> QED BY <1>5, <1>6, <1>7, <1>8, <1>9 DEF IInv

(* The task set's reference is released. *)
LEMMA UnbindInv == ASSUME IInv, Unbind PROVE IInv'
<1> DEFINE t == ctl.task
<1>1. /\ t \in Tasks /\ ctl = [at |-> "unbind", task |-> t] /\ releasing = None
      /\ ctl' = [at |-> "done", task |-> t]
      /\ registered' = registered \ {t}
      /\ releasing' = IF t \in registered THEN t ELSE None
      /\ UNCHANGED <<flags, refcount, cell, slot, owner, wakers, closed,
                     runqueue, crashed>>
  BY DEF Unbind, Runtime, Goto, IInv, TypeOK
<1>2. "COMPLETE" \in flags[t] /\ ~closed
  BY <1>1 DEF IInv, PhaseInv, ClosedInv, Borrowed
<1> HIDE DEF t
<1>3. TypeOK'
  BY <1>1 DEF IInv, TypeOK, At, Running
<1>4. RefcountExact'
  <2> SUFFICES ASSUME NEW x \in Tasks PROVE (refcount[x] = Refs(x))'
    BY DEF RefcountExact
  <2>1. DirectRefs(x)' = DirectRefs(x)
    <3>1. wakers[x] \in Int /\ x # None
      BY CountFacts
    <3> QED BY <1>1, <3>1, QueuedSame DEF DirectRefs, One, Running, InPoll
  <2>9. UNCHANGED slot /\ refcount'[x] = refcount[x]
    BY <1>1
  <2> QED BY <2>1, <2>9, CountFacts, WaitingSame DEF Refs
<1>5. /\ LiveInv' /\ HandleInv' /\ SlotInv' /\ NoCrash'
      /\ JoinIsNotified' /\ QueuedOnce' /\ NotifiedIsQueued'
  BY <1>1 DEF IInv, LiveInv, Live, HandleInv, SlotInv, NoCrash,
     JoinIsNotified, QueuedOnce, NotifiedIsQueued, Queued
<1>6. RunningInv' /\ PhaseInv' /\ CompleteInv' /\ ClosedInv'
  BY <1>1, <1>2 DEF IInv, RunningInv, PhaseInv, CompleteInv, Live, ClosedInv, Executing,
     Borrowed
<1> QED BY <1>3, <1>4, <1>5, <1>6 DEF IInv

(* The Runnable's reference is released. *)
LEMMA EndRunInv == ASSUME IInv, EndRun PROVE IInv'
<1> DEFINE t == ctl.task
<1>1. /\ t \in Tasks /\ ctl = [at |-> "done", task |-> t] /\ releasing = None
      /\ ctl' = [at |-> "root", task |-> None] /\ releasing' = t
      /\ UNCHANGED <<flags, refcount, cell, slot, owner, wakers, registered, closed,
                     runqueue, crashed>>
  BY DEF EndRun, Runtime, Goto, taskset, IInv, TypeOK
<1> HIDE DEF t
<1>2. TypeOK'
  BY <1>1 DEF IInv, TypeOK, At
<1>3. RefcountExact'
  <2> SUFFICES ASSUME NEW x \in Tasks PROVE (refcount[x] = Refs(x))'
    BY DEF RefcountExact
  <2>1. DirectRefs(x)' = DirectRefs(x)
    <3>1. wakers[x] \in Int /\ x # None
      BY CountFacts
    <3> QED BY <1>1, <3>1, QueuedSame DEF DirectRefs, One, Running, InPoll
  <2>9. UNCHANGED slot /\ refcount'[x] = refcount[x]
    BY <1>1
  <2> QED BY <2>1, <2>9, CountFacts, WaitingSame DEF Refs
<1>4. /\ LiveInv' /\ HandleInv' /\ SlotInv' /\ NoCrash'
      /\ JoinIsNotified' /\ QueuedOnce' /\ NotifiedIsQueued'
  BY <1>1 DEF IInv, LiveInv, Live, HandleInv, SlotInv, NoCrash,
     JoinIsNotified, QueuedOnce, NotifiedIsQueued, Queued
<1>5. RunningInv' /\ PhaseInv' /\ CompleteInv' /\ ClosedInv'
  BY <1>1 DEF IInv, RunningInv, PhaseInv, CompleteInv, Live, ClosedInv, Executing,
     Borrowed
<1> QED BY <1>2, <1>3, <1>4, <1>5 DEF IInv

(* From the start of shutdown the set is closed. *)
LEMMA BeginShutdownInv == ASSUME IInv, BeginShutdown PROVE IInv'
<1>1. /\ ctl = [at |-> "root", task |-> None] /\ closed' = TRUE
      /\ ctl' = [at |-> "shutdown", task |-> None]
      /\ UNCHANGED <<flags, refcount, cell, slot, owner, wakers, registered,
                     runqueue, releasing, crashed>>
  BY DEF BeginShutdown, Runtime, Goto, IInv, TypeOK
<1>2. TypeOK'
  BY <1>1 DEF IInv, TypeOK, At, Borrowed
<1>3. RefcountExact'
  <2> SUFFICES ASSUME NEW x \in Tasks PROVE (refcount[x] = Refs(x))'
    BY DEF RefcountExact
  <2>1. DirectRefs(x)' = DirectRefs(x)
    <3>1. wakers[x] \in Int /\ x # None
      BY CountFacts
    <3> QED BY <1>1, <3>1, QueuedSame DEF DirectRefs, One
  <2>9. UNCHANGED slot /\ refcount'[x] = refcount[x]
    BY <1>1
  <2> QED BY <2>1, <2>9, CountFacts, WaitingSame DEF Refs
<1>4. /\ LiveInv' /\ HandleInv' /\ SlotInv' /\ NoCrash'
      /\ JoinIsNotified' /\ QueuedOnce' /\ NotifiedIsQueued'
  BY <1>1 DEF IInv, LiveInv, Live, HandleInv, SlotInv, NoCrash,
     JoinIsNotified, QueuedOnce, NotifiedIsQueued, Queued
<1>5. RunningInv' /\ PhaseInv' /\ CompleteInv' /\ ClosedInv'
  BY <1>1 DEF IInv, RunningInv, PhaseInv, CompleteInv, Live, ClosedInv, Executing,
     Borrowed
<1> QED BY <1>2, <1>3, <1>4, <1>5 DEF IInv

(* A task that shutdown pops is not running, and is complete from then on. *)
LEMMA ShutdownTaskInv == ASSUME IInv, NEW t \in Tasks, ShutdownTask(t) PROVE IInv'
<1>1. /\ ctl = [at |-> "shutdown", task |-> None] /\ t \in registered
      /\ registered' = registered \ {t}
      /\ ctl' = [at |-> "teardown", task |-> t]
      /\ cell' = IF "COMPLETE" \in flags[t] THEN cell
                 ELSE [cell EXCEPT ![t] = "cancelled"]
      /\ UNCHANGED <<refcount, slot, owner, wakers, closed, runqueue, releasing>>
  BY DEF ShutdownTask, Runtime, Goto, IInv, TypeOK
<1>2. refcount[t] > 0 /\ Live(t) /\ "RUNNING" \notin flags[t] /\ closed
  BY <1>1, Referenced DEF IInv, RunningInv, Executing, ClosedInv, Borrowed
<1>3. crashed' = "no"
  BY <1>2 DEF ShutdownTask, Asserts, ShutdownOk
<1>4. /\ flags' \in [Tasks -> SUBSET Flag]
      /\ \A x \in Tasks : x # t => flags'[x] = flags[x]
      /\ flags'[t] = flags[t] \cup {"CANCELLED", "COMPLETE"}
  BY DEF ShutdownTask, Shutdown, Flag, IInv, TypeOK
<1>5. TypeOK'
  <2>1. cell' \in [Tasks -> Cell]
    BY <1>1 DEF IInv, TypeOK, Cell, Outcome
  <2> QED BY <1>1, <1>3, <1>4, <2>1 DEF IInv, TypeOK, At, Borrowed
<1>6. RefcountExact'
  <2> SUFFICES ASSUME NEW x \in Tasks PROVE (refcount[x] = Refs(x))'
    BY DEF RefcountExact
  <2>1. DirectRefs(x)' = DirectRefs(x)
    <3>1. wakers[x] \in Int /\ x # None
      BY CountFacts
    <3> QED BY <1>1, <3>1, QueuedSame DEF DirectRefs, One, Running, InPoll
  <2>9. UNCHANGED slot /\ refcount'[x] = refcount[x]
    BY <1>1
  <2> QED BY <2>1, <2>9, CountFacts, WaitingSame DEF Refs
<1>7. LiveInv'
  BY <1>1, <1>2 DEF IInv, TypeOK, LiveInv, Live
<1>8. QueuedOnce' /\ NotifiedIsQueued' /\ HandleInv' /\ JoinIsNotified'
  BY <1>1, <1>2, <1>4 DEF IInv, QueuedOnce, NotifiedIsQueued, Queued, HandleInv,
     JoinIsNotified
<1>9. RunningInv' /\ PhaseInv' /\ ClosedInv'
  BY <1>1, <1>2, <1>4 DEF IInv, RunningInv, PhaseInv, ClosedInv, Executing, Borrowed
<1>10. CompleteInv' /\ SlotInv' /\ NoCrash'
  BY <1>1, <1>3, <1>4 DEF IInv, TypeOK, CompleteInv, Live, SlotInv, NoCrash
<1> QED BY <1>5, <1>6, <1>7, <1>8, <1>9, <1>10 DEF IInv

(* The loop of shutdown ends with no registered task. *)
LEMMA EndTaskSetShutdownInv == ASSUME IInv, EndTaskSetShutdown PROVE IInv'
<1>1. /\ ctl = [at |-> "shutdown", task |-> None] /\ registered = {}
      /\ ctl' = [at |-> "drain", task |-> None]
      /\ UNCHANGED <<flags, refcount, cell, slot, owner, wakers, registered, closed,
                     runqueue, releasing, crashed>>
  BY DEF EndTaskSetShutdown, Runtime, Goto, taskset, IInv, TypeOK
<1>2. TypeOK'
  BY <1>1 DEF IInv, TypeOK, At
<1>3. RefcountExact'
  <2> SUFFICES ASSUME NEW x \in Tasks PROVE (refcount[x] = Refs(x))'
    BY DEF RefcountExact
  <2>1. DirectRefs(x)' = DirectRefs(x)
    <3>1. wakers[x] \in Int /\ x # None
      BY CountFacts
    <3> QED BY <1>1, <3>1, QueuedSame DEF DirectRefs, One
  <2>9. UNCHANGED slot /\ refcount'[x] = refcount[x]
    BY <1>1
  <2> QED BY <2>1, <2>9, CountFacts, WaitingSame DEF Refs
<1>4. /\ LiveInv' /\ HandleInv' /\ SlotInv' /\ NoCrash'
      /\ JoinIsNotified' /\ QueuedOnce' /\ NotifiedIsQueued'
  BY <1>1 DEF IInv, LiveInv, Live, HandleInv, SlotInv, NoCrash,
     JoinIsNotified, QueuedOnce, NotifiedIsQueued, Queued
<1>5. RunningInv' /\ PhaseInv' /\ CompleteInv' /\ ClosedInv'
  BY <1>1 DEF IInv, RunningInv, PhaseInv, CompleteInv, Live, ClosedInv, Executing,
     Borrowed
<1> QED BY <1>2, <1>3, <1>4, <1>5 DEF IInv

(* A Runnable dropped from the queue was that of a complete task. *)
LEMMA DrainQueueInv == ASSUME IInv, DrainQueue PROVE IInv'
<1>1. /\ ctl = [at |-> "drain", task |-> None] /\ releasing = None
      /\ UNCHANGED <<flags, refcount, cell, slot, owner, wakers, registered, closed,
                     crashed>>
  BY DEF DrainQueue, Runtime, taskset, IInv, TypeOK
<1>2. closed /\ registered = {}
  BY <1>1 DEF IInv, ClosedInv
<1>3. CASE runqueue = <<>>
  <2>1. ctl' = [at |-> "root", task |-> None] /\ UNCHANGED <<runqueue, releasing>>
    BY <1>3 DEF DrainQueue, Goto
  <2>2. TypeOK'
    BY <1>1, <2>1 DEF IInv, TypeOK, At
  <2>3. RefcountExact'
    <3> SUFFICES ASSUME NEW x \in Tasks PROVE (refcount[x] = Refs(x))'
      BY DEF RefcountExact
    <3>1. DirectRefs(x)' = DirectRefs(x)
      <4>1. wakers[x] \in Int /\ x # None
        BY CountFacts
      <4> QED BY <1>1, <2>1, <4>1, QueuedSame DEF DirectRefs, One
    <3>9. UNCHANGED slot /\ refcount'[x] = refcount[x]
      BY <1>1
    <3> QED BY <3>1, <3>9, CountFacts, WaitingSame DEF Refs
  <2>4. /\ LiveInv' /\ HandleInv' /\ SlotInv' /\ NoCrash'
        /\ JoinIsNotified' /\ QueuedOnce' /\ NotifiedIsQueued'
    BY <1>1, <2>1 DEF IInv, LiveInv, Live, HandleInv, SlotInv, NoCrash,
       JoinIsNotified, QueuedOnce, NotifiedIsQueued, Queued
  <2>5. RunningInv' /\ PhaseInv' /\ CompleteInv' /\ ClosedInv'
    BY <1>1, <1>2, <1>3, <2>1 DEF IInv, RunningInv, PhaseInv, CompleteInv, Live,
       ClosedInv, Executing, Borrowed
  <2> QED BY <2>2, <2>3, <2>4, <2>5 DEF IInv
<1>4. CASE runqueue # <<>>
  <2>1. /\ releasing' = Head(runqueue) /\ runqueue' = Tail(runqueue)
        /\ UNCHANGED ctl
    BY <1>4 DEF DrainQueue
  <2>2. PICK t \in Tasks :
          /\ releasing' = t /\ Queued(t) /\ runqueue' \in Seq(Tasks)
          /\ (\A i, j \in DOMAIN runqueue : runqueue[i] = runqueue[j] => i = j)'
          /\ \A x \in Tasks : Queued(x)' <=> Queued(x) /\ x # t
    BY <1>4, <2>1, PopQueue DEF IInv, TypeOK, QueuedOnce
  <2>3. TypeOK'
    BY <1>1, <2>1, <2>2 DEF IInv, TypeOK
  <2>4. RefcountExact'
    <3> SUFFICES ASSUME NEW x \in Tasks PROVE (refcount[x] = Refs(x))'
      BY DEF RefcountExact
    <3>1. DirectRefs(x)' = DirectRefs(x)
      <4>1. wakers[x] \in Int /\ x # None
        BY CountFacts
      <4> QED BY <1>1, <2>1, <2>2, <4>1 DEF DirectRefs, One
    <3>9. UNCHANGED slot /\ refcount'[x] = refcount[x]
      BY <1>1
    <3> QED BY <3>1, <3>9, CountFacts, WaitingSame DEF Refs
  <2>5. NotifiedIsQueued' /\ CompleteInv'
    <3>1. \A x \in Tasks : Queued(x) => "COMPLETE" \in flags[x]
      BY <1>2, Referenced DEF IInv, CompleteInv
    <3> QED BY <1>1, <2>1, <2>2, <3>1 DEF IInv, NotifiedIsQueued, CompleteInv, Live
  <2>6. /\ LiveInv' /\ HandleInv' /\ SlotInv' /\ NoCrash' /\ JoinIsNotified'
        /\ QueuedOnce'
    BY <1>1, <2>1, <2>2 DEF IInv, LiveInv, Live, HandleInv, SlotInv, NoCrash,
       JoinIsNotified, QueuedOnce
  <2>7. RunningInv' /\ PhaseInv' /\ ClosedInv'
    BY <1>1, <1>2, <2>1 DEF IInv, RunningInv, PhaseInv, ClosedInv, Executing, Borrowed
  <2> QED BY <2>3, <2>4, <2>5, <2>6, <2>7 DEF IInv
<1> QED BY <1>3, <1>4

(* complete_task: the joiner's waker is taken from the header, woken and   *)
(* released.                                                               *)
LEMMA CompleteTaskCellInv == ASSUME IInv, CompleteTaskCell PROVE IInv'
<1> DEFINE t == ctl.task
           w == slot[t]
<1>1. /\ t \in Tasks /\ ctl = [at |-> "complete", task |-> t] /\ releasing = None
      /\ ctl' = [at |-> "unbind", task |-> t]
      /\ UNCHANGED <<owner, wakers, registered, closed>>
  BY DEF CompleteTaskCell, Runtime, Goto, taskset, IInv, TypeOK
<1>2. /\ refcount[t] > 0 /\ Live(t) /\ ~closed
      /\ "RUNNING" \in flags[t] /\ "COMPLETE" \notin flags[t] /\ ~Queued(t)
      /\ cell[t] # "future" /\ w # t
  BY <1>1, Referenced DEF Running, IInv, RunningInv, PhaseInv, QueuedOnce, Executing,
     ClosedInv, Borrowed, SlotInv
<1>3. CompleteTaskOk(flags[t], refcount[t])
  BY <1>2 DEF CompleteTaskOk
<1>4. CompleteTask(flags[t]) = (flags[t] \cup {"COMPLETE"}) \ {"RUNNING"}
  BY DEF CompleteTask
<1>5. CASE w \in Tasks /\ "JOIN_HANDLE" \in flags[t]
  <2>1. refcount[w] > 0 /\ Live(w)
    BY <1>1, <1>5, Referenced
  <2>2. /\ slot' = [slot EXCEPT ![t] = None] /\ UNCHANGED cell /\ releasing' = w
        /\ flags' = [flags EXCEPT ![t] = CompleteTask(@), ![w] = Notify(@)]
        /\ crashed' = "no"
    BY <1>3, <1>5, <2>1 DEF CompleteTaskCell, Asserts
  <2> HIDE DEF t, w
  <2>3. /\ flags' \in [Tasks -> SUBSET Flag]
        /\ \A x \in Tasks : x # t /\ x # w => flags'[x] = flags[x]
        /\ flags'[t] = (flags[t] \cup {"COMPLETE"}) \ {"RUNNING"}
        /\ flags'[w] = IF "COMPLETE" \in flags[w] THEN flags[w]
                       ELSE flags[w] \cup {"NOTIFIED"}
    <3>1. CompleteTask(flags[t]) \in SUBSET Flag /\ Notify(flags[w]) \in SUBSET Flag
      BY <1>1, <1>4, <1>5 DEF Notify, Flag, IInv, TypeOK
    <3>2. /\ flags' \in [Tasks -> SUBSET Flag]
          /\ flags'[t] = CompleteTask(flags[t]) /\ flags'[w] = Notify(flags[w])
          /\ \A x \in Tasks : x # t /\ x # w => flags'[x] = flags[x]
      BY <1>1, <1>2, <1>5, <2>2, <3>1 DEF IInv, TypeOK
    <3> QED BY <1>4, <3>2 DEF Notify
  <2>4. /\ runqueue' \in Seq(Tasks) /\ refcount' \in [Tasks -> Nat]
        /\ \A x \in Tasks : /\ refcount'[x] = refcount[x] + One(Queued(x)') - One(Queued(x))
                            /\ refcount'[x] > 0 <=> refcount[x] > 0
        /\ QueuedOnce' /\ NotifiedIsQueued'
    <3>1. CASE NotifySubmits(flags[w])
      <4>1. /\ ~Queued(w) /\ "RUNNING" \notin flags[w] /\ "COMPLETE" \notin flags[w]
            /\ refcount' = [refcount EXCEPT ![w] = @ + 1]
            /\ runqueue' = Append(runqueue, w)
        <5>1. Submit(w)
          BY <1>5, <3>1 DEF CompleteTaskCell, t, w
        <5> QED BY <1>5, <3>1, <5>1 DEF NotifySubmits, Submit, IInv, QueuedOnce
      <4>2. /\ runqueue' \in Seq(Tasks)
            /\ (\A i, j \in DOMAIN runqueue : runqueue[i] = runqueue[j] => i = j)'
            /\ \A x \in Tasks : Queued(x)' <=> Queued(x) \/ x = w
        BY <1>5, <4>1, PushQueue DEF IInv, TypeOK, QueuedOnce
      <4>3. refcount' \in [Tasks -> Nat]
        <5>1. PICK v \in Tasks : v = w
          BY <1>5
        <5>2. refcount' = [refcount EXCEPT ![v] = @ + 1] /\ refcount \in [Tasks -> Nat]
          BY <4>1, <5>1 DEF IInv, TypeOK
        <5> QED BY <5>2
      <4>4. \A x \in Tasks :
              /\ refcount'[x] = refcount[x] + One(Queued(x)') - One(Queued(x))
              /\ refcount'[x] > 0 <=> refcount[x] > 0
        BY <2>1, <4>1, <4>2 DEF One, IInv, TypeOK
      <4>5. QueuedOnce'
        BY <1>1, <1>2, <2>3, <4>1, <4>2 DEF IInv, QueuedOnce
      <4>6. NotifiedIsQueued'
        BY <1>1, <1>2, <2>3, <4>2 DEF IInv, NotifiedIsQueued
      <4> QED BY <4>2, <4>3, <4>4, <4>5, <4>6
    <3>2. CASE ~NotifySubmits(flags[w])
      <4>1. UNCHANGED <<refcount, runqueue>>
        BY <1>5, <3>2 DEF CompleteTaskCell, t, w
      <4>2. runqueue' \in Seq(Tasks) /\ refcount' \in [Tasks -> Nat]
        BY <4>1 DEF IInv, TypeOK
      <4>3. \A x \in Tasks :
              /\ refcount'[x] = refcount[x] + One(Queued(x)') - One(Queued(x))
              /\ refcount'[x] > 0 <=> refcount[x] > 0
        BY <4>1, QueuedSame DEF One, IInv, TypeOK
      <4>4. QueuedOnce'
        BY <1>1, <1>2, <2>3, <4>1, QueuedSame DEF IInv, QueuedOnce
      <4>5. NotifiedIsQueued'
        BY <1>1, <1>2, <1>5, <2>3, <3>2, <4>1, QueuedSame
           DEF IInv, NotifiedIsQueued, NotifySubmits
      <4> QED BY <4>2, <4>3, <4>4, <4>5
    <3> QED BY <3>1, <3>2
  <2>5. TypeOK'
    <3>1. slot' \in [Tasks -> Tasks \cup {Root, None}]
      BY <2>2 DEF IInv, TypeOK
    <3> QED BY <1>1, <1>5, <2>2, <2>3, <2>4, <3>1 DEF IInv, TypeOK, At, Running
  <2>6. RefcountExact'
    <3> SUFFICES ASSUME NEW x \in Tasks PROVE (refcount[x] = Refs(x))'
      BY DEF RefcountExact
    <3>1. Cardinality(Waiting(x))' = Cardinality(Waiting(x)) - One(x = w)
      <4>1. /\ slot \in [Tasks -> Tasks \cup {Root, None}]
            /\ \A u \in Tasks : u # t => slot'[u] = slot[u]
            /\ slot'[t] = None /\ x # None
        BY <1>1, <2>2 DEF IInv, TypeOK
      <4>2. Cardinality(Waiting(x))' =
              Cardinality(Waiting(x)) + One(x = slot'[t]) - One(x = slot[t])
        BY <1>1, <4>1, WaitingChange
      <4> QED BY <4>1, <4>2, CountFacts DEF One, w
    <3>2. DirectRefs(x)' = DirectRefs(x) + One(Queued(x)') - One(Queued(x)) + One(x = w)
      <4>1. wakers[x] \in Int /\ x # None
        BY CountFacts
      <4> QED BY <1>1, <1>5, <2>2, <4>1 DEF DirectRefs, One, Running, InPoll
    <3>3. refcount'[x] = refcount[x] + One(Queued(x)') - One(Queued(x))
      BY <2>4
    <3> QED BY <3>1, <3>2, <3>3, CountFacts DEF Refs, One
  <2>7. LiveInv' /\ SlotInv' /\ JoinIsNotified'
    BY <1>1, <1>2, <2>2, <2>3, <2>4 DEF IInv, TypeOK, LiveInv, Live, SlotInv, JoinIsNotified
  <2>8. HandleInv' /\ RunningInv' /\ NoCrash' /\ ClosedInv'
    BY <1>1, <1>2, <1>5, <2>2, <2>3 DEF IInv, HandleInv, RunningInv, NoCrash, ClosedInv,
       Executing, Borrowed
  <2>9. PhaseInv' /\ CompleteInv'
    BY <1>1, <1>2, <1>5, <2>2, <2>3 DEF IInv, PhaseInv, CompleteInv, Live, Executing
  <2> QED BY <2>4, <2>5, <2>6, <2>7, <2>8, <2>9 DEF IInv
<1>6. CASE ~(w \in Tasks /\ "JOIN_HANDLE" \in flags[t])
  <2>1. /\ UNCHANGED <<releasing, refcount, runqueue>> /\ crashed' = "no"
        /\ flags' = [flags EXCEPT ![t] = CompleteTask(@)]
        /\ \/ /\ "JOIN_HANDLE" \in flags[t] /\ slot' = [slot EXCEPT ![t] = None]
              /\ UNCHANGED cell
           \/ /\ "JOIN_HANDLE" \notin flags[t] /\ UNCHANGED slot
              /\ cell' = [cell EXCEPT ![t] = "empty"]
    BY <1>3, <1>6 DEF CompleteTaskCell, Asserts
  <2>2. slot[t] \in Tasks => UNCHANGED slot
    BY <1>6, <2>1
  <2> HIDE DEF t, w
  <2>3. /\ flags' \in [Tasks -> SUBSET Flag]
        /\ \A x \in Tasks : x # t => flags'[x] = flags[x]
        /\ flags'[t] = (flags[t] \cup {"COMPLETE"}) \ {"RUNNING"}
    <3>1. CompleteTask(flags[t]) \in SUBSET Flag
      BY <1>1, <1>4 DEF Flag, IInv, TypeOK
    <3> QED BY <1>1, <1>4, <2>1, <3>1 DEF IInv, TypeOK
  <2>4. TypeOK'
    <3>1. slot' \in [Tasks -> Tasks \cup {Root, None}]
      BY <2>1 DEF IInv, TypeOK
    <3>2. cell' \in [Tasks -> Cell]
      BY <2>1 DEF IInv, TypeOK, Cell
    <3> QED BY <1>1, <2>1, <2>3, <3>1, <3>2 DEF IInv, TypeOK, At, Running
  <2>5. RefcountExact'
    <3> SUFFICES ASSUME NEW x \in Tasks PROVE (refcount[x] = Refs(x))'
      BY DEF RefcountExact
    <3>1. Cardinality(Waiting(x))' = Cardinality(Waiting(x))
      <4>1. Waiting(x)' = Waiting(x)
        BY <1>1, <2>1, <2>2 DEF Waiting, IInv, TypeOK
      <4> QED BY <4>1
    <3>2. DirectRefs(x)' = DirectRefs(x)
      <4>1. wakers[x] \in Int
        BY CountFacts
      <4> QED BY <1>1, <2>1, <4>1, QueuedSame DEF DirectRefs, One, Running, InPoll
    <3> QED BY <2>1, <3>1, <3>2, CountFacts DEF Refs
  <2>6. LiveInv' /\ SlotInv' /\ JoinIsNotified'
    <3>1. LiveInv'
      BY <1>2, <2>1 DEF IInv, TypeOK, LiveInv, Live
    <3>2. SlotInv'
      BY <1>2, <2>1 DEF IInv, TypeOK, SlotInv, Live
    <3>3. JoinIsNotified'
      BY <1>1, <2>1, <2>3 DEF IInv, TypeOK, HandleInv, JoinIsNotified
    <3> QED BY <3>1, <3>2, <3>3
  <2>7. HandleInv' /\ RunningInv' /\ NoCrash' /\ ClosedInv'
    BY <1>1, <1>2, <2>1, <2>3 DEF IInv, HandleInv, RunningInv, NoCrash, ClosedInv,
       Executing, Borrowed
  <2>8. PhaseInv' /\ CompleteInv'
    BY <1>1, <1>2, <2>1, <2>3 DEF IInv, TypeOK, PhaseInv, CompleteInv, Live, Executing
  <2>9. QueuedOnce' /\ NotifiedIsQueued'
    BY <1>1, <1>2, <2>1, <2>3 DEF IInv, QueuedOnce, NotifiedIsQueued, Queued
  <2> QED BY <2>4, <2>5, <2>6, <2>7, <2>8, <2>9 DEF IInv
<1> QED BY <1>5, <1>6

-----------------------------------------------------------------------------
(* The inductive invariant.                                                *)

(* The initial state satisfies it. *)
LEMMA InitInv == ASSUME Init PROVE IInv
<1>1. TypeOK
  <2>1. runqueue \in Seq(Tasks) /\ wakers \in [Tasks -> 0..MaxWakers]
    BY EmptySeq DEF Init
  <2>2. ctl \in [at : At, task : Tasks \cup {None}]
        /\ (ctl.task = None <=> ctl.at \in {"root", "shutdown", "drain"})
    BY DEF Init, At
  <2>3. /\ flags \in [Tasks -> SUBSET Flag] /\ refcount \in [Tasks -> Nat]
        /\ cell \in [Tasks -> Cell]
    BY DEF Init, Cell
  <2> QED BY <2>1, <2>2, <2>3 DEF Init, TypeOK
<1>2. RefcountExact
  <2> SUFFICES ASSUME NEW x \in Tasks PROVE refcount[x] = Refs(x)
    BY DEF RefcountExact
  <2>1. DirectRefs(x) = 0
    <3>1. ~Queued(x)
      BY DEF Init, Queued
    <3>2. /\ x \notin registered /\ owner[x] = None /\ wakers[x] = 0
          /\ ctl.task = None /\ releasing = None /\ x # None
      BY DEF Init
    <3> QED BY <3>1, <3>2 DEF DirectRefs, One
  <2>2. Waiting(x) = {}
    BY DEF Init, Waiting
  <2>3. refcount[x] = 0
    BY DEF Init
  <2> QED BY <2>1, <2>2, <2>3, FS_EmptySet DEF Refs
<1>3. /\ LiveInv /\ HandleInv /\ RunningInv /\ CompleteInv /\ SlotInv /\ NoCrash
      /\ JoinIsNotified
  BY DEF Init, LiveInv, Live, HandleInv, RunningInv, CompleteInv, SlotInv, NoCrash,
     JoinIsNotified
<1>4. PhaseInv /\ ClosedInv /\ QueuedOnce /\ NotifiedIsQueued
  BY DEF Init, PhaseInv, ClosedInv, QueuedOnce, NotifiedIsQueued, Queued, Executing,
     Borrowed
<1> QED BY <1>1, <1>2, <1>3, <1>4 DEF IInv

(* Every step of the specification preserves it. *)
LEMMA NextInv == ASSUME IInv, [Next]_vars PROVE IInv'
<1>1. CASE UserStep
  <2>1. ASSUME NEW t \in Tasks,
               \/ Spawn(t) \/ CloneWaker(t) \/ WakeByRef(t) \/ WakeByVal(t)
               \/ DropWaker(t) \/ AbortTask(t) \/ PollHandle(t) \/ DropHandle(t)
        PROVE  IInv'
    BY <2>1, SpawnInv, CloneWakerInv, WakeByRefInv, WakeByValInv, DropWakerInv,
       AbortTaskInv, PollHandleInv, DropHandleInv
  <2>2. ASSUME NEW h \in Tasks, NEW u \in Tasks \cup {Root}, GiveHandle(h, u)
        PROVE  IInv'
    BY <2>2, GiveHandleInv
  <2> QED BY <1>1, <2>1, <2>2, SpawnWhileBorrowedInv DEF UserStep
<1>2. CASE Release
  BY <1>2, ReleaseInv
<1>3. CASE Run
  BY <1>3, RunInv
<1>4. CASE \E r \in {"ok", "panic"} : PollReady(r)
  BY <1>4, PollReadyInv
<1>5. CASE PollPending
  BY <1>5, PollPendingInv
<1>6. CASE EndDestructor
  BY <1>6, EndDestructorInv
<1>7. CASE Reschedule
  BY <1>7, RescheduleInv
<1>8. CASE CompleteTaskCell
  BY <1>8, CompleteTaskCellInv
<1>9. CASE Unbind \/ EndRun
  BY <1>9, UnbindInv, EndRunInv
<1>10. CASE BeginShutdown \/ (\E t \in Tasks : ShutdownTask(t))
  BY <1>10, BeginShutdownInv, ShutdownTaskInv
<1>11. CASE EndTaskSetShutdown \/ DrainQueue
  BY <1>11, EndTaskSetShutdownInv, DrainQueueInv
<1>12. CASE UNCHANGED vars
  <2>1. TypeOK'
    BY <1>12 DEF vars, taskset, thread, IInv, TypeOK
  <2>2. RefcountExact'
    BY <1>12, CountFacts, WaitingSame, QueuedSame DEF vars, RefcountExact, Refs,
       DirectRefs, One
  <2>3. /\ LiveInv' /\ HandleInv' /\ RunningInv' /\ PhaseInv' /\ CompleteInv'
        /\ ClosedInv' /\ SlotInv' /\ NoCrash'
        /\ QueuedOnce' /\ NotifiedIsQueued' /\ JoinIsNotified'
    BY <1>12 DEF vars, IInv, LiveInv, Live, HandleInv, RunningInv, PhaseInv, Queued,
       CompleteInv, ClosedInv, SlotInv, NoCrash, QueuedOnce, NotifiedIsQueued,
       JoinIsNotified
  <2> QED BY <2>1, <2>2, <2>3 DEF IInv
<1> QED BY <1>1, <1>2, <1>3, <1>4, <1>5, <1>6, <1>7, <1>8, <1>9, <1>10, <1>11, <1>12
        DEF Next

(* IInv holds in every reachable state of the task system. *)
THEOREM Inductive == Spec => []IInv
<1>1. Init => IInv
  BY InitInv
<1>2. IInv /\ [Next]_vars => IInv'
  BY NextInv
<1> QED BY <1>1, <1>2, PTL DEF Spec

(* The manual reference counting is exact: on every path of every          *)
(* re-entrant call a task's count is the number of references to it.       *)
THEOREM CountingIsExact == Spec => []RefcountExact
<1>1. IInv => RefcountExact
  BY DEF IInv
<1> QED BY <1>1, Inductive, PTL

(* No task is used after it was freed, and none stays allocated that       *)
(* nothing refers to.                                                      *)
THEOREM MemorySafe == Spec => []LiveIffReferenced
<1>1. IInv => LiveIffReferenced
  BY DEF IInv, LiveIffReferenced, RefcountExact, LiveInv
<1> QED BY <1>1, Inductive, PTL

(* A task is queued at most once, and whatever is queued may be run. *)
THEOREM QueueIsSound == Spec => []QueuedOnce
<1>1. IInv => QueuedOnce
  BY DEF IInv
<1> QED BY <1>1, Inductive, PTL

(* No wakeup is lost: the NOTIFIED flag is never set on a task that        *)
(* nothing will poll.                                                      *)
THEOREM NoLostWakeup == Spec => []NotifiedIsQueued
<1>1. IInv => NotifiedIsQueued
  BY DEF IInv
<1> QED BY <1>1, Inductive, PTL

(* No assert! of state.rs fails and no RefCell of the task set is borrowed *)
(* twice, unless a destructor spawns while TaskSet::shutdown runs it; and  *)
(* every variable has its type: no reference count goes below zero.        *)
THEOREM NeverAborts == Spec => []Inv
<1>1. IInv => Inv
  BY DEF IInv, Inv
<1> QED BY <1>1, Inductive, PTL

(* TaskSet::shutdown reaches every future that was not dropped yet. *)
THEOREM EveryFutureIsRegistered == Spec => []FutureIsRegistered
<1>1. IInv => FutureIsRegistered
  BY DEF IInv, CompleteInv, FutureIsRegistered, Live
<1> QED BY <1>1, Inductive, PTL

(* The waiter of a task that completes is taken from its header and woken, *)
(* except after shutdown.                                                  *)
THEOREM JoinersAreWoken == Spec => []JoinIsNotified
<1>1. IInv => JoinIsNotified
  BY DEF IInv
<1> QED BY <1>1, Inductive, PTL

(* After TaskQueue::shutdown nothing is left to run, and nothing that the  *)
(* application still holds can bring anything back.                        *)
THEOREM ShutdownLasts == Spec => []ShutdownIsFinal
<1>1. IInv => ShutdownIsFinal
  BY DEF IInv, ClosedInv, CompleteInv, ShutdownIsFinal, Live
<1> QED BY <1>1, Inductive, PTL

(* What stays allocated after shutdown, once the application let go of     *)
(* everything, is waited for by something that stays allocated.            *)
THEOREM OnlyCyclesLeak == Spec => []LeaksAreCycles
<1>1. IInv => LeaksAreCycles
  <2> SUFFICES ASSUME IInv, closed, ctl.at = "root", releasing = None,
                      \A t \in Tasks : owner[t] = None /\ wakers[t] = 0,
                      NEW t \in Tasks, Live(t)
               PROVE  \E u \in Tasks : Live(u) /\ slot[u] = t
    BY DEF LeaksAreCycles
  <2>1. DirectRefs(t) = 0
    <3>1. t \notin registered /\ ~Queued(t) /\ ctl.task = None /\ t # None
      BY DEF IInv, TypeOK, ClosedInv, Queued
    <3> QED BY <3>1 DEF DirectRefs, One
  <2>2. Cardinality(Waiting(t)) > 0
    BY <2>1, CountFacts DEF IInv, LiveInv
  <2>3. PICK u \in Tasks : slot[u] = t
    BY <2>2, FS_EmptySet DEF Waiting
  <2>4. Live(u)
    BY <2>3 DEF IInv, SlotInv, TypeOK
  <2> QED BY <2>3, <2>4
<1> QED BY <1>1, Inductive, PTL

-----------------------------------------------------------------------------
(* The task system implements JoinPromise, in safety: every step is one of *)
(* the promise's or changes nothing of it.                                 *)

(* What this needs beside IInv.  A task without a future has a result that *)
(* is being made known, or is complete; only one that is about to unbind   *)
(* is both complete and registered; and one that was not spawned has no    *)
(* flags.                                                                  *)
ResultInv ==
  \A t \in Tasks :
    /\ Live(t) /\ "COMPLETE" \notin flags[t] /\ cell[t] # "future" =>
         ctl.task = t /\ ctl.at \in Executing \ {"poll"} /\ cell[t] # "empty"
    /\ t \in registered /\ "COMPLETE" \in flags[t] => ctl.at = "unbind" /\ ctl.task = t
    /\ cell[t] = "unborn" => flags[t] = {}

Simulates == ResultInv' /\ [Promise!PNext]_(Promise!pvars)

(* A step that neither touches a cell nor completes or cancels a task. *)
LEMMA Silent ==
  ASSUME cell' = cell, closed' = closed,
         \A t \in Tasks : /\ "COMPLETE" \in flags'[t] <=> "COMPLETE" \in flags[t]
                          /\ "CANCELLED" \in flags'[t] <=> "CANCELLED" \in flags[t]
  PROVE  UNCHANGED Promise!pvars
<1>1. Results' = Results
  BY DEF Results
<1>2. Completed' = Completed /\ Cancelled' = Cancelled
  BY DEF Completed, Cancelled
<1> QED BY <1>1, <1>2 DEF Promise!pvars

(* What becomes of the result of one task. *)
LEMMA Moved ==
  ASSUME IInv, NEW t \in Tasks, NEW c, cell' = [cell EXCEPT ![t] = c]
  PROVE  Results' = [Results EXCEPT ![t] = ResultOf(c)]
<1> DEFINE R(u) == ResultOf(cell[u])
<1>1. \A u \in Tasks : R(u)' = IF u = t THEN ResultOf(c) ELSE R(u)
  BY DEF IInv, TypeOK
<1>2. Results = [u \in Tasks |-> R(u)] /\ Results' = [u \in Tasks |-> R(u)']
  BY DEF Results
<1> HIDE DEF R
<1> QED BY <1>1, <1>2

LEMMA WakeByRefSimulates ==
  ASSUME IInv, ResultInv, NEW t \in Tasks,
         WakeByRef(t) \/ WakeByVal(t) \/ CloneWaker(t) \/ DropWaker(t)
  PROVE  Simulates
<1>1. /\ UNCHANGED <<cell, closed, registered, ctl>>
      /\ flags' = flags \/ flags' = [flags EXCEPT ![t] = Notify(@)]
  BY DEF WakeByRef, WakeByVal, CloneWaker, DropWaker, Wake, taskset, thread
<1>2. cell[t] # "unborn"
  <2>1. HasWaker(t)
    BY Zenon DEF WakeByRef, WakeByVal, CloneWaker, DropWaker, HasWaker
  <2> QED BY <2>1, Referenced DEF HasWaker, Live, Running, InPoll
<1>3. \A u \in Tasks :
        /\ "COMPLETE" \in flags'[u] <=> "COMPLETE" \in flags[u]
        /\ "CANCELLED" \in flags'[u] <=> "CANCELLED" \in flags[u]
        /\ u # t => flags'[u] = flags[u]
  <2>1. CASE flags' = flags
    BY <2>1
  <2>2. CASE flags' = [flags EXCEPT ![t] = Notify(@)]
    <3>1. flags'[t] = Notify(flags[t]) /\ \A u \in Tasks : u # t => flags'[u] = flags[u]
      BY <2>2 DEF IInv, TypeOK
    <3> QED BY <3>1 DEF Notify
  <2> QED BY <1>1, <2>1, <2>2
<1> QED BY <1>1, <1>2, <1>3, Silent DEF Simulates, ResultInv, Live

(* Steps that only move the thread, and the registration of the task.      *)
LEMMA QuietSimulates ==
  ASSUME IInv, ResultInv,
         EndDestructor \/ Reschedule \/ Unbind \/ EndRun \/ EndTaskSetShutdown \/ DrainQueue
  PROVE  Simulates
<1>1. UNCHANGED <<cell, closed, flags>>
  BY DEF EndDestructor, Reschedule, Unbind, EndRun, EndTaskSetShutdown, DrainQueue,
     taskset, Submit
<1>2. UNCHANGED Promise!pvars
  BY <1>1, Silent
<1>3. ASSUME NEW t \in Tasks,
             Live(t), "COMPLETE" \notin flags[t], cell[t] # "future"
      PROVE  ctl'.task = t /\ ctl'.at \in Executing \ {"poll"}
  <2>1. ctl.task = t /\ ctl.at \in Executing \ {"poll"}
    BY <1>3 DEF ResultInv
  <2>2. CASE EndDestructor
    BY <2>1, <2>2 DEF EndDestructor, Goto, Destructor, Executing
  <2>3. CASE Reschedule \/ Unbind \/ EndRun \/ EndTaskSetShutdown \/ DrainQueue
    BY <2>1, <2>3 DEF Reschedule, Unbind, EndRun, EndTaskSetShutdown, DrainQueue,
       Runtime, Executing
  <2> QED BY <2>2, <2>3
<1>4. ASSUME NEW t \in Tasks, t \in registered', "COMPLETE" \in flags[t]
      PROVE  ctl'.at = "unbind" /\ ctl'.task = t
  <2>1. t \in registered
    BY <1>4 DEF EndDestructor, Reschedule, Unbind, EndRun, EndTaskSetShutdown, DrainQueue,
       taskset
  <2>2. ctl.at = "unbind" /\ ctl.task = t
    BY <1>4, <2>1 DEF ResultInv
  <2> QED BY <1>4, <2>2 DEF EndDestructor, Reschedule, Unbind, EndRun, EndTaskSetShutdown,
          DrainQueue, Runtime, UserCode, Destructor
<1> QED BY <1>1, <1>2, <1>3, <1>4 DEF Simulates, ResultInv, Live

(* The memory that Release gives back belongs to a complete task.          *)
LEMMA ReleaseSimulates == ASSUME IInv, ResultInv, Release PROVE Simulates
<1> DEFINE t == releasing
<1>1. t \in Tasks /\ UNCHANGED <<flags, closed, registered, ctl>>
  BY DEF Release, IInv, TypeOK, taskset
<1>2. CASE refcount[t] # 1
  <2>1. cell' = cell
    BY <1>2 DEF Release
  <2> QED BY <1>1, <2>1, Silent DEF Simulates, ResultInv, Live
<1>3. CASE refcount[t] = 1
  <2>1. cell' = [cell EXCEPT ![t] = "freed"]
    BY <1>3 DEF Release, Dealloc
  <2>2. Live(t)
    BY <1>1, Referenced
  <2>3. t \notin registered
    <3>1. DirectRefs(t) <= 1
      BY <1>1, <1>3, CountFacts
    <3> QED BY <1>1, <3>1, CountFacts DEF DirectRefs, One
  <2>4. "COMPLETE" \in flags[t] /\ cell[t] # "future"
    BY <1>1, <2>2, <2>3 DEF IInv, CompleteInv
  <2>5. Results' = [Results EXCEPT ![t] = "gone"]
    BY <1>1, <2>1, Moved DEF ResultOf
  <2>6. Completed' = Completed /\ Cancelled' = Cancelled /\ t \in Completed
    BY <1>1, <2>4 DEF Completed, Cancelled
  <2>7. Results[t] = "gone" \/ Results[t] \in Promise!Result
    BY <1>1, <2>2, <2>4 DEF Results, ResultOf, Promise!Result, Live, IInv, TypeOK, Cell, Outcome
  <2>8. [Promise!PNext]_(Promise!pvars)
    <3>1. CASE Results[t] = "gone"
      <4>1. Results' = Results
        BY <2>5, <3>1 DEF Results
      <4> QED BY <1>1, <2>6, <4>1 DEF Promise!pvars
    <3>2. CASE Results[t] \in Promise!Result
      <4>1. Promise!Consume(t)
        BY <1>1, <2>5, <2>6, <3>2 DEF Promise!Consume
      <4> QED BY <1>1, <4>1 DEF Promise!PNext
    <3> QED BY <2>7, <3>1, <3>2
  <2>9. ResultInv'
    <3>1. \A u \in Tasks : cell'[u] = IF u = t THEN "freed" ELSE cell[u]
      BY <1>1, <2>1 DEF IInv, TypeOK
    <3> QED BY <1>1, <3>1 DEF ResultInv, Live
  <2> QED BY <2>8, <2>9 DEF Simulates
<1> QED BY <1>2, <1>3

LEMMA SpawnSimulates == ASSUME IInv, ResultInv, NEW t \in Tasks, Spawn(t) PROVE Simulates
<1>1. /\ cell[t] = "unborn" /\ flags[t] = {} /\ t \notin registered
      /\ ~(ctl.task = t /\ ctl.at \in Running \cup {"teardown"})
      /\ UNCHANGED <<closed, ctl>>
  BY UnbornFacts DEF Spawn, ResultInv
<1>2. Results[t] = "unborn" /\ t \notin Completed /\ t \notin Cancelled
  BY <1>1 DEF Results, ResultOf, Completed, Cancelled
<1>3. CASE closed
  <2>1. /\ flags' = [flags EXCEPT ![t] = Shutdown(NewFlags)]
        /\ cell' = [cell EXCEPT ![t] = "cancelled"] /\ registered' = registered
    BY <1>3 DEF Spawn
  <2>2. \A u \in Tasks : /\ flags'[u] = IF u = t THEN Shutdown(NewFlags) ELSE flags[u]
                         /\ cell'[u] = IF u = t THEN "cancelled" ELSE cell[u]
    BY <2>1 DEF IInv, TypeOK
  <2>3. Results' = [Results EXCEPT ![t] = "cancelled"]
    BY <2>1, Moved DEF ResultOf
  <2>4. Completed' = Completed \cup {t} /\ Cancelled' = Cancelled \cup {t}
    BY <2>2 DEF Completed, Cancelled, Shutdown
  <2>5. Promise!Cancel(t)
    BY <1>1, <1>2, <1>3, <2>3, <2>4 DEF Promise!Cancel
  <2>6. ResultInv'
    BY <1>1, <2>1, <2>2 DEF ResultInv, Live, Shutdown
  <2> QED BY <2>5, <2>6 DEF Simulates, Promise!PNext
<1>4. CASE ~closed
  <2>1. /\ flags' = [flags EXCEPT ![t] = NewFlags]
        /\ cell' = [cell EXCEPT ![t] = "future"] /\ registered' = registered \cup {t}
    BY <1>4 DEF Spawn
  <2>2. \A u \in Tasks : /\ flags'[u] = IF u = t THEN NewFlags ELSE flags[u]
                         /\ cell'[u] = IF u = t THEN "future" ELSE cell[u]
    BY <2>1 DEF IInv, TypeOK
  <2>3. Results' = [Results EXCEPT ![t] = "none"]
    BY <2>1, Moved DEF ResultOf
  <2>4. Completed' = Completed /\ Cancelled' = Cancelled
    BY <1>1, <2>2 DEF Completed, Cancelled, NewFlags
  <2>5. Promise!Begin(t)
    BY <1>1, <1>2, <1>4, <2>3, <2>4 DEF Promise!Begin
  <2>6. ResultInv'
    BY <1>1, <2>1, <2>2 DEF ResultInv, Live, NewFlags
  <2> QED BY <2>5, <2>6 DEF Simulates, Promise!PNext
<1> QED BY <1>3, <1>4

LEMMA AbortTaskSimulates ==
  ASSUME IInv, ResultInv, NEW h \in Tasks, AbortTask(h) PROVE Simulates
<1>1. /\ UNCHANGED <<cell, closed, registered, ctl>> /\ owner[h] # None
      /\ flags' = [flags EXCEPT ![h] = Abort(@)]
  BY ActorLives DEF AbortTask, Owned, taskset, thread
<1>2. Live(h)
  BY <1>1, Referenced
<1>3. \A u \in Tasks : flags'[u] = IF u = h THEN Abort(flags[h]) ELSE flags[u]
  BY <1>1 DEF IInv, TypeOK
<1>4. \A u \in Tasks : "COMPLETE" \in flags'[u] <=> "COMPLETE" \in flags[u]
  BY <1>3 DEF Abort
<1>5. ResultInv'
  BY <1>1, <1>2, <1>3, <1>4 DEF ResultInv, Live
<1>6. Results' = Results /\ Completed' = Completed /\ Results[h] # "unborn"
  BY <1>1, <1>2, <1>4 DEF Results, Completed, Live, ResultOf
<1>7. CASE flags[h] \cap {"CANCELLED", "COMPLETE"} # {}
  <2>1. flags' = flags
    BY <1>1, <1>7 DEF Abort, IInv, TypeOK
  <2> QED BY <1>1, <1>5, <2>1, Silent DEF Simulates
<1>8. CASE flags[h] \cap {"CANCELLED", "COMPLETE"} = {}
  <2>1. h \notin Completed \cup Cancelled /\ Cancelled' = Cancelled \cup {h}
    BY <1>3, <1>8 DEF Completed, Cancelled, Abort
  <2>2. Promise!Ask(h)
    BY <1>1, <1>6, <2>1 DEF Promise!Ask
  <2> QED BY <1>5, <2>2 DEF Simulates, Promise!PNext
<1> QED BY <1>7, <1>8

(* The result of a task is read once.                                      *)
LEMMA PollHandleSimulates ==
  ASSUME IInv, ResultInv, NEW h \in Tasks, PollHandle(h) PROVE Simulates
<1>1. /\ UNCHANGED <<flags, closed, registered, ctl>> /\ owner[h] # None
      /\ cell[h] # "empty"
  BY ActorLives DEF PollHandle, Owned, taskset
<1>2. Live(h)
  BY <1>1, Referenced
<1>3. CASE "COMPLETE" \notin flags[h]
  <2>1. cell' = cell
    BY <1>3 DEF PollHandle
  <2> QED BY <1>1, <2>1, Silent DEF Simulates, ResultInv, Live
<1>4. CASE "COMPLETE" \in flags[h]
  <2>1. cell' = [cell EXCEPT ![h] = "empty"]
    BY <1>4 DEF PollHandle
  <2>2. \A u \in Tasks : cell'[u] = IF u = h THEN "empty" ELSE cell[u]
    BY <2>1 DEF IInv, TypeOK
  <2>3. cell[h] # "future"
    BY <1>4 DEF IInv, CompleteInv
  <2>4. Results[h] \in Promise!Result /\ h \in Completed
    BY <1>1, <1>2, <1>4, <2>3 DEF Results, ResultOf, Promise!Result, Live, IInv, TypeOK, Cell,
       Outcome, Completed
  <2>5. Results' = [Results EXCEPT ![h] = "gone"]
    BY <2>1, Moved DEF ResultOf
  <2>6. Completed' = Completed /\ Cancelled' = Cancelled
    BY <1>1 DEF Completed, Cancelled
  <2>7. Promise!Consume(h)
    BY <1>1, <2>4, <2>5, <2>6 DEF Promise!Consume
  <2>8. ResultInv'
    BY <1>1, <1>2, <1>4, <2>2 DEF ResultInv, Live
  <2> QED BY <2>7, <2>8 DEF Simulates, Promise!PNext
<1> QED BY <1>3, <1>4

LEMMA HandleSimulates ==
  ASSUME IInv, ResultInv,
         \/ \E h \in Tasks : DropHandle(h)
         \/ \E h \in Tasks, u \in Tasks \cup {Root} : GiveHandle(h, u)
         \/ SpawnWhileBorrowed
  PROVE  Simulates
<1>1. UNCHANGED <<cell, closed, registered, ctl>>
  BY DEF DropHandle, GiveHandle, SpawnWhileBorrowed, taskset, thread
<1>2. CASE UNCHANGED flags
  BY <1>1, <1>2, Silent DEF Simulates, ResultInv, Live
<1>3. ASSUME NEW h \in Tasks, DropHandle(h) PROVE Simulates
  <2>1. owner[h] # None /\ flags' = [flags EXCEPT ![h] = DropJoinHandle(@)]
    BY <1>3, ActorLives DEF DropHandle, Owned
  <2>2. \A u \in Tasks : flags'[u] = IF u = h THEN flags[h] \ {"JOIN_HANDLE"} ELSE flags[u]
    BY <2>1 DEF IInv, TypeOK, DropJoinHandle
  <2>3. ResultInv'
    BY <1>1, <2>2 DEF ResultInv, Live
  <2> QED BY <1>1, <2>2, <2>3, Silent DEF Simulates
<1> QED BY <1>2, <1>3 DEF GiveHandle, SpawnWhileBorrowed

LEMMA BeginShutdownSimulates == ASSUME IInv, ResultInv, BeginShutdown PROVE Simulates
<1>1. /\ UNCHANGED <<flags, cell, registered>> /\ ctl.at = "root"
      /\ ~closed /\ closed' = TRUE
  BY DEF BeginShutdown, Runtime
<1>2. UNCHANGED <<Results, Completed, Cancelled>>
  BY <1>1 DEF Results, Completed, Cancelled
<1>3. ASSUME NEW t \in Tasks, Results[t] \in Promise!Result PROVE t \in Completed
  <2>1. Live(t) /\ cell[t] # "future"
    BY <1>3 DEF Results, ResultOf, Promise!Result, Live
  <2> QED BY <1>1, <2>1 DEF ResultInv, Executing, Completed
<1>4. Promise!Shut
  BY <1>1, <1>2, <1>3 DEF Promise!Shut
<1>5. ResultInv'
  BY <1>1 DEF ResultInv, Live, Executing
<1> QED BY <1>4, <1>5 DEF Simulates, Promise!PNext

LEMMA ShutdownTaskSimulates ==
  ASSUME IInv, ResultInv, NEW t \in Tasks, ShutdownTask(t) PROVE Simulates
<1>1. /\ ctl.at = "shutdown" /\ t \in registered /\ closed' = closed
      /\ registered' = registered \ {t} /\ flags' = [flags EXCEPT ![t] = Shutdown(@)]
  BY DEF ShutdownTask, Runtime
<1>2. closed /\ Live(t)
  BY <1>1, Referenced DEF IInv, ClosedInv, Borrowed
<1>3. "COMPLETE" \notin flags[t] /\ cell[t] = "future"
  BY <1>1, <1>2 DEF ResultInv, Executing
<1>4. cell' = [cell EXCEPT ![t] = "cancelled"]
  BY <1>3 DEF ShutdownTask
<1>5. \A u \in Tasks : /\ flags'[u] = IF u = t THEN Shutdown(flags[t]) ELSE flags[u]
                       /\ cell'[u] = IF u = t THEN "cancelled" ELSE cell[u]
  BY <1>1, <1>4 DEF IInv, TypeOK
<1>6. Results' = [Results EXCEPT ![t] = "cancelled"]
  BY <1>4, Moved DEF ResultOf
<1>7. Results[t] = "none" /\ t \notin Completed
  BY <1>3 DEF Results, ResultOf, Completed
<1>8. Completed' = Completed \cup {t} /\ Cancelled' = Cancelled \cup {t}
  BY <1>5 DEF Completed, Cancelled, Shutdown
<1>9. Promise!Cancel(t)
  BY <1>1, <1>2, <1>6, <1>7, <1>8 DEF Promise!Cancel
<1>10. ResultInv'
  BY <1>1, <1>5 DEF ResultInv, Live, Executing, Shutdown
<1> QED BY <1>9, <1>10 DEF Simulates, Promise!PNext

(* A task that is neither complete nor executed has its future.            *)
LEMMA NotYetPolled ==
  ASSUME IInv, ResultInv, NEW t \in Tasks, Live(t), "COMPLETE" \notin flags[t],
         ctl.task # t \/ ctl.at \notin Executing \ {"poll"}
  PROVE  cell[t] = "future" /\ Results[t] = "none"
BY DEF ResultInv, Results, ResultOf

LEMMA RunSimulates == ASSUME IInv, ResultInv, Run PROVE Simulates
<1> DEFINE t == Head(runqueue)
<1>1. /\ ctl.at = "root" /\ UNCHANGED <<closed, registered>> /\ ~closed
      /\ flags' = [flags EXCEPT ![t] = PreparePoll(@)]
  BY DEF Run, Runtime, taskset, IInv, ClosedInv
<1>2. t \in Tasks /\ Queued(t)
  <2>1. runqueue \in Seq(Tasks) /\ runqueue # <<>>
    BY DEF Run, IInv, TypeOK
  <2>2. t = runqueue[1] /\ 1 \in DOMAIN runqueue /\ t \in Tasks
    BY <2>1
  <2> QED BY <2>2 DEF Queued
<1>3. Live(t)
  BY <1>2, Referenced
<1>4. \A u \in Tasks : flags'[u] = IF u = t THEN PreparePoll(flags[t]) ELSE flags[u]
  BY <1>1, <1>2 DEF IInv, TypeOK
<1>5. \A u \in Tasks : /\ "COMPLETE" \in flags'[u] <=> "COMPLETE" \in flags[u]
                       /\ "CANCELLED" \in flags'[u] <=> "CANCELLED" \in flags[u]
  BY <1>4 DEF PreparePoll
<1>6. \A u \in Tasks : Live(u) /\ "COMPLETE" \notin flags[u] => cell[u] = "future"
  BY <1>1 DEF ResultInv, Executing
<1>7. \A u \in Tasks : u \in registered => "COMPLETE" \notin flags[u]
  BY <1>1 DEF ResultInv
<1>8. CASE cell' = cell
  BY <1>1, <1>3, <1>4, <1>5, <1>6, <1>7, <1>8, Silent DEF Simulates, ResultInv, Live
<1>9. CASE cell' # cell
  <2>1. /\ "COMPLETE" \notin flags[t] /\ "CANCELLED" \in flags[t]
        /\ cell' = [cell EXCEPT ![t] = "cancelled"]
        /\ ctl' = [at |-> "cancelled", task |-> t]
    BY <1>9 DEF Run, Goto
  <2>2. \A u \in Tasks : cell'[u] = IF u = t THEN "cancelled" ELSE cell[u]
    BY <1>2, <2>1 DEF IInv, TypeOK
  <2>3. Results' = [Results EXCEPT ![t] = "cancelled"]
    BY <1>2, <2>1, Moved DEF ResultOf
  <2>4. Completed' = Completed /\ Cancelled' = Cancelled
    BY <1>5 DEF Completed, Cancelled
  <2>5. Results[t] = "none" /\ t \in Cancelled
    BY <1>2, <1>3, <1>6, <2>1 DEF Results, ResultOf, Cancelled
  <2>6. Promise!Resolve(t)
    BY <1>1, <2>3, <2>4, <2>5 DEF Promise!Resolve, Promise!Result
  <2>7. ResultInv'
    BY <1>1, <1>3, <1>4, <1>5, <1>6, <1>7, <2>1, <2>2 DEF ResultInv, Live, Executing
  <2> QED BY <1>2, <2>6, <2>7 DEF Simulates, Promise!PNext
<1> QED BY <1>8, <1>9

LEMMA PollReadySimulates ==
  ASSUME IInv, ResultInv, NEW r \in {"ok", "panic"}, PollReady(r) PROVE Simulates
<1> DEFINE t == ctl.task
<1>1. /\ ctl.at = "poll" /\ t \in Tasks /\ UNCHANGED <<flags, closed, registered>>
      /\ cell' = [cell EXCEPT ![t] = r] /\ ctl' = [at |-> "dropping", task |-> t]
  BY DEF PollReady, Runtime, Goto, taskset, IInv, TypeOK
<1>2. ~closed /\ "COMPLETE" \notin flags[t] /\ Live(t)
  BY <1>1, Referenced DEF IInv, ClosedInv, Borrowed, PhaseInv, Executing, Running, InPoll
<1>3. Results[t] = "none"
  BY <1>1, <1>2, NotYetPolled
<1>4. \A u \in Tasks : cell'[u] = IF u = t THEN r ELSE cell[u]
  BY <1>1 DEF IInv, TypeOK
<1>5. Results' = [Results EXCEPT ![t] = r] /\ Completed' = Completed /\ Cancelled' = Cancelled
  BY <1>1, Moved DEF ResultOf, Completed, Cancelled
<1>6. Promise!Resolve(t)
  BY <1>1, <1>2, <1>3, <1>5 DEF Promise!Resolve, Promise!Result
<1>7. ResultInv'
  BY <1>1, <1>2, <1>4 DEF ResultInv, Live, Executing
<1> QED BY <1>1, <1>6, <1>7 DEF Simulates, Promise!PNext

LEMMA PollPendingSimulates == ASSUME IInv, ResultInv, PollPending PROVE Simulates
<1> DEFINE t == ctl.task
<1>1. /\ ctl.at = "poll" /\ t \in Tasks /\ UNCHANGED <<closed, registered>>
      /\ flags' = [flags EXCEPT ![t] = CompletePoll(@)]
  BY DEF PollPending, Runtime, taskset, IInv, TypeOK
<1>2. ~closed /\ "COMPLETE" \notin flags[t] /\ Live(t)
  BY <1>1, Referenced DEF IInv, ClosedInv, Borrowed, PhaseInv, Executing, Running, InPoll
<1>3. cell[t] = "future" /\ Results[t] = "none"
  BY <1>1, <1>2, NotYetPolled
<1>4. \A u \in Tasks : flags'[u] = IF u = t THEN CompletePoll(flags[t]) ELSE flags[u]
  BY <1>1 DEF IInv, TypeOK
<1>5. \A u \in Tasks : /\ "COMPLETE" \in flags'[u] <=> "COMPLETE" \in flags[u]
                       /\ "CANCELLED" \in flags'[u] <=> "CANCELLED" \in flags[u]
  BY <1>4 DEF CompletePoll
<1>6. CASE "CANCELLED" \notin flags[t]
  <2>1. cell' = cell
    BY <1>6 DEF PollPending
  <2> QED BY <1>1, <1>2, <1>3, <1>4, <1>5, <2>1, Silent DEF Simulates, ResultInv, Live
<1>7. CASE "CANCELLED" \in flags[t]
  <2>1. /\ cell' = [cell EXCEPT ![t] = "cancelled"]
        /\ ctl' = [at |-> "dropping", task |-> t]
    BY <1>7 DEF PollPending, Goto
  <2>2. \A u \in Tasks : cell'[u] = IF u = t THEN "cancelled" ELSE cell[u]
    BY <1>1, <2>1 DEF IInv, TypeOK
  <2>3. Results' = [Results EXCEPT ![t] = "cancelled"]
    BY <1>1, <2>1, Moved DEF ResultOf
  <2>4. Completed' = Completed /\ Cancelled' = Cancelled /\ t \in Cancelled
    BY <1>1, <1>5, <1>7 DEF Completed, Cancelled
  <2>5. Promise!Resolve(t)
    BY <1>1, <1>2, <1>3, <2>3, <2>4 DEF Promise!Resolve, Promise!Result
  <2>6. ResultInv'
    BY <1>1, <1>2, <1>3, <1>4, <1>5, <2>1, <2>2 DEF ResultInv, Live, Executing
  <2> QED BY <1>1, <2>5, <2>6 DEF Simulates, Promise!PNext
<1> QED BY <1>6, <1>7

(* complete_task makes the result known, unless nobody may read it.        *)
LEMMA CompleteTaskCellSimulates == ASSUME IInv, ResultInv, CompleteTaskCell PROVE Simulates
<1> DEFINE t == ctl.task
           w == slot[t]
<1>1. /\ t \in Tasks /\ ctl.at = "complete" /\ ctl' = [at |-> "unbind", task |-> t]
      /\ UNCHANGED <<registered, closed>>
  BY DEF CompleteTaskCell, Runtime, Goto, taskset, IInv, TypeOK
<1>2. Live(t) /\ ~closed /\ "COMPLETE" \notin flags[t] /\ cell[t] \notin {"future", "empty"}
  BY <1>1, Referenced DEF Running, IInv, PhaseInv, Executing, ClosedInv, Borrowed, ResultInv
<1>3. Results[t] \in Promise!Result /\ t \notin Completed
  BY <1>1, <1>2 DEF Results, ResultOf, Promise!Result, Completed, IInv, TypeOK, Cell, Outcome,
     Live
<1>4. w \in Tasks => w # t /\ Live(w)
  BY <1>1, Referenced DEF IInv, SlotInv
<1>5. /\ flags'[t] = CompleteTask(flags[t])
      /\ \A u \in Tasks \ {t} : flags'[u] # flags[u] => flags'[u] = Notify(flags[u]) /\ Live(u)
  <2>1. CASE w \in Tasks /\ "JOIN_HANDLE" \in flags[t]
    <3>1. flags' = [flags EXCEPT ![t] = CompleteTask(@), ![w] = Notify(@)]
      BY <2>1 DEF CompleteTaskCell
    <3> HIDE DEF t, w
    <3>2. /\ flags'[t] = CompleteTask(flags[t]) /\ flags'[w] = Notify(flags[w])
          /\ \A u \in Tasks : u # t /\ u # w => flags'[u] = flags[u]
      BY <1>1, <1>4, <2>1, <3>1 DEF IInv, TypeOK
    <3> QED BY <1>4, <2>1, <3>2, Zenon
  <2>2. CASE ~(w \in Tasks /\ "JOIN_HANDLE" \in flags[t])
    <3>1. flags' = [flags EXCEPT ![t] = CompleteTask(@)]
      BY <2>2 DEF CompleteTaskCell
    <3> HIDE DEF t, w
    <3>2. /\ flags'[t] = CompleteTask(flags[t])
          /\ \A u \in Tasks : u # t => flags'[u] = flags[u]
      BY <1>1, <3>1 DEF IInv, TypeOK
    <3> QED BY <3>2, Zenon
  <2> QED BY <2>1, <2>2
<1>6. /\ "COMPLETE" \in flags'[t]
      /\ \A u \in Tasks : u # t => ("COMPLETE" \in flags'[u] <=> "COMPLETE" \in flags[u])
      /\ \A u \in Tasks : "CANCELLED" \in flags'[u] <=> "CANCELLED" \in flags[u]
  <2> HIDE DEF t, w
  <2>1. \A f : ("COMPLETE" \in Notify(f) <=> "COMPLETE" \in f)
             /\ ("CANCELLED" \in Notify(f) <=> "CANCELLED" \in f)
    BY DEF Notify
  <2>2. "COMPLETE" \in CompleteTask(flags[t])
        /\ ("CANCELLED" \in CompleteTask(flags[t]) <=> "CANCELLED" \in flags[t])
    BY DEF CompleteTask
  <2>3. ASSUME NEW u \in Tasks, u # t
        PROVE  /\ "COMPLETE" \in flags'[u] <=> "COMPLETE" \in flags[u]
               /\ "CANCELLED" \in flags'[u] <=> "CANCELLED" \in flags[u]
    <3>1. CASE flags'[u] = flags[u]
      BY <3>1
    <3>2. CASE flags'[u] = Notify(flags[u])
      BY <2>1, <3>2, Zenon
    <3> QED BY <1>5, <2>3, <3>1, <3>2
  <2> QED BY <1>5, <2>2, <2>3
<1>7. Completed' = Completed \cup {t} /\ Cancelled' = Cancelled
  <2> HIDE DEF t
  <2> QED BY <1>1, <1>6 DEF Completed, Cancelled
<1>8. cell' = cell \/ cell' = [cell EXCEPT ![t] = "empty"]
  BY DEF CompleteTaskCell
<1>9. Results' \in {Results, [Results EXCEPT ![t] = "gone"]}
  <2>1. CASE cell' = cell
    BY <2>1 DEF Results
  <2>2. CASE cell' = [cell EXCEPT ![t] = "empty"]
    BY <1>1, <2>2, Moved DEF ResultOf
  <2> QED BY <1>8, <2>1, <2>2
<1>10. Promise!Complete(t)
  BY <1>1, <1>2, <1>3, <1>7, <1>9 DEF Promise!Complete
<1>11. ResultInv'
  <2> HIDE DEF t, w
  <2>1. \A u \in Tasks : u # t => cell'[u] = cell[u]
    BY <1>1, <1>8 DEF IInv, TypeOK
  <2>2. \A u \in Tasks : u # t => u \notin registered \/ "COMPLETE" \notin flags[u]
    BY <1>1 DEF ResultInv
  <2>3. \A u \in Tasks : u # t /\ Live(u) /\ "COMPLETE" \notin flags[u] => cell[u] = "future"
    BY <1>1 DEF ResultInv, t
  <2>4. cell'[t] # "unborn"
    BY <1>1, <1>2, <1>8 DEF Live, IInv, TypeOK
  <2> QED BY <1>1, <1>5, <1>6, <2>1, <2>2, <2>3, <2>4 DEF ResultInv, Live
<1> QED BY <1>1, <1>10, <1>11 DEF Simulates, Promise!PNext

LEMMA NextSimulates == ASSUME IInv, ResultInv, [Next]_vars PROVE Simulates
<1>1. CASE UserStep
  BY <1>1, SpawnSimulates, WakeByRefSimulates, AbortTaskSimulates, PollHandleSimulates,
     HandleSimulates DEF UserStep
<1>2. CASE Release \/ Run \/ (\E r \in {"ok", "panic"} : PollReady(r)) \/ PollPending
  BY <1>2, ReleaseSimulates, RunSimulates, PollReadySimulates, PollPendingSimulates
<1>3. CASE EndDestructor \/ Reschedule \/ Unbind \/ EndRun \/ EndTaskSetShutdown \/ DrainQueue
  BY <1>3, QuietSimulates
<1>4. CASE CompleteTaskCell
  BY <1>4, CompleteTaskCellSimulates
<1>5. CASE BeginShutdown \/ (\E t \in Tasks : ShutdownTask(t))
  BY <1>5, BeginShutdownSimulates, ShutdownTaskSimulates
<1>6. CASE UNCHANGED vars
  BY <1>6, Silent DEF vars, taskset, thread, Simulates, ResultInv, Live
<1> QED BY <1>1, <1>2, <1>3, <1>4, <1>5, <1>6 DEF Next

(* The promise to whoever holds a join handle, in every re-entrant call    *)
(* and with any number of tasks: a task gets one result, which is final,   *)
(* is readable exactly when the task is complete, and is read or dropped   *)
(* once; it is cancelled only if that was asked for, and after shutdown    *)
(* nothing is started or gets a result but that it was cancelled.          *)
THEOREM TaskImplementsPromise == Spec => Promise!PSpec
<1>1. Init => Promise!PInit /\ ResultInv
  BY DEF Init, Promise!PInit, Results, ResultOf, Completed, Cancelled, ResultInv, Live
<1>2. IInv /\ ResultInv /\ [Next]_vars => ResultInv' /\ [Promise!PNext]_(Promise!pvars)
  BY NextSimulates DEF Simulates
<1> QED BY <1>1, <1>2, Inductive, PTL DEF Spec, Promise!PSpec

-----------------------------------------------------------------------------
(* What TLC checks as NotifiedIsPolled and ShutdownEnds, as far as it goes *)
(* without fairness.                                                       *)

(* Whoever is in the run queue stays at its place, or moves up by one when *)
(* the thread takes the first, to run it or to drop it.                    *)
Keeps(i)   == i \in DOMAIN runqueue' /\ runqueue'[i] = runqueue[i]
MovesUp(i) ==
  /\ ctl.at \in {"root", "drain"}
  /\ IF i = 1 THEN runqueue[1] = IF ctl.at = "root" THEN ctl'.task ELSE releasing'
     ELSE i - 1 \in DOMAIN runqueue' /\ runqueue'[i - 1] = runqueue[i]

TurnsAreKept == [][\A i \in DOMAIN runqueue : Keeps(i) \/ MovesUp(i)]_vars

QueueIsShort == Len(runqueue) <= Cardinality(Tasks)

(* Each turn of the loop of TaskSet::shutdown takes a task off the list,   *)
(* and no other step adds one.                                             *)
ShutdownGoesOn ==
  [][closed =>
       /\ registered' \subseteq registered
       /\ ctl.at = "shutdown" => registered' # registered \/ ctl'.at = "drain"
                                  \/ UNCHANGED ctl]_vars

LEMMA AppendKeeps ==
  ASSUME IInv, NEW t \in Tasks, runqueue' = Append(runqueue, t), NEW i \in DOMAIN runqueue
  PROVE  Keeps(i)
<1>1. runqueue \in Seq(Tasks)
  BY DEF IInv, TypeOK
<1> QED
  BY <1>1 DEF Keeps

LEMMA TailMovesUp ==
  ASSUME IInv, runqueue # <<>>, runqueue' = Tail(runqueue), ctl.at \in {"root", "drain"},
         Head(runqueue) = IF ctl.at = "root" THEN ctl'.task ELSE releasing',
         NEW i \in DOMAIN runqueue
  PROVE  MovesUp(i)
<1>1. runqueue \in Seq(Tasks)
  BY DEF IInv, TypeOK
<1>2. /\ Head(runqueue) = runqueue[1]
      /\ i # 1 => i - 1 \in DOMAIN runqueue' /\ runqueue'[i - 1] = runqueue[i]
  BY <1>1
<1> QED
  BY <1>2 DEF MovesUp

(* Runnables are run in the order in which they were queued: a task that   *)
(* is woken, aborted or puts itself back goes to the end, whoever does it, *)
(* and none is overtaken or lost.                                          *)
THEOREM TasksRunInTurn == Spec => TurnsAreKept
<1>1. ASSUME IInv, Next, NEW i \in DOMAIN runqueue PROVE Keeps(i) \/ MovesUp(i)
  <2>1. CASE UNCHANGED runqueue
    BY <2>1 DEF Keeps
  <2>2. CASE \E t \in Tasks : runqueue' = Append(runqueue, t)
    BY <1>1, <2>2, AppendKeeps
  <2>3. ctl.task \in Tasks \/ ctl.at \in {"root", "shutdown", "drain"}
    BY <1>1 DEF IInv, TypeOK
  <2>4. CASE Run
    <3>1. ctl.at = "root" /\ ctl'.task = Head(runqueue) /\ runqueue # <<>>
          /\ runqueue' = Tail(runqueue)
      BY <2>4 DEF Run, Runtime, Goto
    <3> QED
      BY <1>1, <3>1, TailMovesUp
  <2>5. CASE DrainQueue
    <3>1. CASE runqueue = <<>>
      BY <2>1, <2>5, <3>1 DEF DrainQueue
    <3>2. CASE runqueue # <<>>
      BY <1>1, <2>5, <3>2, TailMovesUp DEF DrainQueue, Runtime
    <3> QED
      BY <3>1, <3>2
  <2>6. CASE UserStep
    BY <2>1, <2>2, <2>6 DEF UserStep, Spawn, SpawnWhileBorrowed, CloneWaker, WakeByRef, WakeByVal,
       Wake, Submit, DropWaker, AbortTask, PollHandle, DropHandle, GiveHandle
  <2>7. CASE Reschedule
    BY <2>2, <2>3, <2>7 DEF Reschedule, Runtime, Submit
  <2>8. CASE CompleteTaskCell
    BY <2>1, <2>2, <2>8 DEF CompleteTaskCell, Submit
  <2> QED
    BY <1>1, <2>1, <2>4, <2>5, <2>6, <2>7, <2>8 DEF Next, Release, PollReady, PollPending,
       EndDestructor, Unbind, EndRun, BeginShutdown, ShutdownTask, EndTaskSetShutdown
<1>2. IInv /\ [Next]_vars => [\A i \in DOMAIN runqueue : Keeps(i) \/ MovesUp(i)]_vars
  BY <1>1
<1> QED
  BY <1>2, Inductive, PTL DEF Spec, TurnsAreKept

(* The queue is never longer than there are tasks, so a Runnable waits for *)
(* no more turns than that.                                                *)
THEOREM QueueHasRoomForAll == Spec => []QueueIsShort
<1>1. ASSUME IInv PROVE QueueIsShort
  <2>1. /\ runqueue \in Seq(Tasks)
        /\ \A i, j \in DOMAIN runqueue : runqueue[i] = runqueue[j] => i = j
    BY <1>1 DEF IInv, TypeOK, QueuedOnce
  <2>2. Len(runqueue) \in Int /\ Len(runqueue) \in Nat /\ 1 \in Int
    BY <2>1
  <2>3. runqueue \in Injection(1..Len(runqueue), Tasks)
    BY <2>1 DEF Injection, IsInjective
  <2>4. Cardinality(1..Len(runqueue)) <= Cardinality(Tasks)
    BY <2>3, TaskAssumption, FS_Injection
  <2>5. Cardinality(1..Len(runqueue)) = IF 1 > Len(runqueue) THEN 0 ELSE Len(runqueue) - 1 + 1
    BY <2>2, FS_Interval
  <2> QED
    BY <2>2, <2>4, <2>5 DEF QueueIsShort
<1> QED
  BY <1>1, Inductive, PTL

(* The shutdown of the task set moves on: it begins once, nothing joins    *)
(* the list, and each turn of its loop takes a task off it or ends it.     *)
THEOREM ShutdownDescends == Spec => ShutdownGoesOn
<1>1. ASSUME IInv, Next, closed
      PROVE  /\ registered' \subseteq registered
             /\ ctl.at = "shutdown" =>
                  registered' # registered \/ ctl'.at = "drain" \/ UNCHANGED ctl
  <2>1. CASE \E t \in Tasks : ShutdownTask(t)
    BY <2>1 DEF ShutdownTask
  <2>2. CASE EndTaskSetShutdown
    BY <2>2 DEF EndTaskSetShutdown, Goto, taskset
  <2>3. CASE UserStep
    BY <1>1, <2>3 DEF UserStep, Spawn, SpawnWhileBorrowed, CloneWaker, WakeByRef, WakeByVal,
       DropWaker, AbortTask, PollHandle, DropHandle, GiveHandle, taskset, thread
  <2>4. CASE Release
    BY <2>4 DEF Release, taskset
  <2>5. CASE \/ Run \/ (\E r \in {"ok", "panic"} : PollReady(r)) \/ PollPending \/ EndDestructor
             \/ Reschedule \/ CompleteTaskCell \/ Unbind \/ EndRun \/ DrainQueue
    BY <2>5 DEF Run, PollReady, PollPending, EndDestructor, Reschedule, CompleteTaskCell, Unbind,
       EndRun, DrainQueue, Runtime, taskset, Destructor
  <2>6. CASE BeginShutdown
    BY <1>1, <2>6 DEF BeginShutdown
  <2> QED
    BY <1>1, <2>1, <2>2, <2>3, <2>4, <2>5, <2>6 DEF Next
<1>2. IInv /\ [Next]_vars =>
        [closed => /\ registered' \subseteq registered
                   /\ ctl.at = "shutdown" => registered' # registered \/ ctl'.at = "drain"
                                              \/ UNCHANGED ctl]_vars
  BY <1>1
<1> QED
  BY <1>2, Inductive, PTL DEF Spec, ShutdownGoesOn
=============================================================================
