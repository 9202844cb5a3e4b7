-------------------------- MODULE OperationsProofs --------------------------
(***************************************************************************)
(* The invariants of Operations, for every set of operations, every size   *)
(* of the submission queue and any number of completions.                  *)
(*                                                                         *)
(* The reference that an operation's entry has goes from the future to the *)
(* submission queue, to the kernel, and to the completion queue: it is in  *)
(* one of these places, once.  What an operation's memory says is about    *)
(* that place (Good), so a step of the future keeps the one and a step of  *)
(* the queues the other.  What is left are the waiters: whom they are told *)
(* by, and how much room they are told of.                                 *)
(***************************************************************************)
EXTENDS Operations, FiniteSetTheorems, FunctionTheorems, SequenceTheorems, TLAPS

Queues(o) == \E i \in DOMAIN sq : sq[i] = OpEntry(o)

(* A completion that announces more, and the last one.                     *)
More(o) == Result(o, TRUE)
End(o)  == Result(o, FALSE)

Ends(o)  == \E i \in DOMAIN cq : cq[i] = End(o)
Final(o) == {i \in DOMAIN cq : cq[i] = End(o)}

(* Where the entry of an operation is. *)
Place(o) ==
  IF Queues(o) THEN "sq" ELSE IF o \in armed THEN "kernel" ELSE IF Ends(o) THEN "cq" ELSE "none"

Count(o) == Cardinality(Reported(o))

(* The entry is in one place, once, and the last completion comes last.    *)
OnePlace ==
  \A o \in Ops :
    /\ Queues(o) => o \notin armed /\ ~Ends(o)
    /\ o \in armed => ~Ends(o)
    /\ Reported(o) # {} => o \in armed \/ Ends(o)

QueuedOnce ==
  \A o \in Ops : \A i, j \in DOMAIN sq : sq[i] = OpEntry(o) /\ sq[j] = OpEntry(o) => i = j

LastIsLast == \A o \in Ops : \A i \in Final(o), j \in Reported(o) : j <= i

Rings ==
  /\ sq \in Seq(Entry) /\ Len(sq) <= SqSize /\ cq \in Seq(Completion) /\ armed \subseteq Ops
  /\ OnePlace /\ QueuedOnce /\ LastIsLast

(* A future that is not a stream has all its results, the last one last.   *)
Ordered(r) ==
  /\ r.complete => r.completions # <<>>
  /\ \A i \in DOMAIN r.completions :
       r.completions[i] <=> ~(r.complete /\ i = Len(r.completions))

(* What the memory r of an operation o says whose entry is in a place p,   *)
(* with n results in the completion queue: the references are those of the *)
(* future and of the entry, no result is lost, the data are there for      *)
(* those who need them, and who has something to find is woken.            *)
Good(o, r, p, n) ==
  /\ r \in Operation
  /\ r.refcount = One(r.stage \notin {"none", "dropped"})
                    + One(r.stage = "unsubmitted" \/ p # "none")
  /\ r.held = n + Len(r.completions)
  /\ n > 0 => p \in {"kernel", "cq"}
  /\ r.stage = "unsubmitted" => p = "none" /\ r.completions = <<>>
  /\ r.wait # "none" => r.stage = "unsubmitted"
  /\ r.stage \in {"unsubmitted", "submitted"} \/ p # "none" => r.data
  /\ r.complete => r.stage \in {"submitted", "completed"} /\ p = "none"
  /\ r.stage = "completed" => r.complete /\ r.completions = <<>>
  /\ r.stage = "submitted" /\ o \notin Multi => Ordered(r)
  /\ r.stage = "submitted" => r.woken \/ r.waker
  /\ r.stage = "unsubmitted" /\ r.wait # "Linked" => r.woken
  /\ r.stage = "submitted" /\ r.complete => r.woken
  /\ r.stage = "submitted" /\ o \in Multi /\ r.completions # <<>> => r.woken

Local == op \in [Ops -> Operation] /\ \A o \in Ops : Good(o, op[o], Place(o), Count(o))

(* The list has those that wait, once. *)
Lists(f) == \A o \in Ops : f[o].wait = "Linked" <=> \E i \in DOMAIN waiters : waiters[i] = o

ListedOnce == \A i, j \in DOMAIN waiters : waiters[i] = waiters[j] => i = j

Waits == waiters \in Seq(Ops) /\ Lists(op) /\ ListedOnce

(* A cancellation that will reach an operation is for that operation.      *)
Aimed == \A o \in Hit : op[o].stage = "dropped"

(* The room that a sleep makes is offered when it ends.                    *)
Offered ==
  /\ waiters # <<>> /\ status = "running" /\ at \notin {"failed", "crashed"} =>
       Cardinality(Fired) + entered + Len(sq) >= SqSize
  /\ IF at = "asleep" THEN sq = <<>> ELSE entered = 0

Thread ==
  /\ cancelled \subseteq armed /\ unsent \subseteq Ops /\ drain \in BOOLEAN
  /\ status \in {"running", "draining", "shutdown"} /\ at \in At
  /\ sleep \in BOOLEAN /\ entered \in 0..SqSize

Core == Rings /\ Local /\ Waits /\ Aimed
OInv == Core /\ Thread /\ NoCrash /\ Offered

-----------------------------------------------------------------------------
(* The memory of an operation.                                             *)

(* Whom a notification concerns is woken. *)
Told(r)     == [r EXCEPT !.wait = "Fired", !.woken = TRUE]
Alike(r, s) == s = r \/ (r.wait = "Linked" /\ s = Told(r))

(* What the kernel did when it posted a completion. *)
Posted(r) == {[r EXCEPT !.held = @ + 1], [r EXCEPT !.updates = @ + 1, !.held = @ + 1]}

(* A future that waits for room, and that found it. *)
Waiter(r) == [r EXCEPT !.wait = "Linked", !.woken = FALSE]
Pushed(r) == [r EXCEPT !.wait = "none", !.woken = FALSE, !.stage = "submitted", !.waker = TRUE]

(* A future that has all its results, and a stream that had them. *)
Finished(r) == [r EXCEPT !.stage = "completed", !.data = FALSE, !.woken = FALSE,
                         !.completions = <<>>, !.held = @ - Len(r.completions)]
Ended(r)    == [r EXCEPT !.stage = "completed", !.woken = FALSE]

LEMMA AlikeIsGood ==
  ASSUME NEW o, NEW r, NEW s, NEW p, NEW n, Good(o, r, p, n), Alike(r, s)
  PROVE  Good(o, s, p, n) /\ s.stage = r.stage
<1>1. CASE s = r
  BY <1>1 DEF Good
<1>2. CASE r.wait = "Linked" /\ s = Told(r)
  <2>1. r \in Operation /\ r.stage = "unsubmitted"
    BY <1>2 DEF Good
  <2>2. /\ s \in Operation /\ s.wait = "Fired" /\ s.woken = TRUE
        /\ s.stage = r.stage /\ s.refcount = r.refcount /\ s.waker = r.waker /\ s.data = r.data
        /\ s.completions = r.completions /\ s.complete = r.complete /\ s.held = r.held
    BY <1>2, <2>1 DEF Operation, Waiting, Told
  <2> QED
    BY <2>1, <2>2 DEF Good, One
<1> QED
  BY <1>1, <1>2 DEF Alike

(* The kernel takes the entry. *)
LEMMA TakenIsGood ==
  ASSUME NEW o, NEW r, NEW n, Good(o, r, "sq", n)
  PROVE  Good(o, r, "kernel", n)
BY DEF Good, One

LEMMA PostedIsGood ==
  ASSUME NEW o, NEW r, NEW n \in Nat, Good(o, r, "kernel", n), NEW q \in {"kernel", "cq"},
         NEW s, s \in Posted(r)
  PROVE  Good(o, s, q, n + 1) /\ s.stage = r.stage /\ s.wait = r.wait
<1>1. r \in Operation
  BY DEF Good
<1>2. /\ s \in Operation /\ s.held = r.held + 1
      /\ s.stage = r.stage /\ s.refcount = r.refcount /\ s.waker = r.waker /\ s.data = r.data
      /\ s.completions = r.completions /\ s.complete = r.complete /\ s.wait = r.wait
      /\ s.woken = r.woken
  <2>1. CASE s = [r EXCEPT !.held = @ + 1]
    BY <1>1, <2>1 DEF Operation
  <2>2. CASE s = [r EXCEPT !.updates = @ + 1, !.held = @ + 1]
    <3>1. r.updates \in Nat /\ r.held \in Nat
      BY <1>1 DEF Operation
    <3>2. r.updates + 1 \in Nat /\ r.held + 1 \in Nat
      BY <3>1
    <3> QED
      BY <1>1, <2>2, <3>2 DEF Operation
  <2> QED
    BY <2>1, <2>2 DEF Posted
<1>3. Len(r.completions) \in Nat
  BY <1>1 DEF Operation
<1>4. Ordered(r) => Ordered(s)
  BY <1>2 DEF Ordered
<1>5. s.held = n + 1 + Len(s.completions) /\ n + 1 > 0
  <2>1. r.held = n + Len(r.completions)
    BY DEF Good
  <2>2. \A l \in Nat : n + l + 1 = n + 1 + l
    OBVIOUS
  <2>3. s.held = n + Len(r.completions) + 1 /\ s.completions = r.completions
    BY <1>2, <2>1, Zenon
  <2>4. s.held = n + 1 + Len(s.completions)
    BY <1>3, <2>2, <2>3, Zenon
  <2> QED
    BY <2>4
<1> QED
  BY <1>2, <1>4, <1>5 DEF Good, One

LEMMA UnusedIsGood ==
  ASSUME NEW o, NEW s, s = Unused
  PROVE  Good(o, s, "none", 0) /\ s.stage = "none" /\ s.wait = "none"
<1>1. <<>> \in Seq(BOOLEAN) /\ Len(<<>>) = 0
  OBVIOUS
<1>2. Unused \in Operation
  BY <1>1 DEF Unused, Operation, FutureStage, Waiting
<1> QED
  BY <1>1, <1>2 DEF Unused, Good, One

LEMMA NewIsGood ==
  ASSUME NEW o, NEW r, NEW n \in Nat, NEW p \in {"sq", "kernel", "cq", "none"},
         Good(o, r, p, n), r.refcount = 0,
         NEW s, s = [Unused EXCEPT !.stage = "unsubmitted", !.woken = TRUE, !.refcount = 2,
                                   !.data = TRUE]
  PROVE  Good(o, s, p, n) /\ s.wait = "none" /\ r.wait = "none" /\ p = "none"
<1>1. p = "none" /\ n = 0 /\ r.stage \in {"none", "dropped"} /\ r.wait = "none"
  BY DEF Good, One
<1>2. <<>> \in Seq(BOOLEAN) /\ Len(<<>>) = 0
  OBVIOUS
<1>3. /\ s \in Operation /\ s.stage = "unsubmitted" /\ s.wait = "none" /\ s.woken = TRUE
      /\ s.refcount = 2 /\ s.completions = <<>> /\ s.complete = FALSE /\ s.data = TRUE
      /\ s.held = 0
  BY <1>2 DEF Unused, Operation, FutureStage, Waiting
<1> QED
  BY <1>1, <1>2, <1>3 DEF Good, One

LEMMA WaitIsGood ==
  ASSUME NEW o, NEW r, NEW p, NEW n, Good(o, r, p, n), r.stage = "unsubmitted",
         NEW s, s = Waiter(r)
  PROVE  Good(o, s, p, n) /\ s.wait = "Linked" /\ s.stage = "unsubmitted"
<1>1. r \in Operation
  BY DEF Good
<1>2. /\ s \in Operation /\ s.wait = "Linked"
      /\ s.stage = r.stage /\ s.refcount = r.refcount /\ s.waker = r.waker /\ s.data = r.data
      /\ s.completions = r.completions /\ s.complete = r.complete /\ s.held = r.held
  BY <1>1 DEF Operation, Waiting, Waiter
<1> QED
  BY <1>2 DEF Good, One

LEMMA PushIsGood ==
  ASSUME NEW o, NEW r, NEW n, NEW p, Good(o, r, p, n), r.stage = "unsubmitted",
         NEW s, s = Pushed(r)
  PROVE  p = "none" /\ Good(o, s, "sq", n) /\ s.wait = "none" /\ s.stage = "submitted"
<1>1. r \in Operation
  BY DEF Good
<1>2. /\ s \in Operation /\ s.wait = "none" /\ s.stage = "submitted" /\ s.waker = TRUE
      /\ s.refcount = r.refcount /\ s.data = r.data
      /\ s.completions = r.completions /\ s.complete = r.complete /\ s.held = r.held
  BY <1>1 DEF Operation, Waiting, FutureStage, Pushed
<1>3. r.complete = FALSE /\ r.completions = <<>>
  BY <1>1 DEF Good, Operation
<1>4. Ordered(s)
  BY <1>2, <1>3 DEF Ordered
<1> QED
  BY <1>2, <1>3, <1>4 DEF Good, One

LEMMA PendIsGood ==
  ASSUME NEW o, NEW r, NEW p, NEW n, Good(o, r, p, n), r.stage = "submitted", ~r.complete,
         o \in Multi => r.completions = <<>>, NEW s, s = Pend(r)
  PROVE  Good(o, s, p, n) /\ s.wait = r.wait /\ s.stage = "submitted"
<1>1. r \in Operation
  BY DEF Good
<1>2. /\ s \in Operation /\ s.wait = r.wait /\ s.stage = r.stage /\ s.waker = TRUE
      /\ s.refcount = r.refcount /\ s.data = r.data
      /\ s.completions = r.completions /\ s.complete = r.complete /\ s.held = r.held
  BY <1>1 DEF Operation, Pend
<1>3. Ordered(r) => Ordered(s)
  BY <1>2 DEF Ordered
<1> QED
  BY <1>2, <1>3 DEF Good, One

(* A future takes all its results, and there are no more to come.          *)
LEMMA FinishIsGood ==
  ASSUME NEW o, NEW r, NEW p, NEW n \in Nat, Good(o, r, p, n), r.stage = "submitted", r.complete,
         NEW s, s = Finished(r)
  PROVE  Good(o, s, p, n) /\ s.wait = r.wait /\ p = "none"
<1>1. r \in Operation /\ p = "none" /\ r.held = n + Len(r.completions) /\ r.wait = "none"
  BY DEF Good
<1>2. Len(r.completions) \in Nat /\ r.held - Len(r.completions) = n
  BY <1>1 DEF Operation
<1>3. <<>> \in Seq(BOOLEAN) /\ Len(<<>>) = 0
  OBVIOUS
<1>4. s = [r EXCEPT !.stage = "completed", !.data = FALSE, !.woken = FALSE,
                    !.completions = <<>>, !.held = n]
  BY <1>2 DEF Finished
<1>5. /\ s \in Operation /\ s.wait = r.wait /\ s.stage = "completed"
      /\ s.refcount = r.refcount /\ s.completions = <<>> /\ s.complete = r.complete /\ s.held = n
  BY <1>1, <1>3, <1>4 DEF Operation, FutureStage
<1> QED
  BY <1>1, <1>3, <1>5 DEF Good, One

LEMMA Prefix ==
  ASSUME NEW S, NEW c \in Seq(S), NEW n \in Nat, n <= Len(c)
  PROVE  SubSeq(c, 1, n) \in Seq(S) /\ Len(SubSeq(c, 1, n)) = n
<1>1. Len(c) \in Nat /\ DOMAIN c = 1..Len(c)
  BY LenProperties
<1>2. \A i \in 1..n : c[i] \in S
  BY <1>1, ElementOfSeq
<1>3. SubSeq(c, 1, n) \in Seq(S)
  BY <1>2, SubSeqProperties
<1>4. Len(SubSeq(c, 1, n)) = n
  <2>1. CASE n >= 1
    BY <1>2, <2>1, SubSeqProperties
  <2>2. CASE n = 0
    BY <1>2, <2>2, SubSeqEmpty
  <2> QED
    BY <2>1, <2>2
<1> QED
  BY <1>3, <1>4

LEMMA Popped ==
  ASSUME NEW c \in Seq(BOOLEAN), c # <<>>
  PROVE  SubSeq(c, 1, Len(c) - 1) \in Seq(BOOLEAN) /\ Len(SubSeq(c, 1, Len(c) - 1)) = Len(c) - 1
<1>1. Len(c) \in Nat \ {0}
  BY EmptySeq
<1> DEFINE n == Len(c) - 1
<1>2. n \in Nat /\ n <= Len(c)
  BY <1>1
<1> HIDE DEF n
<1>3. SubSeq(c, 1, n) \in Seq(BOOLEAN) /\ Len(SubSeq(c, 1, n)) = n
  BY <1>2, Prefix, Zenon
<1> QED
  BY <1>3 DEF n

LEMMA Appended ==
  ASSUME NEW c \in Seq(BOOLEAN), NEW b \in BOOLEAN, NEW d, d = Append(c, b)
  PROVE  /\ d \in Seq(BOOLEAN) /\ d # <<>> /\ Len(c) \in Nat /\ Len(d) = Len(c) + 1
         /\ DOMAIN d = 1..(Len(c) + 1) /\ DOMAIN c = 1..Len(c)
         /\ \A i \in 1..Len(c) : d[i] = c[i]
         /\ d[Len(c) + 1] = b
BY AppendProperties, LenProperties

(* A stream takes one. *)
LEMMA TakeOneIsGood ==
  ASSUME NEW o \in Multi, NEW r, NEW p, NEW n \in Nat, Good(o, r, p, n), r.stage = "submitted",
         r.completions # <<>>,
         NEW s, s = [r EXCEPT !.woken = TRUE, !.held = @ - 1,
                              !.completions = SubSeq(@, 1, Len(@) - 1)]
  PROVE  Good(o, s, p, n) /\ s.wait = r.wait
<1>1. r \in Operation /\ r.held = n + Len(r.completions) /\ r.wait = "none"
  BY DEF Good
<1> DEFINE rest == SubSeq(r.completions, 1, Len(r.completions) - 1)
<1>2. r.completions \in Seq(BOOLEAN) /\ Len(r.completions) \in Nat \ {0}
  BY <1>1, EmptySeq DEF Operation
<1>3. rest \in Seq(BOOLEAN) /\ Len(rest) = Len(r.completions) - 1 /\ r.held - 1 = n + Len(rest)
      /\ r.held - 1 \in Nat
  <2>1. rest \in Seq(BOOLEAN) /\ Len(rest) = Len(r.completions) - 1
    BY <1>2, Popped
  <2> HIDE DEF rest
  <2> QED
    BY <1>1, <1>2, <2>1
<1>4. s = [r EXCEPT !.woken = TRUE, !.held = r.held - 1, !.completions = rest]
  BY <1>1
<1> HIDE DEF rest
<1>5. /\ s \in Operation /\ s.wait = r.wait /\ s.stage = r.stage /\ s.woken = TRUE
      /\ s.refcount = r.refcount /\ s.completions = rest /\ s.complete = r.complete
      /\ s.held = r.held - 1 /\ s.data = r.data
  BY <1>1, <1>3, <1>4 DEF Operation
<1> QED
  BY <1>1, <1>3, <1>5 DEF Good, One

LEMMA EndIsGood ==
  ASSUME NEW o, NEW r, NEW p, NEW n, Good(o, r, p, n), r.stage = "submitted", r.complete,
         r.completions = <<>>, NEW s, s = Ended(r)
  PROVE  Good(o, s, p, n) /\ s.wait = r.wait /\ p = "none"
<1>1. r \in Operation
  BY DEF Good
<1>2. /\ s \in Operation /\ s.wait = r.wait /\ s.stage = "completed"
      /\ s.refcount = r.refcount /\ s.data = r.data
      /\ s.completions = r.completions /\ s.complete = r.complete /\ s.held = r.held
  BY <1>1 DEF Operation, FutureStage, Ended
<1> QED
  BY <1>2 DEF Good, One

(* A future goes, and with it the memory if no entry is left.              *)
LEMMA DropIsGood ==
  ASSUME NEW o, NEW r, NEW p, NEW n \in Nat, Good(o, r, p, n),
         r.stage \in {"submitted", "completed"},
         NEW d, d \in {[r EXCEPT !.stage = "dropped", !.woken = FALSE],
                       [r EXCEPT !.stage = "dropped"]}
  PROVE  /\ Good(o, Unref(d), p, n) /\ UnrefOk(r) /\ r.wait = "none" /\ Unref(d).wait = "none"
         /\ p # "none" => Unref(d).stage = "dropped"
<1>1. r \in Operation /\ r.wait = "none"
  BY DEF Good
<1>2. /\ d \in Operation /\ d.stage = "dropped" /\ d.wait = "none"
      /\ d.refcount = r.refcount /\ d.data = r.data
      /\ d.completions = r.completions /\ d.complete = r.complete /\ d.held = r.held
  <2>1. CASE d = [r EXCEPT !.stage = "dropped", !.woken = FALSE]
    BY <1>1, <2>1 DEF Operation, FutureStage
  <2>2. CASE d = [r EXCEPT !.stage = "dropped"]
    BY <1>1, <2>2 DEF Operation, FutureStage
  <2> QED
    BY <2>1, <2>2
<1>3. r.refcount = 1 + One(p # "none") /\ UnrefOk(r)
  BY DEF Good, One, UnrefOk
<1>4. CASE p = "none"
  <2>1. Len(r.completions) \in Nat /\ d.held - Len(d.completions) = n /\ n = 0
    BY <1>1, <1>2, <1>4 DEF Operation, Good
  <2>2. Unref(d) = [Unused EXCEPT !.held = 0]
    BY <1>2, <1>3, <1>4, <2>1 DEF Unref, Destroyed, One
  <2>3. [Unused EXCEPT !.held = 0] = Unused
    BY DEF Unused
  <2> QED
    BY <1>1, <1>3, <1>4, <2>1, <2>2, <2>3, UnusedIsGood
<1>5. CASE p # "none"
  <2>1. Unref(d) = [d EXCEPT !.refcount = 1]
    BY <1>2, <1>3, <1>5 DEF Unref, One
  <2>2. /\ Unref(d) \in Operation /\ Unref(d).stage = "dropped" /\ Unref(d).wait = "none"
        /\ Unref(d).refcount = 1 /\ Unref(d).data = r.data
        /\ Unref(d).completions = r.completions /\ Unref(d).complete = r.complete
        /\ Unref(d).held = r.held
    BY <1>2, <2>1 DEF Operation
  <2> QED
    BY <1>1, <1>3, <1>5, <2>2 DEF Good, One
<1> QED
  BY <1>4, <1>5

LEMMA OneIsLeft ==
  ASSUME NEW g \in Operation PROVE [g EXCEPT !.refcount = 1] \in Operation
BY DEF Operation

LEMMA Sums == \A n, a \in Nat : n + a = (n - 1) + (a + 1) /\ 1 + a = a + 1
OBVIOUS

(* A result comes, which is not the last, or is. *)
Continued(r) == Received(r, TRUE)
Concluded(r) == Received(r, FALSE)

LEMMA MoreIsGood ==
  ASSUME NEW o, NEW r, NEW p \in {"kernel", "cq"}, NEW n \in Nat, Good(o, r, p, n), n > 0,
         NEW s, s = Continued(r)
  PROVE  Good(o, s, p, n - 1) /\ s.stage = r.stage /\ s.wait = r.wait /\ ~r.complete
<1>1. r \in Operation /\ r.held = n + Len(r.completions) /\ ~r.complete /\ r.data
      /\ r.stage # "unsubmitted" /\ r.stage # "completed"
  BY DEF Good
<1> DEFINE new == Append(r.completions, TRUE)
<1>2. r.completions \in Seq(BOOLEAN) /\ r.complete = FALSE /\ r.woken \in BOOLEAN
      /\ r.waker \in BOOLEAN
  BY <1>1 DEF Operation
<1>3. /\ new \in Seq(BOOLEAN) /\ new # <<>> /\ Len(r.completions) \in Nat
      /\ Len(new) = Len(r.completions) + 1
      /\ DOMAIN new = 1..(Len(r.completions) + 1) /\ DOMAIN r.completions = 1..Len(r.completions)
      /\ \A i \in 1..Len(r.completions) : new[i] = r.completions[i]
      /\ new[Len(r.completions) + 1] = TRUE
  BY <1>2, Appended
<1> HIDE DEF new
<1>4. s = [r EXCEPT !.completions = new, !.complete = (r.complete \/ FALSE), !.waker = FALSE,
                    !.woken = (r.woken \/ (r.waker /\ r.stage = "submitted"))]
  BY <1>1 DEF new, Received, Continued
<1>5. /\ s \in Operation /\ s.wait = r.wait /\ s.stage = r.stage /\ s.completions = new
      /\ s.refcount = r.refcount /\ s.data = r.data /\ s.complete = FALSE /\ s.held = r.held
  BY <1>1, <1>2, <1>3, <1>4 DEF Operation
<1>9. s.woken = (r.woken \/ (r.waker /\ r.stage = "submitted"))
  BY <1>1, <1>2, <1>3, <1>4 DEF Operation
<1>6. Ordered(r) => Ordered(s)
  <2> SUFFICES ASSUME Ordered(r), NEW i \in DOMAIN new
               PROVE  new[i] <=> ~(FALSE /\ i = Len(new))
    BY <1>5 DEF Ordered
  <2>1. CASE i = Len(r.completions) + 1
    BY <1>3, <2>1
  <2>2. CASE i \in 1..Len(r.completions)
    <3>1. r.completions[i] <=> ~(r.complete /\ i = Len(r.completions))
      BY <1>3, <2>2 DEF Ordered
    <3>2. new[i] = r.completions[i]
      BY <1>3, <2>2
    <3> QED
      BY <1>1, <3>1, <3>2, Zenon
  <2> QED
    BY <1>3, <2>1, <2>2
<1>7. r.stage = "submitted" => s.woken
  <2>1. r.stage = "submitted" => r.woken \/ r.waker
    BY DEF Good
  <2> QED
    BY <1>9, <2>1, Zenon
<1>8. s.held = (n - 1) + Len(new)
  <2>1. /\ s.held = n + Len(r.completions) /\ Len(new) = Len(r.completions) + 1
        /\ Len(r.completions) \in Nat
    BY <1>1, <1>3, <1>5, Zenon
  <2> QED
    BY <2>1, Sums, Zenon
<1> QED
  BY <1>1, <1>5, <1>6, <1>7, <1>8 DEF Good, One

(* The last one comes, and finds a future or ends the memory. *)
LEMMA EndedIsGood ==
  ASSUME NEW o, NEW r, Good(o, r, "cq", 1), NEW s, s = Concluded(r)
  PROVE  /\ Good(o, s, "none", 0) /\ s.wait = r.wait /\ ~r.complete /\ r.data
         /\ r.wait = "none"
<1>1. r \in Operation /\ r.held = 1 + Len(r.completions) /\ ~r.complete /\ r.data
      /\ r.stage # "unsubmitted" /\ r.stage # "completed" /\ r.wait = "none"
      /\ r.refcount = One(r.stage \notin {"none", "dropped"}) + 1
  BY DEF Good, One
<1> DEFINE new == Append(r.completions, FALSE)
           got == [r EXCEPT !.completions = new, !.complete = (r.complete \/ TRUE), !.waker = FALSE,
                            !.woken = (r.woken \/ (r.waker /\ r.stage = "submitted"))]
<1>2. r.completions \in Seq(BOOLEAN) /\ r.complete = FALSE /\ r.woken \in BOOLEAN
      /\ r.waker \in BOOLEAN
  BY <1>1 DEF Operation
<1>3. /\ new \in Seq(BOOLEAN) /\ new # <<>> /\ Len(r.completions) \in Nat
      /\ Len(new) = Len(r.completions) + 1
      /\ DOMAIN new = 1..(Len(r.completions) + 1) /\ DOMAIN r.completions = 1..Len(r.completions)
      /\ \A i \in 1..Len(r.completions) : new[i] = r.completions[i]
      /\ new[Len(r.completions) + 1] = FALSE
  BY <1>2, Appended
<1> HIDE DEF new
<1>4. s = Unref(got)
  BY DEF new, Received, Concluded
<1>5. /\ got \in Operation /\ got.wait = r.wait /\ got.stage = r.stage /\ got.completions = new
      /\ got.refcount = r.refcount /\ got.data = r.data /\ got.complete = TRUE
      /\ got.held = r.held
  BY <1>1, <1>2, <1>3 DEF Operation
<1>8. got.woken = (r.woken \/ (r.waker /\ r.stage = "submitted"))
  BY <1>1, <1>2, <1>3 DEF Operation
<1> HIDE DEF got
<1>6. CASE r.stage \in {"none", "dropped"}
  <2>1. r.refcount = 1 /\ got.held - Len(got.completions) = 0
    BY <1>1, <1>3, <1>5, <1>6 DEF One
  <2>2. s = [Unused EXCEPT !.held = 0]
    BY <1>4, <1>5, <2>1 DEF Unref, Destroyed
  <2>3. [Unused EXCEPT !.held = 0] = Unused
    BY DEF Unused
  <2> QED
    BY <1>1, <2>2, <2>3, UnusedIsGood
<1>7. CASE r.stage = "submitted"
  <2>1. got.refcount = 2
    BY <1>1, <1>5, <1>7 DEF One
  <2>2. s = [got EXCEPT !.refcount = 1]
    <3>1. got.refcount # 1 /\ got.refcount - 1 = 1
      BY <2>1
    <3>2. s = [got EXCEPT !.refcount = got.refcount - 1]
      BY <1>4, <3>1 DEF Unref
    <3> QED
      BY <3>1, <3>2
  <2>3. /\ s \in Operation /\ s.wait = got.wait /\ s.stage = got.stage /\ s.refcount = 1
        /\ s.completions = got.completions /\ s.data = got.data /\ s.complete = got.complete
        /\ s.held = got.held
    <3>1. got \in Operation
      BY <1>5
    <3>2. s \in Operation
      BY <2>2, <3>1, OneIsLeft
    <3>3. /\ s.wait = got.wait /\ s.stage = got.stage /\ s.refcount = 1
          /\ s.completions = got.completions /\ s.held = got.held
      BY <2>2, <3>1 DEF Operation
    <3>4. s.data = got.data /\ s.complete = got.complete
      BY <2>2, <3>1 DEF Operation
    <3> QED
      BY <3>2, <3>3, <3>4
  <2>8. s.woken = got.woken
    BY <1>5, <2>2 DEF Operation
  <2>4. s.woken
    <3>1. r.woken \/ r.waker
      BY <1>7 DEF Good
    <3> QED
      BY <1>7, <1>8, <2>8, <3>1, Zenon
  <2>5. Ordered(r) => Ordered(s)
    <3> SUFFICES ASSUME Ordered(r), NEW i \in DOMAIN new
                 PROVE  new[i] <=> ~(TRUE /\ i = Len(new))
      BY <1>3, <1>5, <2>3 DEF Ordered
    <3>1. CASE i = Len(r.completions) + 1
      BY <1>3, <3>1
    <3>2. CASE i \in 1..Len(r.completions)
      <4>1. r.completions[i] <=> ~(r.complete /\ i = Len(r.completions))
        BY <1>3, <3>2 DEF Ordered
      <4>2. new[i] = r.completions[i] /\ i # Len(new)
        BY <1>3, <3>2
      <4> QED
        BY <1>1, <4>1, <4>2, Zenon
    <3> QED
      BY <1>3, <3>1, <3>2
  <2>6. s.held = Len(s.completions)
    <3>1. /\ s.held = 1 + Len(r.completions) /\ Len(s.completions) = Len(r.completions) + 1
          /\ Len(r.completions) \in Nat
      BY <1>1, <1>3, <1>5, <2>3, Zenon
    <3> QED
      BY <3>1, Sums, Zenon
  <2>7. o \notin Multi => Ordered(s)
    BY <1>7, <2>5 DEF Good
  <2> QED
    <3>1. /\ s \in Operation /\ s.stage = "submitted" /\ s.wait = "none" /\ s.refcount = 1
          /\ s.data /\ r.wait = "none" /\ s.wait = r.wait
      BY <1>1, <1>5, <1>7, <2>3, Zenon
    <3>2. 0 + Len(s.completions) = Len(s.completions)
      BY <3>1 DEF Operation
    <3>3. 1 = One(s.stage \notin {"none", "dropped"})
                + One(s.stage = "unsubmitted" \/ "none" # "none")
      <4>1. s.stage = "submitted"
        BY <3>1
      <4>2. One(s.stage \notin {"none", "dropped"}) = 1
        BY <4>1 DEF One
      <4>3. One(s.stage = "unsubmitted" \/ "none" # "none") = 0
        BY <4>1 DEF One
      <4>4. 1 = 1 + 0
        OBVIOUS
      <4> QED
        BY <4>2, <4>3, <4>4, Zenon
    <3>4. s.held = 0 + Len(s.completions)
      BY <2>6, <3>2, Zenon
    <3>5. ~(0 > 0)
      OBVIOUS
    <3> QED
      BY <2>4, <2>7, <3>1, <3>3, <3>4, <3>5, Zenon DEF Good
<1> QED
  BY <1>1, <1>6, <1>7 DEF Operation, FutureStage

-----------------------------------------------------------------------------
(* The queues.                                                             *)

LEMMA Entries ==
  /\ \A o, p : OpEntry(o) = OpEntry(p) => o = p
  /\ \A o, p : CancelEntry(o) = CancelEntry(p) => o = p
  /\ \A o, p : OpEntry(o) # CancelEntry(p)
  /\ \A o : OpEntry(o) # OtherEntry /\ OpEntry(o) # DrainEntry
  /\ \A o : CancelEntry(o) # OtherEntry /\ CancelEntry(o) # DrainEntry
  /\ \A o \in Ops : OpEntry(o) \in Entry /\ CancelEntry(o) \in Entry
  /\ OtherEntry \in Entry /\ DrainEntry \in Entry
<1>1. /\ \A o : OpEntry(o).kind = "op" /\ OpEntry(o).op = o
      /\ \A o : CancelEntry(o).kind = "cancel" /\ CancelEntry(o).op = o
      /\ OtherEntry.kind = "other" /\ DrainEntry.kind = "drain"
  BY DEF OpEntry, CancelEntry, OtherEntry, DrainEntry
<1>2. /\ \A o \in Ops : OpEntry(o) \in Entry /\ CancelEntry(o) \in Entry
      /\ OtherEntry \in Entry /\ DrainEntry \in Entry
  BY DEF Entry
<1> QED
  BY <1>1, <1>2

LEMMA Completions ==
  /\ \A o : More(o).kind = "op" /\ More(o).op = o /\ End(o).kind = "op" /\ End(o).op = o
  /\ \A o, p : More(o) # End(p)
  /\ DrainEntry.kind = "drain" /\ DrainEntry \in Completion
  /\ \A o \in Ops : More(o) \in Completion /\ End(o) \in Completion
  /\ \A c \in Completion : c.kind = "op" =>
       c.op \in Ops /\ IF c.more THEN c = More(c.op) ELSE c = End(c.op)
<1>1. /\ \A o : /\ More(o).kind = "op" /\ More(o).op = o /\ More(o).more
                /\ End(o).kind = "op" /\ End(o).op = o /\ ~End(o).more
      /\ DrainEntry.kind = "drain"
  BY DEF Result, DrainEntry, More, End
<1>2. /\ \A o \in Ops : More(o) \in Completion /\ End(o) \in Completion
      /\ DrainEntry \in Completion
  <2>1. TRUE \in BOOLEAN /\ FALSE \in BOOLEAN
    OBVIOUS
  <2>2. ASSUME NEW o \in Ops, NEW m \in BOOLEAN PROVE Result(o, m) \in Completion
    <3>1. \E p \in Ops, b \in BOOLEAN : Result(o, m) = Result(p, b)
      BY Zenon
    <3> QED
      BY <3>1 DEF Completion
  <2>3. DrainEntry \in Completion
    BY DEF Completion
  <2> QED
    BY <2>1, <2>2, <2>3, Zenon DEF More, End
<1>3. ASSUME NEW c \in Completion, c.kind = "op"
      PROVE  c.op \in Ops /\ IF c.more THEN c = More(c.op) ELSE c = End(c.op)
  <2>1. PICK o \in Ops, m \in BOOLEAN : c = Result(o, m)
    BY <1>1, <1>3 DEF Completion
  <2>2. m = TRUE \/ m = FALSE
    OBVIOUS
  <2>3. c = More(o) \/ c = End(o)
    BY <2>1, <2>2, Zenon DEF More, End
  <2> QED
    BY <1>1, <2>3
<1>4. \A o, p : More(o) # End(p)
  BY <1>1, Zenon
<1> QED
  BY <1>1, <1>2, <1>3, <1>4, Zenon

LEMMA Mores == \A o : More(o).more = TRUE /\ End(o).more = FALSE
BY Zenon DEF More, End, Result

LEMMA Counted ==
  ASSUME Rings, NEW o
  PROVE  /\ IsFiniteSet(Reported(o)) /\ Count(o) \in Nat
         /\ Count(o) > 0 <=> Reported(o) # {}
<1>1. DOMAIN cq = 1..Len(cq) /\ Len(cq) \in Nat
  BY LenProperties DEF Rings
<1>2. IsFiniteSet(1..Len(cq)) /\ Reported(o) \in SUBSET (1..Len(cq))
  <2>1. 1 \in Int /\ Len(cq) \in Int
    BY <1>1
  <2> QED
    BY <1>1, <2>1, FS_Interval DEF Reported
<1>3. IsFiniteSet(Reported(o))
  BY <1>2, FS_Subset
<1> QED
  BY <1>3, FS_CardinalityType, FS_EmptySet DEF Count

LEMMA Places ==
  ASSUME Rings, NEW o \in Ops
  PROVE  /\ Place(o) = "sq" <=> Queues(o)
         /\ Place(o) = "kernel" <=> o \in armed
         /\ Place(o) = "cq" <=> Ends(o)
         /\ Place(o) \in {"sq", "kernel", "cq", "none"}
         /\ Count(o) > 0 => Place(o) \in {"kernel", "cq"}
BY Counted DEF Rings, OnePlace, Place

LEMMA Untouched ==
  ASSUME Rings, UNCHANGED <<sq, cq, armed>>
  PROVE  /\ Rings' /\ Hit' = Hit
         /\ \A o \in Ops : Place(o)' = Place(o) /\ Count(o)' = Count(o)
BY DEF Rings, OnePlace, QueuedOnce, LastIsLast, Queues, Ends, Final, Reported, Hit, Place, Count

(* An entry is pushed. *)
LEMMA Pushes ==
  ASSUME Rings, Room, SqSize \in Nat, NEW e \in Entry, sq' = Append(sq, e), UNCHANGED <<cq, armed>>,
         \A o \in Ops : e # CancelEntry(o) /\ (e = OpEntry(o) => Place(o) = "none")
  PROVE  /\ Rings' /\ Hit' \subseteq Hit /\ Len(sq') = Len(sq) + 1
         /\ \A o \in Ops : /\ Place(o)' = IF e = OpEntry(o) THEN "sq" ELSE Place(o)
                           /\ Count(o)' = Count(o)
<1>1. /\ sq' \in Seq(Entry) /\ Len(sq) \in Nat /\ Len(sq') = Len(sq) + 1 /\ DOMAIN sq = 1..Len(sq)
      /\ DOMAIN sq' = 1..(Len(sq) + 1) /\ sq'[Len(sq) + 1] = e
      /\ \A i \in 1..Len(sq) : sq'[i] = sq[i]
  BY AppendProperties, LenProperties DEF Rings
<1>2. Len(sq') <= SqSize
  BY <1>1 DEF Room
<1>3. \A o \in Ops : Queues(o)' <=> Queues(o) \/ e = OpEntry(o)
  BY <1>1 DEF Queues
<1>4. \A o \in Ops : (Ends(o)' <=> Ends(o)) /\ Reported(o)' = Reported(o) /\ Final(o)' = Final(o)
  BY DEF Ends, Reported, Final
<1>5. \A o \in Ops : e = OpEntry(o) => ~Queues(o) /\ o \notin armed /\ ~Ends(o)
  BY Places
<1>6. OnePlace'
  BY <1>3, <1>4, <1>5 DEF Rings, OnePlace
<1>7. QueuedOnce'
  <2> SUFFICES ASSUME NEW o \in Ops, NEW i \in DOMAIN sq', NEW j \in DOMAIN sq',
                      sq'[i] = OpEntry(o), sq'[j] = OpEntry(o)
               PROVE  i = j
    BY DEF QueuedOnce
  <2> QED
    BY <1>1, <1>5 DEF QueuedOnce, Queues, Rings
<1>8. LastIsLast' /\ cq' \in Seq(Completion) /\ armed' \subseteq Ops
  BY <1>4 DEF Rings, LastIsLast
<1>9. Hit' \subseteq Hit
  <2> SUFFICES ASSUME NEW o \in Ops, NEW i \in DOMAIN sq', sq'[i] = CancelEntry(o),
                      o \in armed \/ \E j \in 1..(i - 1) : sq'[j] = OpEntry(o)
               PROVE  o \in Hit
    BY DEF Hit
  <2>1. i \in DOMAIN sq /\ sq[i] = CancelEntry(o)
    BY <1>1
  <2> QED
    BY <1>1, <2>1 DEF Hit
<1>10. \A o \in Ops : /\ Place(o)' = IF e = OpEntry(o) THEN "sq" ELSE Place(o)
                      /\ Count(o)' = Count(o)
  BY <1>3, <1>4, <1>5 DEF Place, Count
<1> QED
  BY <1>1, <1>2, <1>6, <1>7, <1>8, <1>9, <1>10 DEF Rings

(* The kernel takes all entries, and another follows, if any.              *)
LEMMA Takes ==
  ASSUME Rings, SqSize \in Nat, armed' = armed \cup Submitted, sq' \in Seq(Entry), Len(sq') <= SqSize,
         \A o \in Ops : \A i \in DOMAIN sq' : sq'[i] # OpEntry(o), UNCHANGED cq
  PROVE  /\ Rings'
         /\ \A o \in Ops : /\ Place(o)' = IF Place(o) = "sq" THEN "kernel" ELSE Place(o)
                           /\ Count(o)' = Count(o)
<1>1. \A o \in Ops : ~Queues(o)' /\ (o \in armed' <=> o \in armed \/ Queues(o))
  BY DEF Queues, Submitted
<1>2. \A o \in Ops : (Ends(o)' <=> Ends(o)) /\ Reported(o)' = Reported(o) /\ Final(o)' = Final(o)
  BY DEF Ends, Reported, Final
<1>3. OnePlace'
  BY <1>1, <1>2 DEF Rings, OnePlace
<1>4. QueuedOnce' /\ LastIsLast' /\ cq' \in Seq(Completion) /\ armed' \subseteq Ops
  BY <1>2 DEF Rings, LastIsLast, QueuedOnce, Submitted
<1>5. \A o \in Ops : /\ Place(o)' = IF Place(o) = "sq" THEN "kernel" ELSE Place(o)
                     /\ Count(o)' = Count(o)
  BY <1>1, <1>2 DEF Place, Count
<1> QED
  BY <1>3, <1>4, <1>5 DEF Rings

(* A result that comes is the last of its operation, or there is more.     *)
LEMMA Posts ==
  ASSUME Rings, NEW o \in armed, NEW c \in {More(o), End(o)}, cq' = Append(cq, c),
         armed' = (IF c = End(o) THEN armed \ {o} ELSE armed), UNCHANGED sq
  PROVE  /\ Rings' /\ Hit' \subseteq Hit /\ o \in Ops /\ Place(o) = "kernel"
         /\ \A x \in Ops : /\ Place(x)' = IF x = o /\ c = End(o) THEN "cq" ELSE Place(x)
                           /\ Count(x)' = IF x = o THEN Count(x) + 1 ELSE Count(x)
<1> DEFINE n == Len(cq) + 1
<1>1. /\ o \in Ops /\ Place(o) = "kernel" /\ ~Queues(o) /\ ~Ends(o)
      /\ c \in Completion
  BY Places, Completions DEF Rings, OnePlace
<1>2. /\ cq' \in Seq(Completion) /\ Len(cq) \in Nat /\ DOMAIN cq = 1..Len(cq)
      /\ DOMAIN cq' = 1..n /\ cq'[n] = c /\ \A i \in 1..Len(cq) : cq'[i] = cq[i]
  BY <1>1, AppendProperties, LenProperties DEF Rings
<1>3. \A x \in Ops : Queues(x)' <=> Queues(x)
  BY DEF Queues
<1>4. \A x \in Ops : Ends(x)' <=> Ends(x) \/ (x = o /\ c = End(o))
  <2>1. \A x \in Ops : c = End(x) <=> x = o /\ c = End(o)
    BY Completions
  <2> QED
    BY <1>2, <2>1 DEF Ends
<1>5. \A x \in Ops : Reported(x)' = IF x = o THEN Reported(x) \cup {n} ELSE Reported(x)
  <2>1. \A x \in Ops : c.kind = "op" /\ (c.op = x <=> x = o)
    BY Completions
  <2> QED
    BY <1>2, <2>1 DEF Reported
<1>6. \A x \in Ops : Final(x)' = IF x = o /\ c = End(o) THEN Final(x) \cup {n} ELSE Final(x)
  <2>1. \A x \in Ops : c = End(x) <=> x = o /\ c = End(o)
    BY Completions
  <2> QED
    BY <1>2, <2>1 DEF Final
<1>7. \A x \in Ops : x \in armed' <=> x \in armed /\ ~(x = o /\ c = End(o))
  OBVIOUS
<1>8. \A x \in Ops : Place(x)' = IF x = o /\ c = End(o) THEN "cq" ELSE Place(x)
  BY <1>1, <1>3, <1>4, <1>7 DEF Place
<1>9. \A x \in Ops : Count(x)' = IF x = o THEN Count(x) + 1 ELSE Count(x)
  <2>1. n \notin Reported(o)
    BY <1>2 DEF Reported
  <2>2. IsFiniteSet(Reported(o))
    BY Counted
  <2>3. Cardinality(Reported(o) \cup {n}) = Cardinality(Reported(o)) + 1
    BY <2>1, <2>2, FS_AddElement
  <2> QED
    BY <1>5, <2>3 DEF Count
<1>10. OnePlace'
  BY <1>1, <1>3, <1>4, <1>5, <1>7 DEF Rings, OnePlace
<1>11. LastIsLast'
  <2>1. Final(o) = {}
    BY <1>1 DEF Final, Ends
  <2>2. \A x \in Ops : \A j \in Reported(x) : j <= n
    BY <1>2 DEF Reported
  <2> SUFFICES ASSUME NEW x \in Ops, NEW i \in Final(x)', NEW j \in Reported(x)'
               PROVE  j <= i
    BY DEF LastIsLast
  <2>3. CASE x = o
    <3>1. i = n
      BY <1>6, <2>1, <2>3
    <3> QED
      BY <1>2, <1>5, <2>2, <2>3, <3>1
  <2>4. CASE x # o
    BY <1>5, <1>6, <2>4 DEF Rings, LastIsLast
  <2> QED
    BY <2>3, <2>4
<1>12. Hit' \subseteq Hit
  BY <1>7 DEF Hit
<1>13. QueuedOnce' /\ armed' \subseteq Ops /\ sq' \in Seq(Entry) /\ Len(sq') <= SqSize
  BY DEF Rings, QueuedOnce
<1> QED
  BY <1>1, <1>2, <1>8, <1>9, <1>10, <1>11, <1>12, <1>13 DEF Rings

(* The driver's own completion says nothing of operations. *)
LEMMA PostsDrain ==
  ASSUME Rings, cq' = Append(cq, DrainEntry), UNCHANGED <<sq, armed>>
  PROVE  /\ Rings' /\ Hit' = Hit
         /\ \A x \in Ops : Place(x)' = Place(x) /\ Count(x)' = Count(x)
<1> DEFINE n == Len(cq) + 1
<1>1. /\ cq' \in Seq(Completion) /\ Len(cq) \in Nat /\ DOMAIN cq = 1..Len(cq)
      /\ DOMAIN cq' = 1..n /\ cq'[n] = DrainEntry /\ \A i \in 1..Len(cq) : cq'[i] = cq[i]
  BY Completions, AppendProperties, LenProperties DEF Rings
<1>2. /\ \A x \in Ops : End(x) # DrainEntry /\ DrainEntry.kind # "op"
  BY Completions
<1>3. \A x \in Ops : /\ Queues(x)' <=> Queues(x)
                     /\ Ends(x)' <=> Ends(x)
                     /\ Reported(x)' = Reported(x) /\ Final(x)' = Final(x)
  BY <1>1, <1>2 DEF Queues, Ends, Reported, Final
<1>4. \A x \in Ops : Place(x)' = Place(x) /\ Count(x)' = Count(x)
  BY <1>3 DEF Place, Count
<1>5. OnePlace' /\ LastIsLast' /\ QueuedOnce'
  BY <1>3 DEF Rings, OnePlace, LastIsLast, QueuedOnce
<1> QED
  BY <1>1, <1>4, <1>5 DEF Rings, Hit

(* The first completion is reaped. *)
LEMMA Reaps ==
  ASSUME Rings, cq # <<>>, cq' = Tail(cq), UNCHANGED <<sq, armed>>, NEW c, c = Head(cq)
  PROVE  /\ Rings' /\ Hit' = Hit /\ c \in Completion
         /\ \A x \in Ops :
              /\ Place(x)' = IF c = End(x) THEN "none" ELSE Place(x)
              /\ Count(x)' = IF c.kind = "op" /\ c.op = x THEN Count(x) - 1 ELSE Count(x)
              /\ c.kind = "op" /\ c.op = x => Count(x) > 0
              /\ c = End(x) => Place(x) = "cq" /\ Count(x) = 1
<1>1. /\ cq \in Seq(Completion) /\ Len(cq) \in Nat \ {0} /\ DOMAIN cq = 1..Len(cq) /\ c = cq[1]
      /\ cq' \in Seq(Completion) /\ DOMAIN cq' = 1..(Len(cq) - 1)
      /\ \A i \in 1..(Len(cq) - 1) : cq'[i] = cq[i + 1]
  BY EmptySeq, HeadTailProperties, LenProperties DEF Rings
<1>2. c \in Completion
  BY <1>1
<1>3. \A x \in Ops : \A i \in Int : i \in Reported(x)' <=> i >= 1 /\ i + 1 \in Reported(x)
  BY <1>1 DEF Reported
<1>4. \A x \in Ops : \A i \in Int : i \in Final(x)' <=> i >= 1 /\ i + 1 \in Final(x)
  BY <1>1 DEF Final
<1>5. \A x \in Ops : /\ 1 \in Reported(x) <=> c.kind = "op" /\ c.op = x
                     /\ 1 \in Final(x) <=> c = End(x)
                     /\ Reported(x) \subseteq 1..Len(cq) /\ Final(x) \subseteq Reported(x)
  BY <1>1, Completions DEF Reported, Final
<1>6. \A x \in Ops : c = End(x) => Reported(x) = {1} /\ Final(x) = {1}
  BY <1>5 DEF Rings, LastIsLast
<1>7. \A x \in Ops : Ends(x) <=> Final(x) # {}
  BY DEF Ends, Final
<1>8. \A x \in Ops : Ends(x)' <=> Final(x)' # {}
  BY DEF Ends, Final
<1>9. \A x \in Ops : Final(x)' \subseteq Int /\ Reported(x)' \subseteq Int
  BY <1>1 DEF Final, Reported
<1>10. \A x \in Ops : Ends(x)' <=> Ends(x) /\ c # End(x)
  <2> SUFFICES ASSUME NEW x \in Ops PROVE Ends(x)' <=> Ends(x) /\ c # End(x)
    OBVIOUS
  <2>1. CASE c = End(x)
    BY <1>4, <1>6, <1>8, <1>9, <2>1
  <2>2. CASE c # End(x)
    <3>1. 1 \notin Final(x)
      BY <1>5, <2>2
    <3>2. ASSUME NEW i \in Final(x) PROVE i - 1 \in Final(x)'
      BY <1>4, <1>5, <3>1, <3>2
    <3>3. ASSUME NEW i \in Final(x)' PROVE i + 1 \in Final(x)
      BY <1>4, <1>9, <3>3
    <3> QED
      BY <1>7, <1>8, <2>2, <3>2, <3>3
  <2> QED
    BY <2>1, <2>2
<1>11. \A x \in Ops : Reported(x)' # {} => Reported(x) # {} /\ c # End(x)
  BY <1>3, <1>6, <1>9
<1>12. \A x \in Ops : c = End(x) => Ends(x) /\ ~Queues(x) /\ x \notin armed
  BY <1>6, <1>7 DEF Rings, OnePlace
<1>13. \A x \in Ops : Queues(x)' <=> Queues(x)
  BY DEF Queues
<1>14. OnePlace'
  BY <1>10, <1>11, <1>12, <1>13 DEF Rings, OnePlace
<1>15. LastIsLast'
  <2> SUFFICES ASSUME NEW x \in Ops, NEW i \in Final(x)', NEW j \in Reported(x)'
               PROVE  j <= i
    BY DEF LastIsLast
  <2>1. i \in Int /\ j \in Int /\ i + 1 \in Final(x) /\ j + 1 \in Reported(x)
    BY <1>3, <1>4, <1>9
  <2> QED
    BY <2>1 DEF Rings, LastIsLast
<1>16. \A x \in Ops : Place(x)' = IF c = End(x) THEN "none" ELSE Place(x)
  BY <1>10, <1>12, <1>13 DEF Place
<1>17. ASSUME NEW x \in Ops
       PROVE  Count(x)' = IF c.kind = "op" /\ c.op = x THEN Count(x) - 1 ELSE Count(x)
  <2> DEFINE rest == Reported(x) \ {1}
             f == [i \in rest |-> i - 1]
  <2>1. rest \subseteq Int /\ IsFiniteSet(rest)
        /\ Cardinality(rest) = IF c.kind = "op" /\ c.op = x THEN Count(x) - 1 ELSE Count(x)
    <3>1. IsFiniteSet(Reported(x)) /\ Reported(x) \subseteq Int
      BY <1>5, Counted
    <3>2. IsFiniteSet(rest) /\ Cardinality(rest) = IF 1 \in Reported(x) THEN Count(x) - 1 ELSE Count(x)
      BY <3>1, FS_RemoveElement DEF Count
    <3> QED
      BY <1>5, <3>1, <3>2
  <2>2. f \in Bijection(rest, Reported(x)')
    <3>1. \A i \in rest : f[i] \in Reported(x)'
      BY <1>3, <1>5
    <3>2. \A i, j \in rest : f[i] = f[j] => i = j
      BY <2>1
    <3>3. \A j \in Reported(x)' : \E i \in rest : f[i] = j
      <4> SUFFICES ASSUME NEW j \in Reported(x)' PROVE j + 1 \in rest /\ f[j + 1] = j
        OBVIOUS
      <4> QED
        BY <1>3, <1>9
    <3> QED
      BY <3>1, <3>2, <3>3, Fun_IsBij, Zenon
  <2>3. Cardinality(Reported(x)') = Cardinality(rest)
    BY <2>1, <2>2, FS_Bijection DEF ExistsBijection
  <2> QED
    BY <2>1, <2>3 DEF Count
<1>18. \A x \in Ops : /\ c.kind = "op" /\ c.op = x => Count(x) > 0
                      /\ c = End(x) => Place(x) = "cq" /\ Count(x) = 1
  BY <1>5, <1>6, <1>12, Counted, Places, FS_Singleton DEF Count
<1> QED
  BY <1>1, <1>2, <1>14, <1>15, <1>16, <1>17, <1>18 DEF Rings, QueuedOnce, Hit

-----------------------------------------------------------------------------
(* The waiters.                                                            *)

FiredOf(f) == {o \in Ops : f[o].wait = "Fired"}

LEMMA Suffix ==
  ASSUME NEW S, NEW c \in Seq(S), NEW n \in Nat, n <= Len(c)
  PROVE  /\ SubSeq(c, n + 1, Len(c)) \in Seq(S) /\ Len(SubSeq(c, n + 1, Len(c))) = Len(c) - n
         /\ \A i \in 1..(Len(c) - n) : SubSeq(c, n + 1, Len(c))[i] = c[n + i]
<1> DEFINE m == Len(c)
           k == n + 1
<1>1. m \in Nat /\ DOMAIN c = 1..m /\ m \in Int /\ k \in Int /\ k = n + 1 /\ n <= m
  BY LenProperties
<1>2. \A i \in k..m : c[i] \in S
  BY <1>1, ElementOfSeq
<1> HIDE DEF m, k
<1>3. SubSeq(c, k, m) \in Seq(S)
  BY <1>1, <1>2, SubSeqProperties
<1>4. Len(SubSeq(c, k, m)) = m - n
  <2>1. CASE n < m
    <3>1. k <= m /\ m - k + 1 = m - n
      BY <1>1, <2>1
    <3>2. Len(SubSeq(c, k, m)) = IF k <= m THEN m - k + 1 ELSE 0
      BY <1>1, <1>2, SubSeqProperties
    <3> QED
      BY <3>1, <3>2
  <2>2. CASE n = m
    <3>1. m < k /\ m - n = 0
      BY <1>1, <2>2
    <3> QED
      BY <1>1, <3>1, SubSeqEmpty
  <2> QED
    BY <1>1, <2>1, <2>2
<1>5. \A i \in 1..(m - n) : SubSeq(c, k, m)[i] = c[n + i]
  <2>1. \A i \in 1..(m - k + 1) : SubSeq(c, k, m)[i] = c[k + i - 1]
    BY <1>1, <1>2, SubSeqProperties
  <2>2. \A i \in 1..(m - n) : k + i - 1 = n + i /\ i \in 1..(m - k + 1)
    BY <1>1
  <2> QED
    BY <2>1, <2>2
<1> QED
  BY <1>3, <1>4, <1>5 DEF m, k

LEMMA Fires ==
  ASSUME NEW f, f \in [Ops -> Operation], NEW who, NEW g, g = Fire(f, who)
  PROVE  /\ g \in [Ops -> Operation]
         /\ \A o \in Ops : /\ g[o] = IF o \in who THEN Told(f[o]) ELSE f[o]
                           /\ g[o].wait = IF o \in who THEN "Fired" ELSE f[o].wait
<1>1. \A r \in Operation : Told(r) \in Operation /\ Told(r).wait = "Fired"
  BY DEF Operation, Waiting, Told
<1>2. g = [o \in Ops |-> IF o \in who THEN Told(f[o]) ELSE f[o]]
  BY Zenon DEF Fire, Told
<1>3. \A o \in Ops : f[o] \in Operation
  OBVIOUS
<1> QED
  BY <1>1, <1>2, <1>3

LEMMA Notifies ==
  ASSUME IsFiniteSet(Ops), NEW f, f \in [Ops -> Operation], waiters \in Seq(Ops), Lists(f),
         ListedOnce, NEW n, n \in Nat, Notify(f, n)
  PROVE  /\ Waits' /\ \A o \in Ops : Alike(f[o], op'[o])
         /\ op' \in [Ops -> Operation]
         /\ n >= Len(waiters) => waiters' = <<>>
         /\ waiters' # <<>> =>
              waiters # <<>> /\ Cardinality(Fired)' = Cardinality(FiredOf(f)) + n
<1> DEFINE who == FirstWaiters(n)
<1>1. waiters \in Seq(Ops) /\ Len(waiters) \in Nat /\ DOMAIN waiters = 1..Len(waiters)
  BY LenProperties
<1>2. who = {waiters[i] : i \in {j \in DOMAIN waiters : j <= n}}
  BY DEF FirstWaiters
<1>3. \A o : o \in who <=> \E i \in 1..Len(waiters) : i <= n /\ waiters[i] = o
  BY <1>1, <1>2
<1>4. op' = Fire(f, who)
  BY DEF Notify
<1>5. who \subseteq Ops /\ \A o \in who : f[o].wait = "Linked"
  BY <1>1, <1>3 DEF Lists
<1> HIDE DEF who
<1>6. \A o \in Ops : Alike(f[o], op'[o])
  BY <1>4, <1>5, Fires DEF Alike
<1>7. \A o \in Ops : op'[o].wait = IF o \in who THEN "Fired" ELSE f[o].wait
  BY <1>4, Fires
<1>8. op' \in [Ops -> Operation]
  BY <1>4, Fires
<1>9. CASE n >= Len(waiters)
  <2>1. waiters' = <<>>
    BY <1>1, <1>9, SubSeqEmpty DEF Notify
  <2>2. waiters' \in Seq(Ops) /\ DOMAIN waiters' = {}
    BY <2>1
  <2>3. \A o \in Ops : op'[o].wait # "Linked"
    BY <1>1, <1>3, <1>7, <1>9 DEF Lists
  <2> QED
    BY <1>6, <1>8, <2>1, <2>2, <2>3 DEF Waits, Lists, ListedOnce
<1>10. CASE n < Len(waiters)
  <2>1. waiters' = SubSeq(waiters, n + 1, Len(waiters))
    BY DEF Notify
  <2>2. /\ waiters' \in Seq(Ops) /\ DOMAIN waiters' = 1..(Len(waiters) - n)
        /\ \A i \in 1..(Len(waiters) - n) : waiters'[i] = waiters[n + i]
    <3>1. n <= Len(waiters)
      BY <1>1, <1>10
    <3>2. /\ waiters' \in Seq(Ops) /\ Len(waiters') = Len(waiters) - n
          /\ \A i \in 1..(Len(waiters) - n) : waiters'[i] = waiters[n + i]
      BY <1>1, <2>1, <3>1, Suffix, Zenon
    <3> QED
      BY <3>2, LenProperties
  <2>3. ListedOnce'
    <3> SUFFICES ASSUME NEW i \in DOMAIN waiters', NEW j \in DOMAIN waiters',
                        waiters'[i] = waiters'[j]
                 PROVE  i = j
      BY DEF ListedOnce
    <3>1. n + i \in DOMAIN waiters /\ n + j \in DOMAIN waiters /\ waiters[n + i] = waiters[n + j]
      BY <1>1, <2>2
    <3> QED
      BY <2>2, <3>1 DEF ListedOnce
  <2>4. Lists(op)'
    <3> SUFFICES ASSUME NEW o \in Ops
                 PROVE  op'[o].wait = "Linked" <=> \E i \in DOMAIN waiters' : waiters'[i] = o
      BY DEF Lists
    <3>1. ASSUME NEW i \in DOMAIN waiters', waiters'[i] = o PROVE op'[o].wait = "Linked"
      <4>1. n + i \in DOMAIN waiters /\ waiters[n + i] = o
        BY <1>1, <2>2, <3>1
      <4>2. o \notin who
        BY <1>1, <1>3, <2>2, <4>1 DEF ListedOnce
      <4> QED
        BY <1>7, <4>1, <4>2 DEF Lists
    <3>2. ASSUME op'[o].wait = "Linked" PROVE \E i \in DOMAIN waiters' : waiters'[i] = o
      <4>1. o \notin who /\ f[o].wait = "Linked"
        BY <1>7, <3>2
      <4>2. PICK i \in DOMAIN waiters : waiters[i] = o
        BY <4>1 DEF Lists
      <4>3. i > n
        BY <1>1, <1>3, <4>1, <4>2
      <4>4. i - n \in DOMAIN waiters' /\ waiters'[i - n] = o
        BY <1>1, <2>2, <4>2, <4>3
      <4> QED
        BY <4>4
    <3> QED
      BY <3>1, <3>2
  <2>5. Cardinality(who) = n /\ IsFiniteSet(who)
    <3> DEFINE g == [i \in 1..n |-> waiters[i]]
    <3>1. g \in [1..n -> who]
      BY <1>1, <1>3, <1>10
    <3>2. \A i, j \in 1..n : g[i] = g[j] => i = j
      BY <1>1, <1>10 DEF ListedOnce
    <3>3. \A o \in who : \E i \in 1..n : g[i] = o
      BY <1>1, <1>3
    <3>4. g \in Bijection(1..n, who)
      BY <3>1, <3>2, <3>3, Fun_IsBij
    <3>5. IsFiniteSet(1..n) /\ Cardinality(1..n) = n
      <4>1. 1 \in Int /\ n \in Int
        OBVIOUS
      <4> QED
        BY <4>1, FS_Interval
    <3> QED
      BY <3>4, <3>5, FS_Bijection DEF ExistsBijection
  <2>6. Fired' = FiredOf(f) \cup who /\ FiredOf(f) \cap who = {}
    BY <1>5, <1>7 DEF Fired, FiredOf
  <2>7. IsFiniteSet(FiredOf(f)) /\ Cardinality(FiredOf(f)) \in Nat
    <3>1. FiredOf(f) \in SUBSET Ops
      BY DEF FiredOf
    <3> QED
      BY <3>1, FS_Subset, FS_CardinalityType
  <2>8. Cardinality(Fired') = Cardinality(FiredOf(f)) + n
    <3>1. Cardinality(FiredOf(f) \cup who)
            = Cardinality(FiredOf(f)) + Cardinality(who) - Cardinality(FiredOf(f) \cap who)
      BY <2>5, <2>7, FS_Union
    <3>2. Cardinality(FiredOf(f) \cap who) = 0
      BY <2>6, FS_EmptySet
    <3> QED
      BY <2>5, <2>6, <2>7, <3>1, <3>2
  <2>9. waiters # <<>>
    BY <1>1, <1>10
  <2> QED
    BY <1>1, <1>6, <1>8, <1>10, <2>2, <2>3, <2>4, <2>8, <2>9 DEF Waits
<1> QED
  BY <1>1, <1>9, <1>10

(* Nobody starts to wait, or ceases to. *)
LEMMA SameWaits ==
  ASSUME Waits, UNCHANGED waiters, \A o \in Ops : op'[o].wait = op[o].wait
  PROVE  Waits' /\ Fired' = Fired
BY DEF Waits, Lists, ListedOnce, Fired

(* One joins the list. *)
LEMMA Links ==
  ASSUME Waits, NEW o \in Ops, op[o].wait # "Linked", waiters' = Append(waiters, o),
         op'[o].wait = "Linked", \A x \in Ops : x # o => op'[x].wait = op[x].wait
  PROVE  Waits'
<1>1. /\ waiters' \in Seq(Ops) /\ Len(waiters) \in Nat /\ DOMAIN waiters = 1..Len(waiters)
      /\ DOMAIN waiters' = 1..(Len(waiters) + 1) /\ waiters'[Len(waiters) + 1] = o
      /\ \A i \in 1..Len(waiters) : waiters'[i] = waiters[i]
  BY AppendProperties, LenProperties DEF Waits
<1>2. \A i \in DOMAIN waiters : waiters[i] # o
  BY DEF Waits, Lists
<1>3. Lists(op)'
  BY <1>1, <1>2 DEF Waits, Lists
<1>4. ListedOnce'
  BY <1>1, <1>2 DEF Waits, ListedOnce
<1> QED
  BY <1>1, <1>3, <1>4 DEF Waits

(* A sequence without its k-th element. *)
Without(c, k) == SubSeq(c, 1, k - 1) \o SubSeq(c, k + 1, Len(c))

LEMMA Removed ==
  ASSUME NEW S, NEW c \in Seq(S), NEW k \in 1..Len(c)
  PROVE  /\ Without(c, k) \in Seq(S) /\ DOMAIN Without(c, k) = 1..(Len(c) - 1)
         /\ \A i \in 1..(Len(c) - 1) : Without(c, k)[i] = IF i < k THEN c[i] ELSE c[i + 1]
<1> DEFINE a == SubSeq(c, 1, k - 1)
           b == SubSeq(c, k + 1, Len(c))
           n == Len(c)
           d == Without(c, k)
<1>1. n \in Nat /\ DOMAIN c = 1..n
  BY LenProperties
<1>2. \A i \in 1..n : c[i] \in S
  BY <1>1, ElementOfSeq
<1>3. k \in Int /\ k - 1 \in Int /\ k + 1 \in Int /\ n \in Int /\ 1 \in Int
  BY <1>1
<1>4. a \in Seq(S) /\ Len(a) = k - 1 /\ \A i \in 1..(k - 1) : a[i] = c[i]
  <2>1. k - 1 \in Nat /\ k - 1 <= n
    BY <1>1
  <2>2. a \in Seq(S) /\ Len(a) = k - 1
    BY <2>1, Prefix
  <2>3. \A i \in 1..(k - 1) : c[i] \in S
    BY <1>1, <1>2
  <2> QED
    BY <1>3, <2>2, <2>3, SubSeqProperties
<1>5. b \in Seq(S) /\ Len(b) = n - k /\ \A i \in 1..(n - k) : b[i] = c[k + i]
  <2>1. k \in Nat /\ k <= n
    BY <1>1
  <2> QED
    BY <2>1, Suffix
<1>6. n \in Nat /\ k \in 1..n
  BY <1>1
<1>7. d = a \o b
  BY DEF Without
<1> SUFFICES /\ d \in Seq(S) /\ DOMAIN d = 1..(n - 1)
             /\ \A i \in 1..(n - 1) : d[i] = IF i < k THEN c[i] ELSE c[i + 1]
  OBVIOUS
<1> HIDE DEF a, b, n, d
<1>8. /\ d \in Seq(S) /\ Len(d) = Len(a) + Len(b)
      /\ \A i \in 1..(Len(a) + Len(b)) : d[i] = IF i <= Len(a) THEN a[i] ELSE b[i - Len(a)]
  <2>1. /\ a \o b \in Seq(S) /\ Len(a \o b) = Len(a) + Len(b)
        /\ \A i \in 1..(Len(a) + Len(b)) : (a \o b)[i] = IF i <= Len(a) THEN a[i] ELSE b[i - Len(a)]
    BY <1>4, <1>5, ConcatProperties
  <2> QED
    BY <1>7, <2>1, Zenon
<1>9. Len(a) + Len(b) = n - 1 /\ Len(a) = k - 1
  BY <1>4, <1>5, <1>6
<1>10. ASSUME NEW i \in 1..(n - 1)
       PROVE  d[i] = IF i < k THEN c[i] ELSE c[i + 1]
  <2>1. CASE i < k
    <3>1. i \in 1..(k - 1) /\ i <= Len(a) /\ i \in 1..(Len(a) + Len(b))
      BY <1>6, <1>9, <2>1
    <3> QED
      BY <1>4, <1>8, <2>1, <3>1
  <2>2. CASE ~(i < k)
    <3>1. ~(i <= Len(a)) /\ i \in 1..(Len(a) + Len(b)) /\ i - Len(a) \in 1..(n - k)
          /\ k + (i - Len(a)) = i + 1
      BY <1>6, <1>9, <2>2
    <3> QED
      BY <1>5, <1>8, <2>2, <3>1
  <2> QED
    BY <2>1, <2>2
<1> QED
  BY <1>8, <1>9, <1>10, LenProperties

LEMMA Unlinked ==
  ASSUME waiters \in Seq(Ops), NEW o, Unlink(o)
  PROVE  /\ waiters' \in Seq(Ops)
         /\ \E k \in DOMAIN waiters :
              /\ waiters[k] = o /\ DOMAIN waiters' = 1..(Len(waiters) - 1)
              /\ \A i \in 1..(Len(waiters) - 1) :
                   waiters'[i] = IF i < k THEN waiters[i] ELSE waiters[i + 1]
<1>1. DOMAIN waiters = 1..Len(waiters)
  BY LenProperties
<1>2. PICK k \in 1..Len(waiters) :
        /\ waiters[k] = o
        /\ waiters' = SubSeq(waiters, 1, k - 1) \o SubSeq(waiters, k + 1, Len(waiters))
  BY <1>1 DEF Unlink
<1>3. /\ waiters' \in Seq(Ops) /\ DOMAIN waiters' = 1..(Len(waiters) - 1)
      /\ \A i \in 1..(Len(waiters) - 1) : waiters'[i] = IF i < k THEN waiters[i] ELSE waiters[i + 1]
  <2>1. waiters' = Without(waiters, k)
    BY <1>2 DEF Without
  <2> QED
    BY <2>1, Removed
<1>4. k \in DOMAIN waiters
  BY <1>1
<1> QED
  BY <1>2, <1>3, <1>4, Zenon

(* One leaves it. *)
LEMMA Unlinks ==
  ASSUME Waits, NEW o \in Ops, Unlink(o),
         op'[o].wait = "none", \A x \in Ops : x # o => op'[x].wait = op[x].wait
  PROVE  Waits' /\ waiters # <<>>
<1> DEFINE n == Len(waiters)
<1>1. n \in Nat /\ DOMAIN waiters = 1..n
  BY LenProperties DEF Waits
<1>2. PICK k \in DOMAIN waiters :
        /\ waiters[k] = o /\ DOMAIN waiters' = 1..(n - 1)
        /\ \A i \in 1..(n - 1) : waiters'[i] = IF i < k THEN waiters[i] ELSE waiters[i + 1]
  BY Unlinked DEF Waits
<1>3. waiters' \in Seq(Ops)
  BY Unlinked DEF Waits
<1> HIDE DEF n
<1> DEFINE from(i) == IF i < k THEN i ELSE i + 1
<1>4. \A i \in DOMAIN waiters' :
         from(i) \in DOMAIN waiters /\ from(i) # k /\ waiters'[i] = waiters[from(i)]
  BY <1>1, <1>2
<1>5. \A i, j \in DOMAIN waiters' : from(i) = from(j) => i = j
  BY <1>1, <1>2
<1> HIDE DEF from
<1>6. ListedOnce'
  <2> SUFFICES ASSUME NEW i \in DOMAIN waiters', NEW j \in DOMAIN waiters',
                      waiters'[i] = waiters'[j]
               PROVE  i = j
    BY DEF ListedOnce
  <2> QED
    BY <1>4, <1>5 DEF Waits, ListedOnce
<1>7. \A i \in DOMAIN waiters' : waiters'[i] # o
  BY <1>1, <1>2, <1>4 DEF Waits, ListedOnce
<1>8. Lists(op)'
  <2> SUFFICES ASSUME NEW x \in Ops
               PROVE  op'[x].wait = "Linked" <=> \E i \in DOMAIN waiters' : waiters'[i] = x
    BY DEF Lists
  <2>1. CASE x = o
    BY <1>7, <2>1
  <2>2. CASE x # o
    <3>1. ASSUME NEW i \in DOMAIN waiters', waiters'[i] = x PROVE op'[x].wait = "Linked"
      <4>1. \E j \in DOMAIN waiters : waiters[j] = x
        BY <1>1, <1>2, <3>1
      <4> QED
        BY <2>2, <4>1 DEF Waits, Lists
    <3>2. ASSUME op'[x].wait = "Linked" PROVE \E i \in DOMAIN waiters' : waiters'[i] = x
      <4>1. PICK j \in DOMAIN waiters : waiters[j] = x
        BY <2>2, <3>2 DEF Waits, Lists
      <4>2. j # k
        BY <1>2, <2>2, <4>1
      <4>3. CASE j < k
        BY <1>1, <1>2, <4>1, <4>3
      <4>4. CASE j > k
        <5>1. j - 1 \in DOMAIN waiters' /\ waiters'[j - 1] = x
          BY <1>1, <1>2, <4>1, <4>4
        <5> QED
          BY <5>1
      <4> QED
        BY <1>1, <4>2, <4>3, <4>4
    <3> QED
      BY <3>1, <3>2
  <2> QED
    BY <2>1, <2>2
<1> QED
  BY <1>3, <1>6, <1>8 DEF Waits

-----------------------------------------------------------------------------
(* What the steps share.                                                   *)

LEMMA SomeFired ==
  ASSUME OperationsAssumption, NEW f
  PROVE  /\ IsFiniteSet(FiredOf(f)) /\ Cardinality(FiredOf(f)) \in Nat
         /\ IsFiniteSet(Fired) /\ Cardinality(Fired) \in Nat /\ Fired = FiredOf(op)
<1>1. FiredOf(f) \in SUBSET Ops /\ Fired \in SUBSET Ops
  BY DEF FiredOf, Fired
<1> QED
  BY <1>1, FS_Subset, FS_CardinalityType DEF OperationsAssumption, Fired, FiredOf

LEMMA HitIsPlaced ==
  ASSUME Rings, NEW o \in Hit
  PROVE  o \in Ops /\ Place(o) \in {"sq", "kernel"}
<1>1. PICK i \in DOMAIN sq : o \in armed \/ \E j \in 1..(i - 1) : sq[j] = OpEntry(o)
  BY DEF Hit
<1>2. o \in Ops
  BY DEF Hit
<1>3. DOMAIN sq = 1..Len(sq) /\ Len(sq) \in Nat
  BY LenProperties DEF Rings
<1>4. o \in armed \/ Queues(o)
  BY <1>1, <1>3 DEF Queues
<1> QED
  BY <1>2, <1>4, Places

(* Nothing of the operations and the queues changes. *)
LEMMA Rests ==
  ASSUME Core, UNCHANGED <<op, sq, cq, armed, waiters>>
  PROVE  Core' /\ Fired' = Fired
<1>1. /\ Rings' /\ Hit' = Hit
      /\ \A o \in Ops : Place(o)' = Place(o) /\ Count(o)' = Count(o)
  BY Untouched DEF Core
<1>2. Waits' /\ Fired' = Fired
  BY SameWaits DEF Core
<1>3. Local'
  BY <1>1 DEF Core, Local
<1>4. Aimed'
  BY <1>1 DEF Core, Aimed
<1> QED
  BY <1>1, <1>2, <1>3, <1>4 DEF Core

(* A future does something with its memory alone. *)
LEMMA Updates ==
  ASSUME Core, NEW o \in Ops, NEW s, op' = [op EXCEPT ![o] = s], UNCHANGED <<sq, cq, armed, waiters>>,
         Good(o, s, Place(o), Count(o)), s.wait = op[o].wait, o \in Hit => s.stage = "dropped"
  PROVE  Core' /\ Fired' = Fired
<1>1. /\ Rings' /\ Hit' = Hit
      /\ \A x \in Ops : Place(x)' = Place(x) /\ Count(x)' = Count(x)
  BY Untouched DEF Core
<1>2. op' \in [Ops -> Operation] /\ \A x \in Ops : op'[x] = IF x = o THEN s ELSE op[x]
  BY DEF Core, Local, Good
<1>3. Waits' /\ Fired' = Fired
  BY <1>2, SameWaits DEF Core
<1>4. Local'
  BY <1>1, <1>2 DEF Core, Local
<1>5. Aimed'
  BY <1>1, <1>2, HitIsPlaced DEF Core, Aimed
<1> QED
  BY <1>1, <1>3, <1>4, <1>5 DEF Core

(* Waiters are notified, when the queues and the memory are as they are to *)
(* be.                                                                     *)
LEMMA Tells ==
  ASSUME OperationsAssumption, Rings', waiters \in Seq(Ops), ListedOnce,
         NEW f, f \in [Ops -> Operation], Lists(f), NEW n, n \in Nat, Notify(f, n),
         \A x \in Ops : Good(x, f[x], Place(x)', Count(x)'),
         \A x \in Hit' : f[x].stage = "dropped"
  PROVE  /\ Core' /\ \A x \in Ops : op'[x].stage = f[x].stage
         /\ n >= Len(waiters) => waiters' = <<>>
         /\ waiters' # <<>> =>
              waiters # <<>> /\ Cardinality(Fired)' = Cardinality(FiredOf(f)) + n
<1>1. /\ Waits' /\ \A x \in Ops : Alike(f[x], op'[x])
      /\ op' \in [Ops -> Operation]
      /\ n >= Len(waiters) => waiters' = <<>>
      /\ waiters' # <<>> =>
           waiters # <<>> /\ Cardinality(Fired)' = Cardinality(FiredOf(f)) + n
  BY Notifies DEF OperationsAssumption
<1>2. \A x \in Ops : Good(x, op'[x], Place(x)', Count(x)') /\ op'[x].stage = f[x].stage
  <2>1. ASSUME NEW x \in Ops PROVE Good(x, op'[x], Place(x)', Count(x)') /\ op'[x].stage = f[x].stage
    <3>1. Good(x, f[x], Place(x)', Count(x)') /\ Alike(f[x], op'[x])
      BY <1>1
    <3> DEFINE r == f[x]  s == op'[x]  p == Place(x)'  c == Count(x)'
    <3>2. Good(x, r, p, c) /\ Alike(r, s)
      BY <3>1
    <3> HIDE DEF r, s, p, c
    <3>3. Good(x, s, p, c) /\ s.stage = r.stage
      BY <3>2, AlikeIsGood
    <3> QED
      BY <3>3 DEF r, s, p, c
  <2> QED
    BY <2>1
<1>3. Local'
  BY <1>1, <1>2 DEF Local
<1>4. Aimed'
  BY <1>2 DEF Aimed, Hit
<1> QED
  BY <1>1, <1>2, <1>3, <1>4 DEF Core

(* The queue is submitted: the kernel takes all, waiters are notified.     *)
LEMMA Submits ==
  ASSUME OperationsAssumption, Core, armed' = armed \cup Submitted, UNCHANGED cq,
         sq' \in Seq(Entry), Len(sq') <= SqSize, \A x \in Ops : \A i \in DOMAIN sq' : sq'[i] # OpEntry(x),
         NEW f, f \in [Ops -> Operation], Lists(f), NEW n, n \in Nat, Notify(f, n),
         \A x \in Ops : Good(x, f[x], Place(x), Count(x)),
         \A x \in Hit' : f[x].stage = "dropped"
  PROVE  /\ Core' /\ \A x \in Ops : op'[x].stage = f[x].stage
         /\ n >= Len(waiters) => waiters' = <<>>
         /\ waiters' # <<>> =>
              waiters # <<>> /\ Cardinality(Fired)' = Cardinality(FiredOf(f)) + n
<1>1. /\ Rings'
      /\ \A x \in Ops : /\ Place(x)' = IF Place(x) = "sq" THEN "kernel" ELSE Place(x)
                        /\ Count(x)' = Count(x)
  BY Takes DEF Core, OperationsAssumption
<1>2. \A x \in Ops : Good(x, f[x], Place(x)', Count(x)')
  BY <1>1, TakenIsGood
<1>3. waiters \in Seq(Ops) /\ ListedOnce
  BY DEF Core, Waits
<1> QED
  BY <1>1, <1>2, <1>3, Tells

-----------------------------------------------------------------------------
(* The futures.                                                            *)

LEMMA Here ==
  ASSUME Core, NEW o \in Ops
  PROVE  /\ Good(o, op[o], Place(o), Count(o)) /\ op[o] \in Operation
         /\ Count(o) \in Nat /\ Place(o) \in {"sq", "kernel", "cq", "none"}
         /\ o \in Hit => op[o].stage = "dropped" /\ Place(o) \in {"sq", "kernel"}
BY Counted, Places, HitIsPlaced DEF Core, Local, Aimed

(* A future that is new, or that looks for results, or goes after them.    *)
LEMMA FutureSteps ==
  ASSUME Core, NEW o \in Ops, New(o) \/ PollFuture(o) \/ PollStream(o) \/ DropCompleted(o)
  PROVE  Core' /\ Fired' = Fired /\ UNCHANGED <<waiters, sq, kernel, unsent, thread>>
<1> DEFINE r == op[o]  p == Place(o)  n == Count(o)
<1>1. /\ Good(o, r, p, n) /\ r \in Operation /\ n \in Nat /\ p \in {"sq", "kernel", "cq", "none"}
      /\ o \in Hit => r.stage = "dropped" /\ p \in {"sq", "kernel"}
  BY Here
<1>2. ASSUME NEW s, op' = [op EXCEPT ![o] = s], Good(o, s, p, n), s.wait = r.wait,
             p = "none" \/ r.stage # "dropped", UNCHANGED <<waiters, sq, kernel, unsent, thread>>
      PROVE  Core' /\ Fired' = Fired /\ UNCHANGED <<waiters, sq, kernel, unsent, thread>>
  BY <1>1, <1>2, Updates DEF kernel
<1>3. CASE New(o)
  <2> DEFINE s == [Unused EXCEPT !.stage = "unsubmitted", !.woken = TRUE, !.refcount = 2,
                                 !.data = TRUE]
  <2>1. op' = [op EXCEPT ![o] = s] /\ UNCHANGED <<waiters, sq, kernel, unsent, thread>>
        /\ r.refcount = 0
    BY <1>3 DEF New
  <2>2. Good(o, s, p, n) /\ s.wait = r.wait /\ p = "none"
    <3> HIDE DEF r, p, n
    <3>1. Good(o, s, p, n) /\ s.wait = "none" /\ r.wait = "none" /\ p = "none"
      BY <1>1, <2>1, NewIsGood
    <3> QED
      BY <3>1
  <2> HIDE DEF s
  <2> QED
    BY <1>2, <2>1, <2>2
<1>4. CASE PollFuture(o)
  <2>1. r.stage = "submitted" /\ o \notin Multi
    BY <1>4 DEF PollFuture
  <2>2. CASE r.complete
    <3> DEFINE s == Finished(r)
    <3>1. op' = [op EXCEPT ![o] = s] /\ UNCHANGED <<waiters, sq, kernel, unsent, status, sleep, entered>>
          /\ at' = IF r.data /\ InOrder(r.completions) THEN at ELSE "crashed"
      BY <1>4, <2>2 DEF PollFuture, Finished
    <3>2. r.data /\ Ordered(r) /\ r.completions \in Seq(BOOLEAN)
      BY <1>1, <2>1 DEF Good, Operation
    <3>3. InOrder(r.completions)
      <4>1. DOMAIN r.completions = 1..Len(r.completions) /\ Len(r.completions) \in Nat
        BY <3>2, LenProperties
      <4>2. \A i \in DOMAIN r.completions : i < Len(r.completions) <=> i # Len(r.completions)
        BY <4>1
      <4>3. \A i \in DOMAIN r.completions : r.completions[i] <=> i < Len(r.completions)
        BY <2>2, <3>2, <4>2 DEF Ordered
      <4> QED
        BY <2>2, <3>2, <4>3 DEF Ordered, InOrder
    <3>4. Good(o, s, p, n) /\ s.wait = r.wait
      <4> HIDE DEF r, p, n
      <4> QED
        BY <1>1, <2>1, <2>2, FinishIsGood
    <3> HIDE DEF s
    <3> QED
      BY <1>2, <2>1, <3>1, <3>2, <3>3, <3>4 DEF thread
  <2>3. CASE ~r.complete
    <3> DEFINE s == Pend(r)
    <3>1. op' = [op EXCEPT ![o] = s] /\ UNCHANGED <<waiters, sq, kernel, unsent, thread>>
      BY <1>4, <2>3 DEF PollFuture, thread
    <3>2. Good(o, s, p, n) /\ s.wait = r.wait
      <4> HIDE DEF r, p, n
      <4> QED
        BY <1>1, <2>1, <2>3, PendIsGood
    <3> HIDE DEF s
    <3> QED
      BY <1>2, <2>1, <3>1, <3>2
  <2> QED
    BY <2>2, <2>3
<1>5. CASE PollStream(o)
  <2>1. r.stage = "submitted" /\ o \in Multi /\ r.data
    BY <1>1, <1>5 DEF PollStream, Good
  <2>2. CASE r.completions # <<>>
    <3> DEFINE s == [r EXCEPT !.woken = TRUE, !.held = @ - 1,
                              !.completions = SubSeq(@, 1, Len(@) - 1)]
    <3>1. op' = [op EXCEPT ![o] = s] /\ UNCHANGED <<waiters, sq, kernel, unsent, thread>>
      BY <1>5, <2>1, <2>2 DEF PollStream, thread
    <3>2. Good(o, s, p, n) /\ s.wait = r.wait
      <4> HIDE DEF r, p, n
      <4> QED
        BY <1>1, <2>1, <2>2, TakeOneIsGood, Zenon
    <3> HIDE DEF s
    <3> QED
      BY <1>2, <2>1, <3>1, <3>2
  <2>3. CASE r.completions = <<>> /\ r.complete
    <3> DEFINE s == Ended(r)
    <3>1. op' = [op EXCEPT ![o] = s] /\ UNCHANGED <<waiters, sq, kernel, unsent, thread>>
      BY <1>5, <2>3 DEF PollStream, thread, Ended
    <3>2. Good(o, s, p, n) /\ s.wait = r.wait
      <4> HIDE DEF r, p, n
      <4> QED
        BY <1>1, <2>1, <2>3, EndIsGood
    <3> HIDE DEF s
    <3> QED
      BY <1>2, <2>1, <3>1, <3>2
  <2>4. CASE r.completions = <<>> /\ ~r.complete
    <3> DEFINE s == Pend(r)
    <3>1. op' = [op EXCEPT ![o] = s] /\ UNCHANGED <<waiters, sq, kernel, unsent, thread>>
      BY <1>5, <2>4 DEF PollStream, thread
    <3>2. Good(o, s, p, n) /\ s.wait = r.wait
      <4> HIDE DEF r, p, n
      <4> QED
        BY <1>1, <2>1, <2>4, PendIsGood
    <3> HIDE DEF s
    <3> QED
      BY <1>2, <2>1, <3>1, <3>2
  <2> QED
    BY <2>2, <2>3, <2>4
<1>6. CASE DropCompleted(o)
  <2> DEFINE d == [r EXCEPT !.stage = "dropped"]
  <2>1. r.stage = "completed" /\ op' = [op EXCEPT ![o] = Unref(d)]
        /\ UNCHANGED <<waiters, sq, kernel, unsent, status, sleep, entered>>
        /\ at' = IF UnrefOk(r) THEN at ELSE "crashed"
    BY <1>6 DEF DropCompleted
  <2>2. Good(o, Unref(d), p, n) /\ UnrefOk(r) /\ Unref(d).wait = r.wait
    <3> HIDE DEF r, p, n
    <3> QED
      BY <1>1, <2>1, DropIsGood, Zenon
  <2> HIDE DEF d
  <2> QED
    BY <1>2, <2>1, <2>2 DEF thread
<1> QED
  BY <1>3, <1>4, <1>5, <1>6

(* A future that looks for room waits, or takes it. *)
LEMMA RoomSteps ==
  ASSUME OperationsAssumption, Core, Offered, NEW o \in Ops, PollUnsubmitted(o)
  PROVE  Core' /\ Offered' /\ UNCHANGED <<kernel, unsent, thread>>
<1> DEFINE r == op[o]  p == Place(o)  n == Count(o)
<1>1. /\ Good(o, r, p, n) /\ r \in Operation /\ n \in Nat /\ p \in {"sq", "kernel", "cq", "none"}
      /\ o \in Hit => r.stage = "dropped" /\ p \in {"sq", "kernel"}
  BY Here
<1>2. /\ at = "run" /\ status = "running" /\ r.stage = "unsubmitted"
      /\ UNCHANGED <<kernel, unsent, thread>>
  BY DEF PollUnsubmitted, Polls
<1>3. /\ SqSize \in Nat /\ Len(sq) \in Nat /\ Cardinality(Fired) \in Nat /\ Cardinality(Fired') \in Nat
      /\ IsFiniteSet(Fired)
  <2>1. Fired' = FiredOf(op')
    BY DEF Fired, FiredOf
  <2> QED
    BY <2>1, SomeFired, LenProperties DEF OperationsAssumption, Core, Rings
<1>4. op \in [Ops -> Operation]
  BY DEF Core, Local
<1>5. CASE r.wait = "Linked"
  <2> DEFINE s == Waiter(r)
  <2>1. op' = [op EXCEPT ![o] = s] /\ UNCHANGED <<waiters, sq>>
    BY <1>4, <1>5 DEF PollUnsubmitted, Waiter
  <2>2. Good(o, s, p, n) /\ s.wait = r.wait
    <3> HIDE DEF r, p, n
    <3> QED
      BY <1>1, <1>2, <1>5, WaitIsGood
  <2> HIDE DEF s
  <2>3. Core' /\ Fired' = Fired
    BY <1>1, <1>2, <2>1, <2>2, Updates DEF kernel
  <2> QED
    BY <1>2, <2>1, <2>3 DEF Offered, thread
<1>6. CASE r.wait # "Linked" /\ ~Room
  <2> DEFINE s == Waiter(r)
  <2>1. op' = [op EXCEPT ![o] = s] /\ waiters' = Append(waiters, o) /\ UNCHANGED sq
    BY <1>4, <1>6 DEF PollUnsubmitted, Waiter
  <2>2. Good(o, s, p, n) /\ s.wait = "Linked"
    <3> HIDE DEF r, p, n
    <3> QED
      BY <1>1, <1>2, WaitIsGood
  <2> HIDE DEF s
  <2>3. op' \in [Ops -> Operation] /\ \A x \in Ops : op'[x] = IF x = o THEN s ELSE op[x]
    BY <1>4, <2>1, <2>2 DEF Good
  <2>4. /\ Rings' /\ Hit' = Hit
        /\ \A x \in Ops : Place(x)' = Place(x) /\ Count(x)' = Count(x)
    BY <1>2, <2>1, Untouched DEF Core, kernel
  <2>5. Waits'
    BY <1>6, <2>1, <2>2, <2>3, Links DEF Core
  <2>6. Local'
    BY <2>2, <2>3, <2>4 DEF Core, Local
  <2>7. Aimed'
    BY <1>1, <1>2, <2>3, <2>4, HitIsPlaced DEF Core, Aimed
  <2>8. Offered'
    BY <1>2, <1>3, <1>6, <2>1 DEF Offered, Room, thread
  <2> QED
    BY <1>2, <2>4, <2>5, <2>6, <2>7, <2>8 DEF Core
<1>7. CASE r.wait # "Linked" /\ Room
  <2> DEFINE s == Pushed(r)
  <2>1. op' = [op EXCEPT ![o] = s] /\ sq' = Append(sq, OpEntry(o)) /\ UNCHANGED waiters
    BY <1>4, <1>7 DEF PollUnsubmitted, Pushed
  <2>2. p = "none" /\ Good(o, s, "sq", n) /\ s.wait = "none" /\ s.stage = "submitted"
    <3> HIDE DEF r, p, n
    <3> QED
      BY <1>1, <1>2, PushIsGood
  <2> HIDE DEF s
  <2>3. op' \in [Ops -> Operation] /\ \A x \in Ops : op'[x] = IF x = o THEN s ELSE op[x]
    BY <1>4, <2>1, <2>2 DEF Good
  <2>4. /\ Rings' /\ Hit' \subseteq Hit /\ Len(sq') = Len(sq) + 1
        /\ \A x \in Ops : Place(x)' = (IF x = o THEN "sq" ELSE Place(x)) /\ Count(x)' = Count(x)
    <3>1. /\ OpEntry(o) \in Entry
          /\ \A x \in Ops : OpEntry(o) # CancelEntry(x) /\ (OpEntry(o) = OpEntry(x) <=> x = o)
      BY Entries
    <3> QED
      BY <1>2, <1>3, <1>7, <2>1, <2>2, <3>1, Pushes DEF Core, kernel
  <2>5. Waits'
    BY <1>7, <2>1, <2>2, <2>3 DEF Core, Waits, Lists, ListedOnce
  <2>6. Local'
    BY <2>2, <2>3, <2>4 DEF Core, Local
  <2>7. Aimed'
    BY <1>1, <1>2, <2>3, <2>4, HitIsPlaced DEF Core, Aimed
  <2>8. Cardinality(Fired') + 1 >= Cardinality(Fired)
    <3>1. Fired' = Fired \ {o}
      BY <2>2, <2>3 DEF Fired
    <3> QED
      <4>1. CASE o \in Fired
        <5>1. Cardinality(Fired \ {o}) = Cardinality(Fired) - 1
          BY <1>3, <4>1, FS_RemoveElement
        <5> QED
          BY <1>3, <3>1, <5>1
      <4>2. CASE o \notin Fired
        <5>1. Fired' = Fired
          BY <3>1, <4>2
        <5> QED
          BY <1>3, <5>1
      <4> QED
        BY <4>1, <4>2
  <2>9. Offered'
    BY <1>2, <1>3, <2>1, <2>4, <2>8 DEF Offered, thread
  <2> QED
    BY <1>2, <2>4, <2>5, <2>6, <2>7, <2>9 DEF Core
<1> QED
  BY <1>5, <1>6, <1>7

(* A future that goes without having been pushed. *)
LEMMA DropUnsubmittedStep ==
  ASSUME OperationsAssumption, Core, Offered, NEW o \in Ops, DropUnsubmitted(o)
  PROVE  Core' /\ Offered' /\ UNCHANGED <<kernel, unsent, thread>>
<1> DEFINE r == op[o]  gone == [op EXCEPT ![o] = Unused]
<1>1. /\ Good(o, r, Place(o), Count(o)) /\ r \in Operation
      /\ o \in Hit => r.stage = "dropped" /\ Place(o) \in {"sq", "kernel"}
      /\ Place(o) \in {"sq", "kernel", "cq", "none"} /\ Count(o) \in Nat
  BY Here
<1>2. /\ at \in {"run", "stopped"} /\ r.stage = "unsubmitted"
      /\ UNCHANGED <<sq, kernel, unsent, thread>>
      /\ \/ r.wait = "none" /\ op' = gone /\ UNCHANGED waiters
         \/ r.wait = "Linked" /\ op' = gone /\ Unlink(o)
         \/ r.wait = "Fired" /\ Notify(gone, 1)
  BY DEF DropUnsubmitted, Drops
<1>3. op \in [Ops -> Operation]
  BY DEF Core, Local
<1>4. Place(o) = "none" /\ Count(o) = 0 /\ o \notin Hit
  BY <1>1, <1>2 DEF Good
<1>5. Good(o, Unused, Place(o), Count(o)) /\ Unused.stage = "none" /\ Unused.wait = "none"
  BY <1>4, UnusedIsGood
<1>6. gone \in [Ops -> Operation] /\ \A x \in Ops : gone[x] = IF x = o THEN Unused ELSE op[x]
  BY <1>3, <1>5 DEF Good
<1> HIDE DEF gone
<1>7. /\ Rings' /\ Hit' = Hit
      /\ \A x \in Ops : Place(x)' = Place(x) /\ Count(x)' = Count(x)
  BY <1>2, Untouched DEF Core, kernel
<1>8. \A x \in Ops : Good(x, gone[x], Place(x)', Count(x)')
  BY <1>5, <1>6, <1>7 DEF Core, Local
<1>9. \A x \in Hit' : gone[x].stage = "dropped"
  BY <1>4, <1>6, <1>7, HitIsPlaced DEF Core, Aimed
<1>10. /\ SqSize \in Nat /\ Len(sq) \in Nat /\ Cardinality(Fired) \in Nat
       /\ IsFiniteSet(Fired)
  BY SomeFired, LenProperties DEF OperationsAssumption, Core, Rings
<1>11. CASE op' = gone /\ r.wait # "Fired"
  <2>1. Local' /\ Aimed'
    BY <1>6, <1>8, <1>9, <1>11 DEF Local, Aimed
  <2>2. CASE r.wait = "Linked" /\ Unlink(o)
    <3>1. Waits' /\ waiters # <<>>
      BY <1>5, <1>6, <1>11, <2>2, Unlinks DEF Core
    <3>2. Fired' = Fired
      BY <1>5, <1>6, <1>11, <2>2 DEF Fired
    <3> QED
      BY <1>2, <1>7, <2>1, <3>1, <3>2 DEF Core, Offered, thread
  <2>3. CASE r.wait = "none" /\ UNCHANGED waiters
    <3>1. Waits' /\ Fired' = Fired
      BY <1>5, <1>6, <1>11, <2>3, SameWaits DEF Core
    <3> QED
      BY <1>2, <1>7, <2>1, <2>3, <3>1 DEF Core, Offered, thread
  <2> QED
    BY <1>2, <1>11, <2>2, <2>3
<1>12. CASE r.wait = "Fired" /\ Notify(gone, 1)
  <2>1. Lists(gone) /\ waiters \in Seq(Ops) /\ ListedOnce
    BY <1>5, <1>6, <1>12 DEF Core, Waits, Lists
  <2>2. /\ Core'
        /\ waiters' # <<>> =>
             waiters # <<>> /\ Cardinality(Fired)' = Cardinality(FiredOf(gone)) + 1
    BY <1>6, <1>7, <1>8, <1>9, <1>12, <2>1, Tells
  <2>3. FiredOf(gone) = Fired \ {o} /\ o \in Fired
    BY <1>5, <1>6, <1>12 DEF FiredOf, Fired
  <2>4. Cardinality(FiredOf(gone)) = Cardinality(Fired) - 1
    BY <1>10, <2>3, FS_RemoveElement
  <2> QED
    BY <1>2, <1>10, <2>2, <2>4 DEF Offered, thread
<1> QED
  BY <1>2, <1>11, <1>12

(* The queue is submitted, and if anything follows it is not an operation. *)
LEMMA OneEntry ==
  ASSUME OperationsAssumption, NEW q,
         q \in {<<>>, <<OtherEntry>>, <<DrainEntry>>} \cup {<<CancelEntry(o)>> : o \in Ops}
  PROVE  /\ q \in Seq(Entry) /\ Len(q) <= SqSize /\ Len(q) <= 1 /\ Len(q) \in Nat
         /\ DOMAIN q = 1..Len(q)
         /\ \A x : \A i \in DOMAIN q : q[i] # OpEntry(x)
<1>1. SqSize \in Nat /\ SqSize >= 1
  BY DEF OperationsAssumption
<1>2. CASE q = <<>>
  BY <1>2
<1>3. ASSUME NEW e \in Entry, q = <<e>>, \A x : e # OpEntry(x)
      PROVE  /\ q \in Seq(Entry) /\ Len(q) = 1 /\ DOMAIN q = 1..Len(q)
             /\ \A x : \A i \in DOMAIN q : q[i] # OpEntry(x)
  BY <1>3
<1>4. CASE q = <<OtherEntry>>
  BY <1>1, <1>3, <1>4, Entries
<1>5. CASE q = <<DrainEntry>>
  BY <1>1, <1>3, <1>5, Entries
<1>6. ASSUME NEW o \in Ops, q = <<CancelEntry(o)>>
      PROVE  /\ q \in Seq(Entry) /\ Len(q) = 1 /\ DOMAIN q = 1..Len(q)
             /\ \A x : \A i \in DOMAIN q : q[i] # OpEntry(x)
  BY <1>3, <1>6, Entries
<1>7. q = <<>> \/ q = <<OtherEntry>> \/ q = <<DrainEntry>> \/ \E o \in Ops : q = <<CancelEntry(o)>>
  BY Zenon
<1>8. /\ q \in Seq(Entry) /\ Len(q) \in {0, 1} /\ DOMAIN q = 1..Len(q)
      /\ \A x : \A i \in DOMAIN q : q[i] # OpEntry(x)
  BY <1>2, <1>4, <1>5, <1>6, <1>7
<1> QED
  BY <1>1, <1>8

(* A cancellation that is alone in the queue is for its operation only.    *)
LEMMA OneHit ==
  ASSUME NEW o, sq' = <<CancelEntry(o)>>
  PROVE  \A x \in Hit' : x = o /\ o \in armed'
BY Entries DEF Hit

LEMMA NoHit ==
  ASSUME sq' \in {<<>>, <<OtherEntry>>, <<DrainEntry>>}
  PROVE  Hit' = {}
<1>1. \A i \in DOMAIN sq' : \A x : sq'[i] # CancelEntry(x)
  BY Entries
<1> QED
  BY <1>1 DEF Hit

(* A future that goes before its operation is complete, and cancels it.    *)
LEMMA DropSubmittedStep ==
  ASSUME OperationsAssumption, Core, Offered, NEW o \in Ops, DropSubmitted(o)
  PROVE  Core' /\ Offered' /\ at' = at /\ UNCHANGED <<cq, status, sleep, entered>>
<1> DEFINE r == op[o]  p == Place(o)  n == Count(o)
           d == [r EXCEPT !.stage = "dropped", !.woken = FALSE]
           gone == [op EXCEPT ![o] = Unref(d)]
<1>1. /\ Good(o, r, p, n) /\ r \in Operation /\ n \in Nat /\ p \in {"sq", "kernel", "cq", "none"}
      /\ o \in Hit => r.stage = "dropped" /\ p \in {"sq", "kernel"}
  BY Here
<1>2. /\ at \in {"run", "stopped"} /\ r.stage = "submitted"
      /\ UNCHANGED <<cq, status, sleep, entered>>
      /\ at' = IF UnrefOk(r) THEN at ELSE "crashed"
      /\ \/ Notify(gone, Len(sq)) /\ Take /\ sq' = <<CancelEntry(o)>>
         \/ op' = gone /\ UNCHANGED <<waiters, sq, armed>>
  BY DEF DropSubmitted, Drops
<1>3. /\ Good(o, Unref(d), p, n) /\ UnrefOk(r) /\ r.wait = "none" /\ Unref(d).wait = "none"
      /\ p # "none" => Unref(d).stage = "dropped"
  <2> HIDE DEF r, p, n
  <2> QED
    BY <1>1, <1>2, DropIsGood, Zenon
<1> HIDE DEF d
<1>4. op \in [Ops -> Operation]
  BY DEF Core, Local
<1>5. gone \in [Ops -> Operation] /\ \A x \in Ops : gone[x] = IF x = o THEN Unref(d) ELSE op[x]
  BY <1>3, <1>4 DEF Good
<1>6. at' = at
  BY <1>2, <1>3
<1>7. SqSize \in Nat /\ Len(sq) \in Nat /\ Cardinality(Fired) \in Nat
  BY SomeFired, LenProperties DEF OperationsAssumption, Core, Rings
<1>8. CASE op' = gone /\ UNCHANGED <<waiters, sq, armed>>
  <2>1. Core' /\ Fired' = Fired
    BY <1>1, <1>2, <1>3, <1>8, Updates
  <2> QED
    BY <1>2, <1>6, <1>8, <2>1 DEF Offered
<1>9. CASE Notify(gone, Len(sq)) /\ Take /\ sq' = <<CancelEntry(o)>>
  <2>1. Lists(gone)
    BY <1>3, <1>5 DEF Core, Waits, Lists
  <2>2. FiredOf(gone) = Fired
    BY <1>3, <1>5 DEF FiredOf, Fired
  <2>3. \A x \in Ops : Good(x, gone[x], Place(x), Count(x))
    BY <1>3, <1>5 DEF Core, Local
  <2>4. armed' = armed \cup Submitted
    BY <1>9 DEF Take
  <2>5. \A x \in Hit' : gone[x].stage = "dropped"
    <3>1. o \in armed' => p # "none"
      BY <2>4, Places DEF Core, Submitted, Queues
    <3> QED
      BY <1>3, <1>5, <1>9, <3>1, OneHit
  <2>6. /\ sq' \in Seq(Entry) /\ Len(sq') <= SqSize /\ Len(sq') \in Nat
        /\ \A x \in Ops : \A i \in DOMAIN sq' : sq'[i] # OpEntry(x)
    BY <1>9, OneEntry
  <2> HIDE DEF gone
  <2>7. /\ Core'
        /\ waiters' # <<>> =>
             waiters # <<>> /\ Cardinality(Fired)' = Cardinality(Fired) + Len(sq)
    <3>1. /\ Core'
          /\ waiters' # <<>> =>
               waiters # <<>> /\ Cardinality(Fired)' = Cardinality(FiredOf(gone)) + Len(sq)
      BY <1>2, <1>5, <1>7, <1>9, <2>1, <2>3, <2>4, <2>5, <2>6, Submits
    <3> QED
      BY <2>2, <3>1
  <2> QED
    BY <1>2, <1>6, <1>7, <2>6, <2>7 DEF Offered
<1> QED
  BY <1>2, <1>6, <1>8, <1>9

-----------------------------------------------------------------------------
(* The driver.                                                             *)

LEMMA CloseFdStep ==
  ASSUME OperationsAssumption, Core, Offered, CloseFd
  PROVE  Core' /\ Offered' /\ UNCHANGED <<cq, unsent, thread>>
<1>1. at \in {"run", "drain", "stopped"} /\ UNCHANGED <<cq, unsent, thread>>
  BY DEF CloseFd
<1>2. SqSize \in Nat /\ Len(sq) \in Nat /\ Cardinality(Fired) \in Nat /\ Fired = FiredOf(op)
  BY SomeFired, LenProperties DEF OperationsAssumption, Core, Rings
<1>3. CASE Room
  <2>1. sq' = Append(sq, OtherEntry) /\ UNCHANGED <<op, waiters, armed, cancelled, drain>>
    BY <1>3 DEF CloseFd
  <2>2. /\ Rings' /\ Hit' \subseteq Hit /\ Len(sq') = Len(sq) + 1
        /\ \A x \in Ops : Place(x)' = Place(x) /\ Count(x)' = Count(x)
    <3>1. OtherEntry \in Entry /\ \A x : OtherEntry # CancelEntry(x) /\ OtherEntry # OpEntry(x)
      BY Entries
    <3> QED
      BY <1>1, <1>2, <1>3, <2>1, <3>1, Pushes DEF Core
  <2>3. Local' /\ Aimed'
    BY <2>1, <2>2 DEF Core, Local, Aimed
  <2>4. Waits' /\ Fired' = Fired
    BY <2>1, SameWaits DEF Core
  <2>5. Offered'
    BY <1>1, <1>2, <2>1, <2>2, <2>4 DEF Offered, thread
  <2> QED
    BY <1>1, <2>2, <2>3, <2>4, <2>5 DEF Core
<1>4. CASE ~Room
  <2>1. Notify(op, Len(sq)) /\ Take /\ sq' = <<OtherEntry>>
    BY <1>4 DEF CloseFd
  <2>2. /\ sq' \in Seq(Entry) /\ Len(sq') <= SqSize /\ Len(sq') \in Nat
        /\ \A x \in Ops : \A i \in DOMAIN sq' : sq'[i] # OpEntry(x)
    BY <2>1, OneEntry
  <2>3. /\ Core'
        /\ waiters' # <<>> =>
             waiters # <<>> /\ Cardinality(Fired)' = Cardinality(FiredOf(op)) + Len(sq)
    BY <1>1, <1>2, <2>1, <2>2, NoHit, Submits DEF Core, Local, Waits, Take
  <2> QED
    BY <1>1, <1>2, <2>2, <2>3 DEF Offered, thread
<1> QED
  BY <1>3, <1>4

LEMMA PrepareStep ==
  ASSUME OperationsAssumption, Core, Offered, Prepare
  PROVE  Core' /\ Offered' /\ UNCHANGED <<kernel, unsent, status, entered>>
<1>1. /\ at = "submit" /\ at' = "enter" /\ UNCHANGED <<op, waiters, kernel, unsent, status, entered>>
      /\ sq' = sq \/ (Room /\ sq' = Append(sq, OtherEntry))
  BY DEF Prepare
<1>2. SqSize \in Nat /\ Len(sq) \in Nat /\ Cardinality(Fired) \in Nat
  BY SomeFired, LenProperties DEF OperationsAssumption, Core, Rings
<1>3. CASE sq' = sq
  <2>1. Core' /\ Fired' = Fired
    BY <1>1, <1>3, Rests DEF kernel
  <2> QED
    BY <1>1, <1>3, <2>1 DEF Offered
<1>4. CASE Room /\ sq' = Append(sq, OtherEntry)
  <2>2. /\ Rings' /\ Hit' \subseteq Hit /\ Len(sq') = Len(sq) + 1
        /\ \A x \in Ops : Place(x)' = Place(x) /\ Count(x)' = Count(x)
    <3>1. OtherEntry \in Entry /\ \A x : OtherEntry # CancelEntry(x) /\ OtherEntry # OpEntry(x)
      BY Entries
    <3> QED
      BY <1>1, <1>2, <1>4, <3>1, Pushes DEF Core, kernel
  <2>3. Local' /\ Aimed'
    BY <1>1, <2>2 DEF Core, Local, Aimed
  <2>4. Waits' /\ Fired' = Fired
    BY <1>1, SameWaits DEF Core
  <2>5. Offered'
    BY <1>1, <1>2, <2>2, <2>4 DEF Offered
  <2> QED
    BY <1>1, <2>2, <2>3, <2>4, <2>5 DEF Core
<1> QED
  BY <1>1, <1>3, <1>4

LEMMA EnterStep ==
  ASSUME OperationsAssumption, Core, Thread, Offered, Enter
  PROVE  /\ Core' /\ Offered' /\ at' \in {"asleep", "run", "shutdown"} /\ entered' \in 0..SqSize
         /\ UNCHANGED <<cq, unsent, status, sleep>>
<1>1. /\ at = "enter" /\ Take /\ sq' = <<>> /\ UNCHANGED <<cq, unsent, status, sleep>>
      /\ armed' = armed \cup Submitted
  BY DEF Enter, Take
<1>2. /\ SqSize \in Nat /\ Len(sq) \in Nat /\ Cardinality(Fired) \in Nat /\ Fired = FiredOf(op)
      /\ Len(sq) <= SqSize /\ entered = 0
  BY <1>1, SomeFired, LenProperties DEF OperationsAssumption, Core, Rings, Offered
<1>3. /\ sq' \in Seq(Entry) /\ Len(sq') <= SqSize /\ Len(sq') = 0
      /\ \A x \in Ops : \A i \in DOMAIN sq' : sq'[i] # OpEntry(x)
  BY <1>1, OneEntry
<1>4. CASE sleep
  <2>1. at' = "asleep" /\ entered' = Len(sq) /\ UNCHANGED <<op, waiters>>
    BY <1>4 DEF Enter
  <2>2. /\ Rings'
        /\ \A x \in Ops : /\ Place(x)' = IF Place(x) = "sq" THEN "kernel" ELSE Place(x)
                          /\ Count(x)' = Count(x)
    BY <1>1, <1>2, <1>3, Takes DEF Core
  <2>3. Local'
    BY <2>1, <2>2, TakenIsGood DEF Core, Local
  <2>4. Aimed'
    BY <1>1, NoHit DEF Aimed
  <2>5. Waits' /\ Fired' = Fired
    BY <2>1, SameWaits DEF Core
  <2>6. Offered'
    BY <1>1, <1>2, <1>3, <2>1, <2>5 DEF Offered
  <2> QED
    BY <1>1, <1>2, <2>1, <2>2, <2>3, <2>4, <2>5, <2>6 DEF Core
<1>5. CASE ~sleep
  <2>1. Return /\ Notify(op, Len(sq)) /\ UNCHANGED entered
    BY <1>5 DEF Enter
  <2>2. /\ Core'
        /\ waiters' # <<>> =>
             waiters # <<>> /\ Cardinality(Fired)' = Cardinality(FiredOf(op)) + Len(sq)
    BY <1>1, <1>2, <1>3, <2>1, NoHit, Submits DEF Core, Local, Waits
  <2>3. at' \in {"run", "shutdown"}
    BY <2>1 DEF Return
  <2>4. Offered'
    BY <1>1, <1>2, <1>3, <2>1, <2>2, <2>3 DEF Offered
  <2> QED
    BY <1>1, <1>2, <2>1, <2>2, <2>3, <2>4
<1> QED
  BY <1>4, <1>5 DEF Thread

LEMMA WakeUpStep ==
  ASSUME OperationsAssumption, Core, Thread, Offered, WakeUp
  PROVE  /\ Core' /\ Offered' /\ at' \in {"run", "shutdown"} /\ entered' = 0
         /\ UNCHANGED <<sq, kernel, unsent, status, sleep>>
<1>1. /\ at = "asleep" /\ at' \in {"run", "shutdown"} /\ Notify(op, entered) /\ entered' = 0
      /\ UNCHANGED <<sq, kernel, unsent, status, sleep>>
  BY DEF WakeUp, Return
<1>2. /\ SqSize \in Nat /\ Len(sq) \in Nat /\ Cardinality(Fired) \in Nat /\ Fired = FiredOf(op)
      /\ entered \in Nat
  BY SomeFired, LenProperties DEF OperationsAssumption, Core, Rings, Thread
<1>3. /\ Rings' /\ Hit' = Hit
      /\ \A x \in Ops : Place(x)' = Place(x) /\ Count(x)' = Count(x)
  BY <1>1, Untouched DEF Core, kernel
<1>4. \A x \in Ops : Good(x, op[x], Place(x)', Count(x)')
  BY <1>3 DEF Core, Local
<1>5. \A x \in Hit' : op[x].stage = "dropped"
  BY <1>3 DEF Core, Aimed
<1>6. /\ Core'
      /\ waiters' # <<>> =>
           waiters # <<>> /\ Cardinality(Fired)' = Cardinality(FiredOf(op)) + entered
  BY <1>1, <1>2, <1>3, <1>4, <1>5, Tells DEF Core, Local, Waits
<1> QED
  BY <1>1, <1>2, <1>6 DEF Offered

LEMMA CancelAllStep ==
  ASSUME OperationsAssumption, Core, Offered, CancelAll
  PROVE  Core' /\ Offered' /\ cancelled' = armed' /\ status' = "draining"
         /\ UNCHANGED <<cq, drain, unsent, at, sleep, entered>>
<1>1. /\ at = "shutdown" /\ armed' = armed \cup Submitted /\ sq' = <<DrainEntry>>
      /\ Notify(op, Len(waiters)) /\ cancelled' = armed' /\ status' = "draining"
      /\ UNCHANGED <<cq, drain, unsent, at, sleep, entered>>
  BY DEF CancelAll
<1>2. Len(waiters) \in Nat
  BY LenProperties DEF Core, Waits
<1>3. /\ sq' \in Seq(Entry) /\ Len(sq') <= SqSize /\ Len(sq') \in Nat
      /\ \A x \in Ops : \A i \in DOMAIN sq' : sq'[i] # OpEntry(x)
  BY <1>1, OneEntry
<1>4. Core'
  BY <1>1, <1>2, <1>3, NoHit, Submits DEF Core, Local, Waits
<1>5. Offered'
  BY <1>1 DEF Offered
<1> QED
  BY <1>1, <1>4, <1>5

LEMMA ReapStep ==
  ASSUME OperationsAssumption, Core, Thread, Offered, Reap
  PROVE  Core' /\ Offered' /\ at' = at /\ sleep' = FALSE /\ status' \in {status, "shutdown"}
         /\ UNCHANGED <<sq, armed, cancelled, drain, unsent, entered>>
<1> PICK c : c = Head(cq)
  OBVIOUS
<1>1. /\ at = "drain" /\ cq # <<>> /\ cq' = Tail(cq) /\ sleep' = FALSE
      /\ UNCHANGED <<sq, armed, cancelled, drain, unsent, entered>>
  BY DEF Reap
<1>2. /\ Rings' /\ Hit' = Hit /\ c \in Completion
      /\ \A x \in Ops :
           /\ Place(x)' = IF c = End(x) THEN "none" ELSE Place(x)
           /\ Count(x)' = IF c.kind = "op" /\ c.op = x THEN Count(x) - 1 ELSE Count(x)
           /\ c.kind = "op" /\ c.op = x => Count(x) > 0
           /\ c = End(x) => Place(x) = "cq" /\ Count(x) = 1
  BY <1>1, Reaps DEF Core
<1>3. CASE c.kind = "op"
  <2>8. c.op \in Ops /\ IF c.more THEN c = More(c.op) ELSE c = End(c.op)
    BY <1>2, <1>3, Completions
  <2> PICK o \in Ops : o = c.op
    BY <2>8
  <2> DEFINE r == op[o]
  <2>1. /\ op' = [op EXCEPT ![o] = Received(r, c.more)]
        /\ at' = IF r.complete \/ (~c.more /\ r.refcount = 1 /\ ~r.data) THEN "crashed" ELSE at
        /\ UNCHANGED <<waiters, status>>
    BY <1>3 DEF Reap
  <2>2. o \in Ops /\ o = c.op /\ (c = More(o) \/ c = End(o))
    BY <2>8
  <2>3. /\ Good(o, r, Place(o), Count(o)) /\ Count(o) \in Nat /\ op \in [Ops -> Operation]
        /\ Count(o) > 0 /\ Place(o) \in {"kernel", "cq"}
    BY <1>2, <1>3, <2>2, Here, Places DEF Core, Local
  <2>4. \A x \in Ops : x # o => Place(x)' = Place(x) /\ Count(x)' = Count(x)
    BY <1>2, <1>3, <2>2, Completions
  <2>5. ASSUME NEW s, op' = [op EXCEPT ![o] = s], Good(o, s, Place(o)', Count(o)'), s.wait = r.wait,
               o \in Hit => s.stage = "dropped", at' = at
        PROVE  Core' /\ Offered' /\ at' = at /\ status' \in {status, "shutdown"}
    <3>1. op' \in [Ops -> Operation] /\ \A x \in Ops : op'[x] = IF x = o THEN s ELSE op[x]
      BY <2>2, <2>3, <2>5 DEF Good
    <3>2. Local'
      BY <2>4, <2>5, <3>1 DEF Core, Local
    <3>3. Waits' /\ Fired' = Fired
      BY <2>1, <2>5, <3>1, SameWaits DEF Core
    <3>4. Aimed'
      BY <1>2, <2>5, <3>1, HitIsPlaced DEF Core, Aimed
    <3>5. Offered'
      BY <1>1, <2>1, <2>5, <3>3 DEF Offered
    <3> QED
      BY <1>2, <2>1, <2>5, <3>2, <3>3, <3>4, <3>5 DEF Core
  <2>6. CASE c = More(o)
    <3>1. c.more = TRUE
      BY <2>6, Mores, Zenon
    <3>2. /\ Place(o)' = Place(o) /\ Count(o)' = Count(o) - 1
      BY <1>2, <1>3, <2>2, <2>6, Completions
    <3> DEFINE s == Continued(r)
    <3>3. op' = [op EXCEPT ![o] = s]
      BY <2>1, <3>1, Zenon DEF Continued
    <3>4. Good(o, s, Place(o), Count(o) - 1) /\ s.stage = r.stage /\ s.wait = r.wait /\ ~r.complete
      <4> DEFINE p == Place(o)  n == Count(o)
      <4>1. Good(o, r, p, n) /\ n \in Nat /\ n > 0 /\ p \in {"kernel", "cq"}
        BY <2>3
      <4> HIDE DEF r, p, n
      <4>2. Good(o, s, p, n - 1) /\ s.stage = r.stage /\ s.wait = r.wait /\ ~r.complete
        BY <4>1, MoreIsGood
      <4> QED
        BY <4>2 DEF p, n
    <3>5. at' = at
      BY <2>1, <3>1, <3>4
    <3>6. o \in Hit => s.stage = "dropped"
      BY <3>4 DEF Core, Aimed
    <3> HIDE DEF s
    <3> QED
      BY <1>1, <2>5, <3>2, <3>3, <3>4, <3>5, <3>6
  <2>7. CASE c = End(o)
    <3>1. c.more = FALSE
      BY <2>7, Mores, Zenon
    <3>2. Place(o)' = "none" /\ Count(o)' = 0 /\ Place(o) = "cq" /\ Count(o) = 1
      BY <1>2, <1>3, <2>2, <2>7
    <3> DEFINE s == Concluded(r)
    <3>3. op' = [op EXCEPT ![o] = s]
      BY <2>1, <3>1, Zenon DEF Concluded
    <3>4. Good(o, s, "none", 0) /\ s.wait = r.wait /\ ~r.complete /\ r.data
      <4>1. Good(o, r, "cq", 1)
        BY <2>3, <3>2
      <4> HIDE DEF r
      <4> QED
        BY <4>1, EndedIsGood
    <3>5. at' = at
      BY <2>1, <3>4
    <3>6. o \notin Hit
      BY <3>2, HitIsPlaced DEF Core
    <3> HIDE DEF s
    <3> QED
      BY <1>1, <2>5, <3>2, <3>3, <3>4, <3>5, <3>6
  <2> QED
    BY <1>1, <2>2, <2>6, <2>7
<1>4. CASE c.kind # "op"
  <2>1. Notify(op, Len(waiters)) /\ status' = "shutdown" /\ at' = at
    BY <1>4 DEF Reap
  <2>2. \A x \in Ops : Place(x)' = Place(x) /\ Count(x)' = Count(x)
    BY <1>2, <1>4, Completions
  <2>3. Len(waiters) \in Nat
    BY LenProperties DEF Core, Waits
  <2>4. \A x \in Ops : Good(x, op[x], Place(x)', Count(x)')
    BY <2>2 DEF Core, Local
  <2>5. \A x \in Hit' : op[x].stage = "dropped"
    BY <1>2 DEF Core, Aimed
  <2>6. Core'
    BY <1>2, <2>1, <2>3, <2>4, <2>5, Tells DEF Core, Local, Waits
  <2>7. Offered'
    BY <1>1, <2>1 DEF Offered
  <2> QED
    BY <1>1, <2>1, <2>6, <2>7
<1> QED
  BY <1>3, <1>4

-----------------------------------------------------------------------------
(* The kernel.                                                             *)

LEMMA PostStep ==
  ASSUME OperationsAssumption, Core, Offered, NEW o \in Ops, PostMore(o) \/ PostLast(o)
  PROVE  Core' /\ Offered' /\ UNCHANGED <<waiters, sq, drain, thread>>
<1> DEFINE r == op[o]
<1>1. o \in armed /\ UNCHANGED <<waiters, sq, drain, thread>>
  BY DEF PostMore, PostLast
<1>2. /\ Good(o, r, "kernel", Count(o)) /\ Count(o) \in Nat /\ op \in [Ops -> Operation]
  BY <1>1, Here, Places DEF Core, Local
<1>3. ASSUME NEW c \in {More(o), End(o)}, cq' = Append(cq, c),
             armed' = (IF c = End(o) THEN armed \ {o} ELSE armed),
             NEW s, s \in Posted(r),
             op' = [op EXCEPT ![o] = s]
      PROVE  Core' /\ Offered'
  <2>1. /\ Rings' /\ Hit' \subseteq Hit
        /\ \A x \in Ops : /\ Place(x)' = IF x = o /\ c = End(o) THEN "cq" ELSE Place(x)
                          /\ Count(x)' = IF x = o THEN Count(x) + 1 ELSE Count(x)
    BY <1>1, <1>3, Posts DEF Core
  <2>2. \A q \in {"kernel", "cq"} : Good(o, s, q, Count(o) + 1) /\ s.stage = r.stage /\ s.wait = r.wait
    <3> DEFINE n == Count(o)
    <3> HIDE DEF n
    <3>1. \A q \in {"kernel", "cq"} : Good(o, s, q, n + 1) /\ s.stage = r.stage /\ s.wait = r.wait
      <4>1. Good(o, r, "kernel", n) /\ n \in Nat /\ s \in Posted(r)
        BY <1>2, <1>3 DEF n
      <4> HIDE DEF r
      <4> QED
        BY <4>1, PostedIsGood
    <3> QED
      BY <3>1 DEF n
  <2>3. Place(o) = "kernel"
    BY <1>1, Places DEF Core
  <2>4. Good(o, s, Place(o)', Count(o)') /\ s.stage = r.stage /\ s.wait = r.wait
    BY <2>1, <2>2, <2>3
  <2>5. op' \in [Ops -> Operation] /\ \A x \in Ops : op'[x] = IF x = o THEN s ELSE op[x]
    BY <1>2, <1>3, <2>4 DEF Good
  <2>6. Local'
    BY <2>1, <2>4, <2>5 DEF Core, Local
  <2>7. Waits' /\ Fired' = Fired
    BY <1>1, <2>4, <2>5, SameWaits DEF Core
  <2>8. Aimed'
    BY <2>1, <2>4, <2>5, HitIsPlaced DEF Core, Aimed
  <2>9. Offered'
    BY <1>1, <2>7 DEF Offered, thread
  <2> QED
    BY <2>1, <2>6, <2>7, <2>8, <2>9 DEF Core
<1>4. CASE PostMore(o)
  <2> DEFINE s == [r EXCEPT !.updates = @ + 1, !.held = @ + 1]
  <2>1. op' = [op EXCEPT ![o] = s]
    BY <1>2, <1>4 DEF PostMore
  <2>2. cq' = Append(cq, More(o)) /\ armed' = armed /\ More(o) # End(o)
    BY <1>4, Completions DEF PostMore, More
  <2> QED
    BY <1>1, <1>3, <2>1, <2>2 DEF Posted
<1>5. CASE PostLast(o)
  <2> DEFINE s == [r EXCEPT !.held = @ + 1]
  <2>1. op' = [op EXCEPT ![o] = s]
    BY <1>2, <1>5 DEF PostLast
  <2>2. cq' = Append(cq, End(o)) /\ armed' = armed \ {o}
    BY <1>5 DEF PostLast, End
  <2> QED
    BY <1>1, <1>3, <2>1, <2>2 DEF Posted
<1> QED
  BY <1>4, <1>5

LEMMA PostDrainStep ==
  ASSUME Core, Offered, PostDrain
  PROVE  Core' /\ Offered' /\ drain' = FALSE /\ UNCHANGED <<armed, cancelled, unsent, thread>>
<1>1. /\ cq' = Append(cq, DrainEntry) /\ drain' = FALSE
      /\ UNCHANGED <<op, waiters, sq, armed, cancelled, unsent, thread>>
  BY DEF PostDrain
<1>2. /\ Rings' /\ Hit' = Hit
      /\ \A x \in Ops : Place(x)' = Place(x) /\ Count(x)' = Count(x)
  BY <1>1, PostsDrain DEF Core
<1>3. Local' /\ Aimed'
  BY <1>1, <1>2 DEF Core, Local, Aimed
<1>4. Waits' /\ Fired' = Fired
  BY <1>1, SameWaits DEF Core
<1>5. Offered'
  BY <1>1, <1>4 DEF Offered, thread
<1> QED
  BY <1>1, <1>2, <1>3, <1>4, <1>5 DEF Core

-----------------------------------------------------------------------------
(* The invariant.                                                          *)

LEMMA InitHolds ==
  ASSUME OperationsAssumption, Init
  PROVE  OInv
<1>1. /\ op = [o \in Ops |-> Unused] /\ waiters = <<>> /\ sq = <<>> /\ cq = <<>> /\ armed = {}
      /\ cancelled = {} /\ unsent = {} /\ drain = FALSE /\ status = "running" /\ at = "run"
      /\ sleep = FALSE /\ entered = 0 /\ SqSize \in Nat
  BY DEF Init, OperationsAssumption
<1>2. /\ sq \in Seq(Entry) /\ cq \in Seq(Completion) /\ waiters \in Seq(Ops) /\ Len(sq) = 0
      /\ DOMAIN sq = {} /\ DOMAIN cq = {} /\ DOMAIN waiters = {}
  BY <1>1
<1>3. \A o : ~Queues(o) /\ ~Ends(o) /\ Reported(o) = {} /\ Final(o) = {}
  BY <1>2 DEF Queues, Ends, Reported, Final
<1>4. Rings
  BY <1>1, <1>2, <1>3 DEF Rings, OnePlace, QueuedOnce, LastIsLast
<1>5. \A o \in Ops : Place(o) = "none" /\ Count(o) = 0
  BY <1>1, <1>3, FS_EmptySet DEF Place, Count
<1>6. \A o : Good(o, Unused, "none", 0) /\ Unused.wait = "none"
  BY UnusedIsGood
<1>7. Local
  BY <1>1, <1>5, <1>6 DEF Local, Good
<1>8. Waits
  BY <1>1, <1>2, <1>6 DEF Waits, Lists, ListedOnce
<1>9. Aimed
  BY <1>2 DEF Aimed, Hit
<1>10. entered \in 0..SqSize
  BY <1>1
<1>11. Thread /\ NoCrash
  BY <1>1, <1>10 DEF Thread, NoCrash, At
<1>12. Offered
  BY <1>1 DEF Offered
<1> QED
  BY <1>4, <1>7, <1>8, <1>9, <1>11, <1>12 DEF OInv, Core

LEMMA TakeKeepsThread ==
  ASSUME Core, Thread, Take
  PROVE  cancelled' \subseteq armed' /\ drain' \in BOOLEAN
<1>1. Hit \subseteq armed \cup Submitted
  BY HitIsPlaced, Places DEF Core, Submitted, Queues
<1> QED
  BY <1>1 DEF Thread, Take

LEMMA Calm ==
  ASSUME Thread, NoCrash, UNCHANGED <<kernel, unsent, thread>>
  PROVE  Thread' /\ NoCrash'
BY DEF Thread, NoCrash, kernel, thread

LEMMA StepHolds ==
  ASSUME OperationsAssumption, OInv, [Next]_vars
  PROVE  OInv'
<1>1. Core /\ Thread /\ NoCrash /\ Offered
  BY DEF OInv
<1> SUFFICES Core' /\ Thread' /\ NoCrash' /\ Offered'
  BY DEF OInv
<1>2. ASSUME NEW o \in Ops, New(o) \/ Poll(o) \/ DropUnsubmitted(o) \/ DropCompleted(o)
      PROVE  Core' /\ Thread' /\ NoCrash' /\ Offered'
  <2>1. CASE New(o) \/ PollFuture(o) \/ PollStream(o) \/ DropCompleted(o)
    <3>1. Core' /\ Fired' = Fired /\ UNCHANGED <<waiters, sq, kernel, unsent, thread>>
      BY <1>1, <2>1, FutureSteps
    <3>2. Offered'
      BY <1>1, <3>1 DEF Offered, thread
    <3> QED
      BY <1>1, <3>1, <3>2, Calm
  <2>2. CASE PollUnsubmitted(o)
    BY <1>1, <2>2, RoomSteps, Calm
  <2>3. CASE DropUnsubmitted(o)
    BY <1>1, <2>3, DropUnsubmittedStep, Calm
  <2> QED
    BY <1>2, <2>1, <2>2, <2>3 DEF Poll
<1>3. ASSUME NEW o \in Ops, DropSubmitted(o)
      PROVE  Core' /\ Thread' /\ NoCrash' /\ Offered'
  <2>1. Core' /\ Offered' /\ at' = at /\ UNCHANGED <<cq, status, sleep, entered>>
    BY <1>1, <1>3, DropSubmittedStep
  <2>2. /\ unsent' = unsent \/ unsent' = unsent \cup {o}
        /\ Take \/ UNCHANGED <<armed, cancelled, drain>>
    BY <1>3 DEF DropSubmitted
  <2>3. cancelled' \subseteq armed' /\ drain' \in BOOLEAN
    BY <1>1, <2>2, TakeKeepsThread DEF Thread
  <2> QED
    BY <1>1, <1>3, <2>1, <2>2, <2>3 DEF Thread, NoCrash
<1>4. ASSUME NEW o \in Ops, PostMore(o) \/ PostLast(o)
      PROVE  Core' /\ Thread' /\ NoCrash' /\ Offered'
  <2>1. Core' /\ Offered' /\ UNCHANGED <<waiters, sq, drain, thread>>
    BY <1>1, <1>4, PostStep
  <2>2. cancelled' \subseteq armed' /\ unsent' \subseteq Ops
    BY <1>1, <1>4 DEF PostMore, PostLast, Thread
  <2> QED
    BY <1>1, <2>1, <2>2 DEF Thread, NoCrash, thread
<1>5. CASE CloseFd
  <2>1. Core' /\ Offered' /\ UNCHANGED <<cq, unsent, thread>>
    BY <1>1, <1>5, CloseFdStep
  <2>2. Take \/ UNCHANGED <<armed, cancelled, drain>>
    BY <1>5 DEF CloseFd
  <2>3. cancelled' \subseteq armed' /\ drain' \in BOOLEAN
    BY <1>1, <2>2, TakeKeepsThread DEF Thread
  <2> QED
    BY <1>1, <2>1, <2>3 DEF Thread, NoCrash, thread
<1>6. ASSUME NEW m \in BOOLEAN, Park(m)
      PROVE  Core' /\ Thread' /\ NoCrash' /\ Offered'
  <2>1. /\ at \in {"run", "shutdown"} /\ at' = "drain" /\ sleep' = m
        /\ UNCHANGED <<op, waiters, sq, kernel, unsent, status, entered>>
    BY <1>6 DEF Park, Polls
  <2>2. Core' /\ Fired' = Fired
    BY <1>1, <2>1, Rests DEF kernel
  <2> QED
    BY <1>1, <2>1, <2>2 DEF Offered, Thread, NoCrash, kernel, At
<1>7. CASE Reap
  <2>1. /\ Core' /\ Offered' /\ at' = at /\ sleep' = FALSE /\ status' \in {status, "shutdown"}
        /\ UNCHANGED <<sq, armed, cancelled, drain, unsent, entered>>
    BY <1>1, <1>7, ReapStep
  <2> QED
    BY <1>1, <2>1 DEF Thread, NoCrash
<1>8. CASE EndDrain \/ EnterBusy \/ CancelBusy \/ EndShutdown \/ Interrupted \/ BeginShutdown
  <2>1. /\ at \in {"drain", "enter", "shutdown", "asleep", "run"}
        /\ at' \in {"submit", "drain", "failed", "stopped", "shutdown"}
        /\ at = "asleep" => entered = 0
        /\ UNCHANGED <<op, waiters, sq, kernel, unsent, status, entered>>
        /\ sleep' \in {sleep, FALSE}
    BY <1>8 DEF EndDrain, EnterBusy, CancelBusy, EndShutdown, Interrupted, BeginShutdown, Polls
  <2>2. Core' /\ Fired' = Fired
    BY <1>1, <2>1, Rests DEF kernel
  <2>3. Offered'
    BY <1>1, <2>1, <2>2 DEF Offered
  <2> QED
    BY <1>1, <2>1, <2>2, <2>3 DEF Thread, NoCrash, kernel, At
<1>9. CASE Prepare
  <2>1. Core' /\ Offered' /\ UNCHANGED <<kernel, unsent, status, entered>>
    BY <1>1, <1>9, PrepareStep
  <2>2. at' = "enter" /\ sleep' \in BOOLEAN
    BY <1>1, <1>9 DEF Prepare, Thread
  <2> QED
    BY <1>1, <2>1, <2>2 DEF Thread, NoCrash, kernel, At
<1>10. CASE Enter
  <2>1. /\ Core' /\ Offered' /\ at' \in {"asleep", "run", "shutdown"} /\ entered' \in 0..SqSize
        /\ UNCHANGED <<cq, unsent, status, sleep>>
    BY <1>1, <1>10, EnterStep
  <2>2. cancelled' \subseteq armed' /\ drain' \in BOOLEAN
    BY <1>1, <1>10, TakeKeepsThread DEF Enter
  <2> QED
    BY <1>1, <2>1, <2>2 DEF Thread, NoCrash, At
<1>11. CASE CancelAll
  <2>1. /\ Core' /\ Offered' /\ cancelled' = armed' /\ status' = "draining"
        /\ UNCHANGED <<cq, drain, unsent, at, sleep, entered>>
    BY <1>1, <1>11, CancelAllStep
  <2> QED
    BY <1>1, <2>1 DEF Thread, NoCrash
<1>12. CASE WakeUp
  <2>1. /\ Core' /\ Offered' /\ at' \in {"run", "shutdown"} /\ entered' = 0
        /\ UNCHANGED <<sq, kernel, unsent, status, sleep>>
    BY <1>1, <1>12, WakeUpStep
  <2>2. 0 \in 0..SqSize
    BY DEF OperationsAssumption
  <2> QED
    BY <1>1, <2>1, <2>2 DEF Thread, NoCrash, kernel, At
<1>13. CASE PostDrain
  <2>1. Core' /\ Offered' /\ drain' = FALSE /\ UNCHANGED <<armed, cancelled, unsent, thread>>
    BY <1>1, <1>13, PostDrainStep
  <2> QED
    BY <1>1, <2>1 DEF Thread, NoCrash, thread
<1>14. CASE UNCHANGED vars
  <2>1. Core' /\ Fired' = Fired
    BY <1>1, <1>14, Rests DEF vars, kernel
  <2>2. Offered'
    BY <1>1, <1>14, <2>1 DEF Offered, vars, thread
  <2> QED
    BY <1>1, <1>14, <2>1, <2>2, Calm DEF vars
<1> QED
  BY <1>2, <1>3, <1>4, <1>5, <1>6, <1>7, <1>8, <1>9, <1>10, <1>11, <1>12, <1>13, <1>14
  DEF Next, Driver

(* Every reachable state has the invariant. *)
THEOREM OperationsInvariant == Spec => []OInv
<1>1. Init => OInv
  BY OperationsAssumption, InitHolds
<1>2. OInv /\ [Next]_vars => OInv'
  BY OperationsAssumption, StepHolds
<1> QED
  BY <1>1, <1>2, PTL DEF Spec

-----------------------------------------------------------------------------
(* What the invariant says.                                                *)

LEMMA AtMostOne ==
  ASSUME NEW S, \A i, j \in S : i = j
  PROVE  IsFiniteSet(S) /\ Cardinality(S) = One(S # {})
<1>1. CASE S = {}
  BY <1>1, FS_EmptySet DEF One
<1>2. CASE S # {}
  <2>1. PICK i \in S : S = {i}
    BY <1>2
  <2> QED
    BY <1>2, <2>1, FS_Singleton DEF One
<1> QED
  BY <1>1, <1>2

LEMMA CountsAreExact ==
  ASSUME Core
  PROVE  RefcountExact
<1> SUFFICES ASSUME NEW o \in Ops
             PROVE  op[o].refcount = One(op[o].stage \notin {"none", "dropped"})
                      + One(op[o].stage = "unsubmitted") + Cardinality(Queued(o))
                      + One(o \in armed) + Cardinality(Last(o))
  BY DEF RefcountExact
<1>1. Rings
  BY DEF Core
<1>2. \A i, j \in Queued(o) : i = j
  BY <1>1 DEF Rings, QueuedOnce, Queued
<1>3. \A i, j \in Last(o) : i = j
  <2>1. Last(o) = Final(o)
    BY DEF Last, Final, End
  <2>2. Final(o) \subseteq Reported(o) /\ Final(o) \subseteq Int
    <3>1. DOMAIN cq = 1..Len(cq) /\ Len(cq) \in Nat
      BY <1>1, LenProperties DEF Rings
    <3> QED
      BY <3>1, Completions DEF Final, Reported
  <2>3. \A i, j \in Final(o) : i <= j /\ j <= i
    BY <1>1, <2>2 DEF Rings, LastIsLast
  <2> QED
    BY <2>1, <2>2, <2>3
<1>4. Cardinality(Queued(o)) = One(Queues(o)) /\ Cardinality(Last(o)) = One(Ends(o))
  <2>1. (Queued(o) # {}) = Queues(o) /\ (Last(o) # {}) = Ends(o)
    BY DEF Queued, Queues, Last, Ends, End
  <2>2. Cardinality(Queued(o)) = One(Queued(o) # {}) /\ Cardinality(Last(o)) = One(Last(o) # {})
    BY <1>2, <1>3, AtMostOne
  <2> QED
    BY <2>1, <2>2, Zenon DEF One
<1>5. /\ op[o].refcount = One(op[o].stage \notin {"none", "dropped"})
                            + One(op[o].stage = "unsubmitted" \/ Place(o) # "none")
      /\ op[o].stage = "unsubmitted" => Place(o) = "none"
  BY Here DEF Good
<1>6. /\ Place(o) = "sq" <=> Queues(o)
      /\ Place(o) = "kernel" <=> o \in armed
      /\ Place(o) = "cq" <=> Ends(o)
      /\ Place(o) \in {"sq", "kernel", "cq", "none"}
  BY <1>1, Places
<1> QED
  BY <1>4, <1>5, <1>6 DEF One

(* No assertion of operation/ fails, and the references of an operation    *)
(* are counted exactly, through every drop, cancellation and shutdown: its *)
(* memory is not freed while the kernel may write to it, nor kept when     *)
(* nobody has it.                                                          *)
THEOREM OperationsAreCounted == Spec => []Inv
<1>1. OInv => Inv
  <2> SUFFICES ASSUME OInv PROVE TypeOK /\ NoCrash /\ RefcountExact
    BY DEF Inv
  <2>1. Core /\ Thread /\ NoCrash
    BY DEF OInv
  <2>2. TypeOK
    BY <2>1 DEF Core, Rings, Local, Waits, Thread, TypeOK
  <2> QED
    BY <2>1, <2>2, CountsAreExact
<1> QED
  BY <1>1, OperationsInvariant, PTL

(* Every result of the kernel is consumed or cleaned up once.              *)
THEOREM NoResultIsLost == Spec => []ResultsKept
<1>1. OInv => ResultsKept
  BY Here DEF OInv, ResultsKept, Good, Count
<1> QED
  BY <1>1, OperationsInvariant, PTL

(* As many waiters are notified as there are free entries.                 *)
THEOREM RoomIsNotForgotten == Spec => []RoomIsOffered
<1>1. OInv => RoomIsOffered
  <2> SUFFICES ASSUME OInv, waiters # <<>>, status = "running",
                      at \notin {"asleep", "failed", "crashed"}
               PROVE  Cardinality(Fired) >= SqSize - Len(sq)
    BY DEF RoomIsOffered
  <2>1. Cardinality(Fired) + entered + Len(sq) >= SqSize /\ entered = 0
    BY DEF OInv, Offered
  <2>2. SqSize \in Nat /\ Len(sq) \in Nat /\ Cardinality(Fired) \in Nat
    BY OperationsAssumption, SomeFired, LenProperties DEF OperationsAssumption, OInv, Core, Rings
  <2> QED
    BY <2>1, <2>2
<1> QED
  BY <1>1, OperationsInvariant, PTL

(* The task of a future that has a notification or a result is to poll it. *)
THEOREM NoTaskIsForgotten == Spec => []TaskIsWoken
<1>1. OInv => TaskIsWoken
  <2> SUFFICES ASSUME OInv, NEW o \in Ops
               PROVE  /\ op[o].stage = "unsubmitted" /\ op[o].wait # "Linked" => op[o].woken
                      /\ op[o].stage = "submitted" /\ op[o].complete => op[o].woken
                      /\ op[o].stage = "submitted" /\ o \in Multi /\ op[o].completions # <<>>
                           => op[o].woken
    BY DEF TaskIsWoken
  <2>1. Good(o, op[o], Place(o), Count(o))
    BY Here DEF OInv
  <2> QED
    BY <2>1, Zenon DEF Good
<1> QED
  BY <1>1, OperationsInvariant, PTL

(* What a cancellation reaches was dropped, whichever step submits it.     *)
THEOREM CancellationsAreAimed == Spec => CancelsItsOwn
<1> DEFINE Aims == status = "running" /\ status' = "running" =>
                     \A o \in cancelled' \ cancelled : op'[o].stage = "dropped"
<1>1. OInv /\ [Next]_vars => Aims
  <2> SUFFICES ASSUME OInv, [Next]_vars, status = "running", status' = "running",
                      NEW o \in cancelled' \ cancelled
               PROVE  op'[o].stage = "dropped"
    OBVIOUS
  <2>1. Core /\ \A x \in Ops : Good(x, op[x], Place(x), Count(x)) /\ op \in [Ops -> Operation]
    BY DEF OInv, Core, Local
  <2>2. (\E x \in Ops : DropSubmitted(x)) \/ CloseFd \/ Enter
    <3>1. ~CancelAll /\ o \in cancelled' /\ o \notin cancelled
      BY DEF CancelAll
    <3>2. ASSUME NEW x \in Ops
          PROVE  /\ ~New(x) /\ ~PollUnsubmitted(x) /\ ~PollFuture(x) /\ ~PollStream(x)
                 /\ ~DropUnsubmitted(x) /\ ~DropCompleted(x) /\ ~PostMore(x) /\ ~PostLast(x)
      BY <3>1 DEF New, PollUnsubmitted, PollFuture, PollStream, DropUnsubmitted, DropCompleted,
        PostMore, PostLast, kernel
    <3>3. /\ ~Reap /\ ~EndDrain /\ ~Prepare /\ ~EnterBusy /\ ~CancelBusy /\ ~EndShutdown
          /\ ~Interrupted /\ ~WakeUp /\ ~PostDrain /\ ~BeginShutdown /\ \A m : ~Park(m)
          /\ ~UNCHANGED vars
      BY <3>1 DEF Reap, EndDrain, Prepare, EnterBusy, CancelBusy, EndShutdown, Interrupted, WakeUp,
        PostDrain, BeginShutdown, Park, vars, kernel
    <3> QED
      BY <3>1, <3>2, <3>3, Zenon DEF Next, Driver, Poll
  <2>3. Take
    <3>1. cancelled' # cancelled
      OBVIOUS
    <3>2. Take \/ cancelled' = cancelled
      BY <2>2, Zenon DEF DropSubmitted, CloseFd, Enter
    <3> QED
      BY <3>1, <3>2, Zenon
  <2>4. o \in Ops /\ op[o].stage = "dropped"
    BY <2>1, <2>3, HitIsPlaced DEF Core, Aimed, Take
  <2>5. ASSUME NEW f, f \in [Ops -> Operation], NEW n \in Nat, Notify(f, n), Lists(f),
               f[o].stage = "dropped"
        PROVE  op'[o].stage = "dropped"
    <3>1. Alike(f[o], op'[o])
      BY <2>1, <2>4, <2>5, OperationsAssumption, Notifies DEF Core, Waits, OperationsAssumption
    <3> QED
      BY <2>4, <2>5, <3>1 DEF Alike, Told, Operation
  <2>6. Len(sq) \in Nat /\ Lists(op)
    BY <2>1, LenProperties DEF Core, Rings, Waits
  <2>7. CASE CloseFd \/ Enter
    <3>1. UNCHANGED op \/ Notify(op, Len(sq))
      BY <2>7 DEF CloseFd, Enter
    <3> QED
      BY <2>1, <2>4, <2>5, <2>6, <3>1
  <2>8. ASSUME NEW x \in Ops, DropSubmitted(x)
        PROVE  op'[o].stage = "dropped"
    <3> DEFINE r == op[x]  p == Place(x)  n == Count(x)
               d == [r EXCEPT !.stage = "dropped", !.woken = FALSE]
               gone == [op EXCEPT ![x] = Unref(d)]
    <3>1. Good(x, r, p, n) /\ n \in Nat /\ p \in {"sq", "kernel", "cq", "none"}
      BY <2>1, Here
    <3>2. r.stage = "submitted" /\ (Notify(gone, Len(sq)) \/ op' = gone)
      BY <2>8 DEF DropSubmitted
    <3>3. Unref(d) \in Operation /\ Unref(d).wait = "none" /\ r.wait = "none"
      <4>1. Good(x, Unref(d), p, n) /\ Unref(d).wait = "none" /\ r.wait = "none"
        <5> HIDE DEF r, p, n
        <5> QED
          BY <3>1, <3>2, DropIsGood, Zenon
      <4> QED
        BY <4>1 DEF Good
    <3> HIDE DEF d
    <3>4. gone \in [Ops -> Operation] /\ \A y \in Ops : gone[y] = IF y = x THEN Unref(d) ELSE op[y]
      BY <2>1, <3>3
    <3>5. gone[o].stage = "dropped"
      BY <2>4, <3>2, <3>4
    <3>6. Lists(gone)
      BY <2>6, <3>3, <3>4 DEF Lists
    <3> HIDE DEF gone
    <3> QED
      BY <2>5, <2>6, <3>2, <3>4, <3>5, <3>6
  <2> QED
    BY <2>2, <2>7, <2>8
<1> QED
  BY <1>1, OperationsInvariant, PTL DEF Spec, CancelsItsOwn

-----------------------------------------------------------------------------
(* Driver::shutdown.                                                       *)

SqDrain == \E i \in DOMAIN sq : sq[i] = DrainEntry
CqDrain == \E i \in DOMAIN cq : cq[i] = DrainEntry

(* Once all is cancelled nothing joins what is in the kernel; the entry    *)
(* with the DRAIN_TOKEN is on its way until its completion, the last of    *)
(* all, is reaped.                                                         *)
EndInv ==
  /\ at = "run" => status = "running"
  /\ at = "stopped" => status = "shutdown"
  /\ status = "running" => ~drain /\ ~SqDrain /\ ~CqDrain
  /\ status # "running" => Submitted = {} /\ armed \subseteq cancelled
  /\ status = "draining" => drain \/ SqDrain \/ CqDrain
  /\ SqDrain => ~drain /\ ~CqDrain
  /\ CqDrain => /\ ~drain /\ armed = {}
                /\ \A i \in DOMAIN cq : cq[i] = DrainEntry => i = Len(cq)
  /\ status = "shutdown" => armed = {} /\ cq = <<>> /\ ~drain /\ ~SqDrain

(* Where a thread may be, by the status. *)
InPlace == (at = "run" => status = "running") /\ (at = "stopped" => status = "shutdown")

LEMMA QuietEnd ==
  ASSUME EndInv, UNCHANGED <<sq, cq, armed, cancelled, drain, status>>, InPlace'
  PROVE  EndInv'
BY DEF EndInv, InPlace, SqDrain, CqDrain, Submitted

LEMMA PushEnd ==
  ASSUME sq \in Seq(Entry), EndInv, NEW e \in Entry, e # DrainEntry,
         status # "running" => e = OtherEntry, sq' = Append(sq, e),
         UNCHANGED <<cq, armed, cancelled, drain, status>>, InPlace'
  PROVE  EndInv'
<1>1. /\ Len(sq) \in Nat /\ DOMAIN sq = 1..Len(sq) /\ DOMAIN sq' = 1..(Len(sq) + 1)
      /\ sq'[Len(sq) + 1] = e /\ \A i \in 1..Len(sq) : sq'[i] = sq[i]
  BY AppendProperties, LenProperties
<1>2. SqDrain' <=> SqDrain
  <2>1. ASSUME NEW i \in DOMAIN sq', sq'[i] = DrainEntry PROVE SqDrain
    BY <1>1, <2>1 DEF SqDrain
  <2>2. ASSUME NEW i \in DOMAIN sq, sq[i] = DrainEntry PROVE SqDrain'
    <3>1. i \in DOMAIN sq' /\ sq'[i] = DrainEntry
      BY <1>1, <2>2
    <3> QED
      BY <3>1 DEF SqDrain
  <2> QED
    BY <2>1, <2>2 DEF SqDrain
<1>3. CqDrain' <=> CqDrain
  BY DEF CqDrain
<1>4. status # "running" => Submitted' = {}
  <2> SUFFICES ASSUME status # "running", NEW o \in Ops, NEW i \in DOMAIN sq',
                      sq'[i] = OpEntry(o)
               PROVE  FALSE
    BY DEF Submitted
  <2>1. i \in DOMAIN sq /\ sq[i] = OpEntry(o)
    BY <1>1, Entries
  <2> QED
    BY <2>1 DEF EndInv, Submitted
<1> QED
  BY <1>2, <1>3, <1>4 DEF EndInv, InPlace

LEMMA TakeEnd ==
  ASSUME EndInv, Take, NEW e, e # DrainEntry, \A o : e # OpEntry(o),
         sq' = <<>> \/ sq' = <<e>>, UNCHANGED <<cq, status>>, InPlace'
  PROVE  EndInv'
<1>1. \A i \in DOMAIN sq' : sq'[i] = e
  OBVIOUS
<1>2. ~SqDrain' /\ Submitted' = {}
  BY <1>1 DEF SqDrain, Submitted
<1>3. /\ drain' = (drain \/ SqDrain) /\ armed' = armed \cup Submitted
      /\ cancelled \subseteq cancelled'
  BY DEF Take, SqDrain
<1>4. CqDrain' <=> CqDrain
  BY DEF CqDrain
<1>5. ~drain' <=> ~drain /\ ~SqDrain
  BY <1>3, Zenon
<1>6. status # "running" => armed' = armed
  BY <1>3 DEF EndInv
<1> QED
  BY <1>2, <1>3, <1>4, <1>5, <1>6 DEF EndInv, InPlace

LEMMA CancelAllEnd ==
  ASSUME EndInv, CancelAll
  PROVE  EndInv'
<1>1. /\ at = "shutdown" /\ status = "running" /\ sq' = <<DrainEntry>> /\ status' = "draining"
      /\ cancelled' = armed' /\ UNCHANGED <<cq, drain, at>>
  BY DEF CancelAll
<1>2. \A i \in DOMAIN sq' : sq'[i] = DrainEntry
  BY <1>1
<1>3. SqDrain'
  <2>1. 1 \in DOMAIN sq' /\ sq'[1] = DrainEntry
    BY <1>1
  <2> QED
    BY <2>1 DEF SqDrain
<1>4. Submitted' = {} /\ ~CqDrain'
  BY <1>1, <1>2, Entries DEF Submitted, EndInv, CqDrain
<1> QED
  BY <1>1, <1>3, <1>4 DEF EndInv

LEMMA ReapEnd ==
  ASSUME Rings, EndInv, Reap, at' = "drain"
  PROVE  EndInv'
<1>1. /\ cq # <<>> /\ cq' = Tail(cq) /\ UNCHANGED <<sq, armed, cancelled, drain>>
      /\ status' = IF Head(cq).kind = "op" THEN status ELSE "shutdown"
  BY DEF Reap
<1>2. /\ cq \in Seq(Completion) /\ Len(cq) \in Nat /\ Len(cq) > 0 /\ DOMAIN cq = 1..Len(cq)
      /\ Head(cq) = cq[1] /\ cq[1] \in Completion
  BY <1>1, LenProperties, EmptySeq, HeadTailProperties, ElementOfSeq DEF Rings
<1>3. /\ Len(cq') = Len(cq) - 1 /\ DOMAIN cq' = 1..(Len(cq) - 1)
      /\ \A i \in 1..(Len(cq) - 1) : cq'[i] = cq[i + 1]
  BY <1>1, <1>2, HeadTailProperties, LenProperties
<1>4. SqDrain' = SqDrain /\ Submitted' = Submitted
  BY <1>1 DEF SqDrain, Submitted
<1>5. ASSUME NEW i \in DOMAIN cq', cq'[i] = DrainEntry
      PROVE  i + 1 \in DOMAIN cq /\ cq[i + 1] = DrainEntry
  BY <1>2, <1>3, <1>5
<1>6. CqDrain' => CqDrain /\ \A i \in DOMAIN cq' : cq'[i] = DrainEntry => i = Len(cq')
  <2> SUFFICES ASSUME NEW i \in DOMAIN cq', cq'[i] = DrainEntry
               PROVE  CqDrain /\ i = Len(cq')
    BY DEF CqDrain
  <2>1. i + 1 \in DOMAIN cq /\ cq[i + 1] = DrainEntry
    BY <1>5
  <2>2. CqDrain
    BY <2>1 DEF CqDrain
  <2>3. i + 1 = Len(cq)
    BY <2>1, <2>2 DEF EndInv
  <2> QED
    BY <1>2, <1>3, <2>2, <2>3
<1>7. CASE Head(cq).kind = "op"
  <2>1. status' = status /\ cq[1] # DrainEntry
    BY <1>1, <1>2, <1>7, Completions
  <2>2. CqDrain => CqDrain'
    <3> SUFFICES ASSUME NEW i \in DOMAIN cq, cq[i] = DrainEntry PROVE CqDrain'
      BY DEF CqDrain
    <3>1. i # 1
      BY <2>1
    <3>2. i - 1 \in DOMAIN cq' /\ cq'[i - 1] = DrainEntry
      BY <1>2, <1>3, <3>1
    <3> QED
      BY <3>2 DEF CqDrain
  <2>3. status # "shutdown"
    BY <1>1 DEF EndInv
  <2> QED
    BY <1>1, <1>4, <1>6, <2>1, <2>2, <2>3 DEF EndInv
<1>8. CASE Head(cq).kind # "op"
  <2>1. cq[1] = DrainEntry
    BY <1>2, <1>8 DEF Completion, Result
  <2>2. CqDrain /\ 1 = Len(cq)
    BY <1>2, <2>1 DEF CqDrain, EndInv
  <2>3. cq' = <<>>
    BY <1>2, <1>3, <2>2, EmptySeq, HeadTailProperties, <1>1
  <2>4. status' = "shutdown" /\ armed = {} /\ ~drain /\ ~SqDrain /\ status # "running"
    BY <1>1, <1>8, <2>2 DEF EndInv
  <2>5. ~CqDrain'
    BY <2>3 DEF CqDrain
  <2> QED
    BY <1>1, <1>4, <2>3, <2>4, <2>5 DEF EndInv
<1> QED
  BY <1>7, <1>8

LEMMA PostEnd ==
  ASSUME Rings, EndInv, NEW o \in armed, NEW c, c # DrainEntry, cq' = Append(cq, c),
         armed' \subseteq armed, cancelled' = cancelled \ (armed \ armed'),
         UNCHANGED <<sq, drain, status, at>>
  PROVE  EndInv'
<1>1. ~CqDrain /\ status # "shutdown"
  BY DEF EndInv
<1>2. ~CqDrain'
  BY <1>1, LenProperties DEF Rings, CqDrain
<1>3. SqDrain' = SqDrain /\ Submitted' = Submitted
  BY DEF SqDrain, Submitted
<1> QED
  BY <1>1, <1>2, <1>3 DEF EndInv

LEMMA PostDrainEnd ==
  ASSUME Rings, EndInv, PostDrain
  PROVE  EndInv'
<1>1. /\ drain /\ armed = {} /\ drain' = FALSE /\ cq' = Append(cq, DrainEntry)
      /\ UNCHANGED <<sq, armed, cancelled, status, at>>
  BY DEF PostDrain, thread
<1>2. SqDrain' = SqDrain /\ Submitted' = Submitted
  BY <1>1 DEF SqDrain, Submitted
<1>3. /\ Len(cq) \in Nat /\ DOMAIN cq = 1..Len(cq) /\ DOMAIN cq' = 1..(Len(cq) + 1)
      /\ Len(cq') = Len(cq) + 1
      /\ cq'[Len(cq) + 1] = DrainEntry /\ \A i \in 1..Len(cq) : cq'[i] = cq[i]
  BY <1>1, LenProperties, AppendProperties, Completions DEF Rings
<1>4. ~CqDrain /\ ~SqDrain /\ status \notin {"running", "shutdown"}
  BY <1>1 DEF EndInv
<1>5. CqDrain'
  <2>1. Len(cq) + 1 \in DOMAIN cq'
    BY <1>3
  <2> QED
    BY <1>3, <2>1 DEF CqDrain
<1>6. \A i \in DOMAIN cq' : cq'[i] = DrainEntry => i = Len(cq')
  BY <1>3, <1>4 DEF CqDrain
<1> QED
  BY <1>1, <1>2, <1>4, <1>5, <1>6 DEF EndInv

LEMMA EndStep ==
  ASSUME OperationsAssumption, OInv, OInv', EndInv, [Next]_vars
  PROVE  EndInv'
<1>1. Rings /\ sq \in Seq(Entry) /\ InPlace
  BY DEF OInv, Core, Rings, EndInv, InPlace
<1>2. at' # "crashed"
  BY DEF OInv, NoCrash
<1>3. ASSUME NEW o \in Ops,
             New(o) \/ PollFuture(o) \/ PollStream(o) \/ DropUnsubmitted(o) \/ DropCompleted(o)
      PROVE  EndInv'
  <2>1. UNCHANGED <<sq, cq, armed, cancelled, drain, status, at>>
    BY <1>2, <1>3 DEF New, PollFuture, PollStream, DropUnsubmitted, DropCompleted, kernel, thread
  <2> QED
    BY <1>1, <2>1, QuietEnd DEF InPlace
<1>4. ASSUME NEW o \in Ops, PollUnsubmitted(o)
      PROVE  EndInv'
  <2>1. /\ status = "running" /\ UNCHANGED <<cq, armed, cancelled, drain, status, at>>
        /\ UNCHANGED sq \/ sq' = Append(sq, OpEntry(o))
    BY <1>4 DEF PollUnsubmitted, Polls, kernel, thread
  <2>2. OpEntry(o) \in Entry /\ OpEntry(o) # DrainEntry
    BY Entries
  <2> QED
    BY <1>1, <2>1, <2>2, QuietEnd, PushEnd DEF InPlace
<1>5. ASSUME NEW o \in Ops, DropSubmitted(o)
      PROVE  EndInv'
  <2>1. /\ UNCHANGED <<cq, status, at>>
        /\ \/ Take /\ sq' = <<CancelEntry(o)>>
           \/ UNCHANGED <<sq, armed, cancelled, drain>>
    BY <1>2, <1>5 DEF DropSubmitted
  <2>2. CancelEntry(o) # DrainEntry /\ \A p : CancelEntry(o) # OpEntry(p)
    BY Entries
  <2> QED
    BY <1>1, <2>1, <2>2, QuietEnd, TakeEnd DEF InPlace
<1>6. ASSUME NEW o \in Ops, PostMore(o) \/ PostLast(o)
      PROVE  EndInv'
  <2>1. \/ PostMore(o) /\ o \in armed /\ cq' = Append(cq, More(o)) /\ UNCHANGED <<armed, cancelled>>
        \/ PostLast(o) /\ o \in armed /\ cq' = Append(cq, End(o)) /\ armed' = armed \ {o}
             /\ cancelled' = cancelled \ {o}
    BY <1>6 DEF PostMore, PostLast, More, End
  <2>2. UNCHANGED <<sq, drain, status, at>>
    BY <1>6 DEF PostMore, PostLast, thread
  <2>3. More(o) # DrainEntry /\ End(o) # DrainEntry
    BY Completions
  <2>4. armed' \subseteq armed /\ cancelled' = cancelled \ (armed \ armed')
    BY <2>1
  <2> QED
    BY <1>1, <2>1, <2>2, <2>3, <2>4, PostEnd
<1>7. CASE CloseFd
  <2>1. /\ UNCHANGED <<cq, status, at>>
        /\ \/ Take /\ sq' = <<OtherEntry>>
           \/ sq' = Append(sq, OtherEntry) /\ UNCHANGED <<armed, cancelled, drain>>
    BY <1>7 DEF CloseFd, thread
  <2>2. OtherEntry # DrainEntry /\ OtherEntry \in Entry /\ \A p : OtherEntry # OpEntry(p)
    BY Entries, Zenon DEF OtherEntry, DrainEntry
  <2> QED
    BY <1>1, <2>1, <2>2, PushEnd, TakeEnd DEF InPlace
<1>8. ASSUME NEW m \in BOOLEAN, Park(m)
      PROVE  EndInv'
  <2>1. at' = "drain" /\ UNCHANGED <<sq, cq, armed, cancelled, drain, status>>
    BY <1>8 DEF Park, kernel
  <2> QED
    BY <2>1, QuietEnd DEF InPlace
<1>9. CASE EndDrain \/ EnterBusy \/ CancelBusy \/ EndShutdown \/ Interrupted \/ BeginShutdown \/ WakeUp
  <2>1. /\ at' = "run" => status = "running"
        /\ at' = "stopped" => status = "shutdown"
        /\ UNCHANGED <<sq, kernel, status>>
    BY <1>9 DEF EndDrain, EnterBusy, CancelBusy, EndShutdown, Interrupted, BeginShutdown, WakeUp,
      Return
  <2> QED
    BY <2>1, QuietEnd DEF InPlace, kernel
<1>10. CASE Prepare
  <2>1. /\ at' = "enter" /\ UNCHANGED <<kernel, status>>
        /\ UNCHANGED sq \/ sq' = Append(sq, OtherEntry)
    BY <1>10 DEF Prepare
  <2>2. OtherEntry # DrainEntry /\ OtherEntry \in Entry
    BY Entries, Zenon DEF OtherEntry, DrainEntry
  <2> QED
    BY <1>1, <2>1, <2>2, QuietEnd, PushEnd DEF InPlace, kernel
<1>11. CASE Enter
  <2>1. /\ Take /\ sq' = <<>> /\ UNCHANGED <<cq, status>>
        /\ at' = "run" => status = "running"
        /\ at' # "stopped"
    BY <1>11 DEF Enter, Return
  <2>2. OtherEntry # DrainEntry /\ \A p : OtherEntry # OpEntry(p)
    BY Entries, Zenon DEF OtherEntry, DrainEntry
  <2> QED
    BY <2>1, <2>2, TakeEnd DEF InPlace
<1>12. CASE Reap
  <2>1. at' = "drain"
    BY <1>2, <1>12 DEF Reap
  <2> QED
    BY <1>1, <1>12, <2>1, ReapEnd
<1>13. CASE UNCHANGED vars
  BY <1>1, <1>13, QuietEnd DEF InPlace, vars, kernel, thread
<1> QED
  BY <1>1, <1>3, <1>4, <1>5, <1>6, <1>7, <1>8, <1>9, <1>10, <1>11, <1>12, <1>13, CancelAllEnd,
    PostDrainEnd DEF Next, Driver, Poll

THEOREM ShutdownInductive == Spec => []EndInv
<1>1. Init => EndInv
  BY DEF Init, EndInv, SqDrain, CqDrain
<1>2. OInv /\ OInv' /\ EndInv /\ [Next]_vars => EndInv'
  BY OperationsAssumption, EndStep
<1> QED
  BY <1>1, <1>2, OperationsInvariant, PTL DEF Spec

(* When Driver::shutdown returns, or a park that reaped the entry with the *)
(* DRAIN_TOKEN, the kernel has nothing of the program: no operation, none  *)
(* on its way to it, and no completion that nobody will reap.              *)
ShutdownIsClean ==
  at = "stopped" \/ status = "shutdown" =>
    armed = {} /\ cq = <<>> /\ \A o \in Ops : Queued(o) = {}

THEOREM NothingIsInTheKernel == Spec => []ShutdownIsClean
<1>1. EndInv => ShutdownIsClean
  BY DEF EndInv, ShutdownIsClean, Queued, Submitted
<1> QED
  BY <1>1, ShutdownInductive, PTL

(* A park of Driver::shutdown sleeps only while the kernel will wake it by *)
(* itself: it has a completion to reap, the entry with the DRAIN_TOKEN     *)
(* waits for nothing, or some operation that was cancelled is to end.      *)
SleepIsServed ==
  at = "asleep" /\ status = "draining" =>
    cq # <<>> \/ (drain /\ armed = {}) \/ armed \cap cancelled # {}

THEOREM ShutdownSleepIsServed == Spec => []SleepIsServed
<1>1. OInv /\ EndInv => SleepIsServed
  <2> SUFFICES ASSUME OInv, EndInv, at = "asleep", status = "draining", cq = <<>>
               PROVE  (drain /\ armed = {}) \/ armed \cap cancelled # {}
    BY DEF SleepIsServed
  <2>1. sq = <<>>
    BY DEF OInv, Offered
  <2>2. ~SqDrain /\ ~CqDrain
    BY <2>1 DEF SqDrain, CqDrain
  <2>3. drain /\ armed \subseteq cancelled
    BY <2>2 DEF EndInv
  <2> QED
    BY <2>3
<1> QED
  BY <1>1, OperationsInvariant, ShutdownInductive, PTL

-----------------------------------------------------------------------------
(* The turns of those who wait for room.                                   *)

(* Who comes first is notified first, and those who go on waiting keep     *)
(* their order.                                                            *)
InTurn ==
  \A i, j \in DOMAIN waiters : i < j =>
    /\ op'[waiters[j]].wait = "Fired" => op'[waiters[i]].wait # "Linked"
    /\ \A k, l \in DOMAIN waiters' :
         waiters'[k] = waiters[i] /\ waiters'[l] = waiters[j] => k < l

LEMMA WhoWaits ==
  ASSUME Waits, Waits'
  PROVE  /\ \A i \in DOMAIN waiters : waiters[i] \in Ops
         /\ \A i \in DOMAIN waiters :
              op'[waiters[i]].wait = "Linked" <=> \E k \in DOMAIN waiters' : waiters'[k] = waiters[i]
<1>1. \A i \in DOMAIN waiters : waiters[i] \in Ops
  BY LenProperties, ElementOfSeq DEF Waits
<1> QED
  BY <1>1 DEF Waits, Lists

LEMMA TurnsSame ==
  ASSUME Waits, Waits', UNCHANGED waiters
  PROVE  InTurn
<1>1. \A i \in DOMAIN waiters : op'[waiters[i]].wait = "Linked"
  BY WhoWaits
<1>2. \A i, k \in DOMAIN waiters : waiters[k] = waiters[i] => k = i
  BY DEF Waits, ListedOnce
<1> QED
  BY <1>1, <1>2 DEF InTurn

LEMMA TurnsAppend ==
  ASSUME Waits, Waits', NEW o \in Ops, waiters' = Append(waiters, o)
  PROVE  InTurn
<1>1. /\ Len(waiters) \in Nat /\ DOMAIN waiters = 1..Len(waiters)
      /\ DOMAIN waiters' = 1..(Len(waiters) + 1)
      /\ \A i \in 1..Len(waiters) : waiters'[i] = waiters[i]
  BY AppendProperties, LenProperties DEF Waits
<1>2. \A i \in DOMAIN waiters : i \in DOMAIN waiters' /\ waiters'[i] = waiters[i]
  BY <1>1
<1>3. \A i \in DOMAIN waiters : op'[waiters[i]].wait = "Linked"
  BY <1>2, WhoWaits
<1>4. \A i \in DOMAIN waiters, k \in DOMAIN waiters' : waiters'[k] = waiters[i] => k = i
  BY <1>2 DEF Waits, ListedOnce
<1> QED
  BY <1>3, <1>4 DEF InTurn

LEMMA TurnsSuffix ==
  ASSUME Waits, Waits', NEW n \in Nat, waiters' = SubSeq(waiters, n + 1, Len(waiters))
  PROVE  InTurn
<1>1. Len(waiters) \in Nat /\ DOMAIN waiters = 1..Len(waiters)
  BY LenProperties DEF Waits
<1>2. CASE n >= Len(waiters)
  <2>1. waiters' = <<>>
    BY <1>1, <1>2, SubSeqEmpty
  <2>2. DOMAIN waiters' = {}
    BY <2>1
  <2> QED
    BY <2>2, WhoWaits DEF InTurn
<1>3. CASE n < Len(waiters)
  <2>1. n <= Len(waiters)
    BY <1>1, <1>3
  <2>2. /\ waiters' \in Seq(Ops) /\ Len(waiters') = Len(waiters) - n
        /\ \A i \in 1..(Len(waiters) - n) : waiters'[i] = waiters[n + i]
    BY <2>1, Suffix, Zenon DEF Waits
  <2>3. DOMAIN waiters' = 1..(Len(waiters) - n)
    BY <2>2, LenProperties
  <2>4. \A k \in DOMAIN waiters' : n + k \in DOMAIN waiters /\ waiters'[k] = waiters[n + k]
    <3> SUFFICES ASSUME NEW k \in DOMAIN waiters'
                 PROVE  n + k \in DOMAIN waiters /\ waiters'[k] = waiters[n + k]
      OBVIOUS
    <3>1. k \in 1..(Len(waiters) - n)
      BY <2>3
    <3>2. waiters'[k] = waiters[n + k]
      BY <2>2, <3>1, Zenon
    <3>3. n + k \in 1..Len(waiters)
      BY <1>1, <2>1, <3>1
    <3> QED
      BY <1>1, <3>2, <3>3
  <2>5. \A i \in DOMAIN waiters, k \in DOMAIN waiters' : waiters'[k] = waiters[i] => n + k = i
    BY <2>4 DEF Waits, ListedOnce
  <2>6. ASSUME NEW i \in DOMAIN waiters, i > n
        PROVE  op'[waiters[i]].wait = "Linked"
    <3>1. i - n \in DOMAIN waiters' /\ n + (i - n) = i
      BY <1>1, <2>3, <2>6
    <3>2. waiters'[i - n] = waiters[i]
      BY <2>4, <3>1
    <3> QED
      BY <3>1, <3>2, WhoWaits
  <2>7. ASSUME NEW i \in DOMAIN waiters, i <= n
        PROVE  op'[waiters[i]].wait # "Linked"
    <3>1. \A k \in DOMAIN waiters' : waiters'[k] # waiters[i]
      BY <1>1, <2>3, <2>5, <2>7
    <3> QED
      BY <3>1, WhoWaits
  <2> SUFFICES ASSUME NEW i \in DOMAIN waiters, NEW j \in DOMAIN waiters, i < j
               PROVE  /\ op'[waiters[j]].wait = "Fired" => op'[waiters[i]].wait # "Linked"
                      /\ \A k, l \in DOMAIN waiters' :
                           waiters'[k] = waiters[i] /\ waiters'[l] = waiters[j] => k < l
    BY DEF InTurn
  <2>8. op'[waiters[j]].wait = "Fired" => op'[waiters[i]].wait # "Linked"
    BY <1>1, <2>6, <2>7
  <2>9. ASSUME NEW k \in DOMAIN waiters', NEW l \in DOMAIN waiters',
               waiters'[k] = waiters[i], waiters'[l] = waiters[j]
        PROVE  k < l
    BY <1>1, <2>3, <2>5, <2>9
  <2> QED
    BY <2>8, <2>9
<1> QED
  BY <1>1, <1>2, <1>3

LEMMA TurnsUnlink ==
  ASSUME Waits, Waits', NEW o \in Ops, Unlink(o), op'[o].wait = "none"
  PROVE  InTurn
<1> DEFINE n == Len(waiters)
<1>1. n \in Nat /\ DOMAIN waiters = 1..n
  BY LenProperties DEF Waits
<1>2. waiters \in Seq(Ops)
  BY DEF Waits
<1>3. PICK k \in DOMAIN waiters :
        /\ waiters[k] = o /\ DOMAIN waiters' = 1..(n - 1)
        /\ \A i \in 1..(n - 1) : waiters'[i] = IF i < k THEN waiters[i] ELSE waiters[i + 1]
  BY <1>2, Unlinked
<1> HIDE DEF n
<1> DEFINE from(i) == IF i < k THEN i ELSE i + 1
<1>4. \A i \in DOMAIN waiters' : from(i) \in DOMAIN waiters /\ waiters'[i] = waiters[from(i)]
  BY <1>1, <1>3
<1>5. \A i, j \in DOMAIN waiters' : from(i) < from(j) => i < j
  BY <1>1, <1>3
<1> HIDE DEF from
<1>6. \A i \in DOMAIN waiters, m \in DOMAIN waiters' : waiters'[m] = waiters[i] => from(m) = i
  BY <1>4 DEF Waits, ListedOnce
<1>7. \A j \in DOMAIN waiters : op'[waiters[j]].wait # "Fired"
  <2> SUFFICES ASSUME NEW j \in DOMAIN waiters PROVE op'[waiters[j]].wait # "Fired"
    OBVIOUS
  <2>1. CASE j = k
    BY <1>3, <2>1
  <2>2. CASE j < k
    <3>1. j \in DOMAIN waiters' /\ waiters'[j] = waiters[j]
      BY <1>1, <1>3, <2>2
    <3> QED
      BY <3>1, WhoWaits
  <2>3. CASE j > k
    <3>1. j - 1 \in DOMAIN waiters' /\ waiters'[j - 1] = waiters[j]
      BY <1>1, <1>3, <2>3
    <3> QED
      BY <3>1, WhoWaits
  <2> QED
    BY <1>1, <1>3, <2>1, <2>2, <2>3
<1> QED
  BY <1>5, <1>6, <1>7 DEF InTurn

(* A step leaves the list as it is, adds one to its end, notifies the      *)
(* first ones, or takes out one that is dropped.                           *)
LEMMA WaitersStep ==
  ASSUME OperationsAssumption, OInv, [Next]_vars
  PROVE  \/ UNCHANGED waiters
         \/ \E o \in Ops : waiters' = Append(waiters, o)
         \/ \E n \in Nat : waiters' = SubSeq(waiters, n + 1, Len(waiters))
         \/ \E o \in Ops : Unlink(o) /\ op'[o].wait = "none"
<1> DEFINE Served(n) == waiters' = SubSeq(waiters, n + 1, Len(waiters))
           Some == \E n \in Nat : Served(n)
           Joins == \E o \in Ops : waiters' = Append(waiters, o)
           Leaves == \E o \in Ops : Unlink(o) /\ op'[o].wait = "none"
<1>1. /\ Len(sq) \in Nat /\ Len(waiters) \in Nat /\ 1 \in Nat /\ entered \in Nat
      /\ op \in [Ops -> Operation]
  BY LenProperties DEF OperationsAssumption, OInv, Core, Rings, Waits, Thread, Local
<1>2. \A n, f : Notify(f, n) => Served(n)
  BY Zenon DEF Notify
<1> HIDE DEF Served
<1>3. ASSUME NEW o \in Ops, New(o) \/ PollFuture(o) \/ PollStream(o) \/ DropCompleted(o)
                              \/ PostMore(o) \/ PostLast(o)
      PROVE  UNCHANGED waiters
  BY <1>3 DEF New, PollFuture, PollStream, DropCompleted, PostMore, PostLast
<1>4. ASSUME NEW o \in Ops, PollUnsubmitted(o)
      PROVE  UNCHANGED waiters \/ Joins
  BY <1>4 DEF PollUnsubmitted
<1>5. ASSUME NEW o \in Ops, DropUnsubmitted(o)
      PROVE  UNCHANGED waiters \/ Some \/ Leaves
  <2> DEFINE gone == [op EXCEPT ![o] = Unused]
  <2>1. gone[o].wait = "none"
    BY <1>1 DEF Unused
  <2>2. \/ UNCHANGED waiters
        \/ op' = gone /\ Unlink(o)
        \/ Notify(gone, 1)
    BY <1>5, Zenon DEF DropUnsubmitted
  <2> HIDE DEF gone
  <2> QED
    BY <1>1, <1>2, <2>1, <2>2
<1>6. ASSUME NEW o \in Ops, DropSubmitted(o)
      PROVE  UNCHANGED waiters \/ Some
  <2>1. UNCHANGED waiters \/ \E f : Notify(f, Len(sq))
    BY <1>6, Zenon DEF DropSubmitted
  <2> QED
    BY <1>1, <1>2, <2>1, Zenon
<1>7. ASSUME CloseFd \/ Enter PROVE UNCHANGED waiters \/ Some
  <2>1. UNCHANGED waiters \/ Notify(op, Len(sq))
    BY <1>7 DEF CloseFd, Enter
  <2> QED
    BY <1>1, <1>2, <2>1, Zenon
<1>8. ASSUME Reap \/ CancelAll PROVE UNCHANGED waiters \/ Some
  <2>1. UNCHANGED waiters \/ Notify(op, Len(waiters))
    BY <1>8 DEF Reap, CancelAll
  <2> QED
    BY <1>1, <1>2, <2>1, Zenon
<1>9. ASSUME WakeUp PROVE UNCHANGED waiters \/ Some
  <2>1. Notify(op, entered)
    BY <1>9 DEF WakeUp
  <2> QED
    BY <1>1, <1>2, <2>1, Zenon
<1>10. ASSUME \/ EndDrain \/ Prepare \/ EnterBusy \/ CancelBusy \/ EndShutdown \/ Interrupted
              \/ PostDrain \/ BeginShutdown \/ (\E m \in BOOLEAN : Park(m)) \/ UNCHANGED vars
       PROVE  UNCHANGED waiters
  BY <1>10 DEF EndDrain, Prepare, EnterBusy, CancelBusy, EndShutdown, Interrupted, PostDrain,
    BeginShutdown, Park, vars
<1>11. UNCHANGED waiters \/ Joins \/ Some \/ Leaves
  <2> HIDE DEF Joins, Some, Leaves
  <2> QED
    BY <1>3, <1>4, <1>5, <1>6, <1>7, <1>8, <1>9, <1>10, Zenon DEF Next, Driver, Poll
<1> QED
  BY <1>11, Zenon DEF Served

(* Room goes to those who wait in the order of their coming: nobody is     *)
(* notified while one before him goes on waiting, and no step, a drop      *)
(* included, changes the order of those who stay.                          *)
RoomGoesInTurn == [][InTurn]_vars

THEOREM WaitersTakeTurns == Spec => RoomGoesInTurn
<1>1. OInv /\ OInv' /\ [Next]_vars => InTurn
  <2> SUFFICES ASSUME OInv, OInv', [Next]_vars PROVE InTurn
    OBVIOUS
  <2>1. Waits /\ Waits'
    BY DEF OInv, Core
  <2> QED
    BY <2>1, OperationsAssumption, WaitersStep, TurnsSame, TurnsAppend, TurnsSuffix, TurnsUnlink
<1> QED
  BY <1>1, OperationsInvariant, PTL DEF Spec, RoomGoesInTurn

-----------------------------------------------------------------------------
(* What is dropped is cancelled.                                           *)

(* It was cancelled, or a cancellation for it is in the queue behind it,   *)
(* or could not be submitted; or its last completion is to be reaped.      *)
Meant(o) == o \in cancelled \cup Hit \cup unsent \/ Ends(o)

(* No dropped operation is forgotten: what the code does for               *)
(* DroppedIsFreed it does in the step of the drop, and what is left is the *)
(* kernel's answer.                                                        *)
DroppedIsCancelled == \A o \in Ops : op[o].stage = "dropped" => Meant(o)

LEMMA StageKept ==
  ASSUME NEW f, f \in [Ops -> Operation], NEW n, Notify(f, n)
  PROVE  \A o \in Ops : op'[o].stage = f[o].stage
<1>1. op' = Fire(f, FirstWaiters(n))
  BY DEF Notify
<1>2. \A o \in Ops : op'[o] = Told(f[o]) \/ op'[o] = f[o]
  BY <1>1, Fires
<1>3. \A r \in Operation : Told(r).stage = r.stage
  BY DEF Operation, Told
<1>4. \A o \in Ops : f[o] \in Operation
  OBVIOUS
<1> QED
  BY <1>2, <1>3, <1>4

(* An operation without an entry goes with its future. *)
LEMMA GoneAtOnce ==
  ASSUME NEW o, NEW r, NEW n, Good(o, r, "none", n), r.stage \in {"submitted", "completed"},
         NEW d, d.refcount = r.refcount
  PROVE  r.refcount = 1 /\ Unref(d).stage = "none"
<1>1. r.refcount = 1
  BY DEF Good, One
<1> QED
  BY <1>1 DEF Unref, Destroyed, Unused

LEMMA OnlyDropsDrop ==
  ASSUME OperationsAssumption, OInv, [Next]_vars, NEW o \in Ops, op'[o].stage = "dropped"
  PROVE  op[o].stage = "dropped" \/ DropSubmitted(o)
<1>1. Core /\ op \in [Ops -> Operation] /\ \A x \in Ops : op[x] \in Operation
  BY DEF OInv, Core, Local
<1>2. ASSUME NEW x \in Ops, New(x) \/ PollUnsubmitted(x) \/ PollFuture(x) \/ PollStream(x)
                              \/ PostMore(x) \/ PostLast(x)
      PROVE  op[o].stage = "dropped"
  <2> DEFINE r == op[x]
             taken == [r EXCEPT !.woken = TRUE, !.held = @ - 1,
                                !.completions = SubSeq(@, 1, Len(@) - 1)]
  <2>1. ASSUME NEW s, op' = [op EXCEPT ![x] = s], s.stage # "dropped" \/ s.stage = r.stage
        PROVE  op[o].stage = "dropped"
    BY <1>1, <2>1
  <2>2. /\ Waiter(r).stage = r.stage /\ Pushed(r).stage = "submitted" /\ Pend(r).stage = r.stage
        /\ Finished(r).stage = "completed" /\ Ended(r).stage = "completed"
        /\ taken.stage = r.stage /\ \A s \in Posted(r) : s.stage = r.stage
    BY <1>1 DEF Waiter, Pushed, Pend, Finished, Ended, Posted, Operation
  <2>3. CASE New(x)
    BY <1>1, <2>3 DEF New, Unused
  <2>4. CASE PollUnsubmitted(x)
    <3>1. op' = [op EXCEPT ![x] = Waiter(r)] \/ op' = [op EXCEPT ![x] = Pushed(r)]
      BY <1>1, <2>4 DEF PollUnsubmitted, Waiter, Pushed
    <3> HIDE DEF r
    <3> QED
      BY <2>1, <2>2, <3>1
  <2>5. CASE PollFuture(x)
    <3>1. op' = [op EXCEPT ![x] = Finished(r)] \/ op' = [op EXCEPT ![x] = Pend(r)]
      BY <2>5 DEF PollFuture, Finished
    <3> HIDE DEF r
    <3> QED
      BY <2>1, <2>2, <3>1
  <2>6. CASE PollStream(x)
    <3>1. \/ op' = [op EXCEPT ![x] = taken] \/ op' = [op EXCEPT ![x] = Ended(r)]
          \/ op' = [op EXCEPT ![x] = Pend(r)]
      BY <2>6 DEF PollStream, Ended
    <3> HIDE DEF r, taken
    <3> QED
      BY <2>1, <2>2, <3>1
  <2>7. CASE PostMore(x) \/ PostLast(x)
    <3>1. \E s \in Posted(r) : op' = [op EXCEPT ![x] = s]
      BY <1>1, <2>7 DEF PostMore, PostLast, Posted
    <3> HIDE DEF r
    <3> QED
      BY <2>1, <2>2, <3>1
  <2> QED
    BY <1>2, <2>3, <2>4, <2>5, <2>6, <2>7
<1>3. ASSUME NEW x \in Ops, DropUnsubmitted(x)
      PROVE  op[o].stage = "dropped"
  <2> DEFINE gone == [op EXCEPT ![x] = Unused]
  <2>1. gone \in [Ops -> Operation]
    BY <1>1, UnusedIsGood DEF Good
  <2>2. op' = gone \/ Notify(gone, 1)
    BY <1>3, Zenon DEF DropUnsubmitted
  <2>3. gone[o].stage = "dropped" => op[o].stage = "dropped"
    BY <1>1 DEF Unused
  <2> HIDE DEF gone
  <2> QED
    BY <2>1, <2>2, <2>3, StageKept
<1>4. ASSUME NEW x \in Ops, x # o, DropSubmitted(x)
      PROVE  op[o].stage = "dropped"
  <2> DEFINE r == op[x]  p == Place(x)  n == Count(x)
             d == [r EXCEPT !.stage = "dropped", !.woken = FALSE]
             gone == [op EXCEPT ![x] = Unref(d)]
  <2>1. Good(x, r, p, n) /\ n \in Nat
    BY <1>1, Here
  <2>2. r.stage = "submitted" /\ (Notify(gone, Len(sq)) \/ op' = gone)
    BY <1>4 DEF DropSubmitted
  <2>3. Unref(d) \in Operation
    <3>1. Good(x, Unref(d), p, n)
      <4> HIDE DEF r, p, n
      <4> QED
        BY <2>1, <2>2, DropIsGood, Zenon
    <3> QED
      BY <3>1 DEF Good
  <2> HIDE DEF d
  <2>4. gone \in [Ops -> Operation] /\ gone[o] = op[o]
    BY <1>1, <1>4, <2>3
  <2> HIDE DEF gone
  <2> QED
    BY <2>2, <2>4, StageKept
<1>5. ASSUME NEW x \in Ops, DropCompleted(x)
      PROVE  op[o].stage = "dropped"
  <2> DEFINE d == [op[x] EXCEPT !.stage = "dropped"]
  <2>1. op[x].stage = "completed" /\ op' = [op EXCEPT ![x] = Unref(d)]
    BY <1>5 DEF DropCompleted
  <2>2. Good(x, op[x], Place(x), Count(x))
    BY <1>1, Here
  <2>3. Place(x) = "none"
    BY <2>1, <2>2 DEF Good
  <2>4. d.refcount = op[x].refcount
    BY <1>1 DEF Operation
  <2> HIDE DEF d
  <2>5. Unref(d).stage = "none"
    BY <2>1, <2>2, <2>3, <2>4, GoneAtOnce
  <2> QED
    BY <1>1, <2>1, <2>5
<1>6. ASSUME CloseFd \/ Enter \/ WakeUp \/ CancelAll
      PROVE  op[o].stage = "dropped"
  <2>1. UNCHANGED op \/ \E n : Notify(op, n)
    BY <1>6, Zenon DEF CloseFd, Enter, WakeUp, CancelAll
  <2> QED
    BY <1>1, <2>1, StageKept
<1>7. ASSUME Reap
      PROVE  op[o].stage = "dropped"
  <2> PICK c : c = Head(cq)
    OBVIOUS
  <2>1. \/ Notify(op, Len(waiters))
        \/ c.kind = "op" /\ op' = [op EXCEPT ![c.op] = Received(@, c.more)]
    BY <1>7 DEF Reap
  <2>2. ASSUME NEW r \in Operation, NEW m, Received(r, m).stage = "dropped"
        PROVE  r.stage = "dropped"
    <3> DEFINE s == [r EXCEPT !.completions = Append(@, m), !.complete = @ \/ ~m, !.waker = FALSE,
                              !.woken = @ \/ (r.waker /\ r.stage = "submitted")]
    <3>1. s.stage = r.stage /\ [s EXCEPT !.refcount = @ - 1].stage = r.stage
      BY DEF Operation
    <3>2. Received(r, m) = s \/ Received(r, m) = Unref(s)
      BY Zenon DEF Received
    <3> HIDE DEF s
    <3>3. Unref(s).stage \in {"none", r.stage}
      BY <3>1 DEF Unref, Destroyed, Unused
    <3> QED
      BY <2>2, <3>1, <3>2, <3>3
  <2>3. CASE Notify(op, Len(waiters))
    BY <1>1, <2>3, StageKept
  <2>4. CASE op' = [op EXCEPT ![c.op] = Received(@, c.more)]
    <3>1. op'[o] = op[o] \/ op'[o] = Received(op[o], c.more)
      BY <1>1, <2>4
    <3> QED
      BY <1>1, <2>2, <3>1
  <2> QED
    BY <2>1, <2>3, <2>4
<1>8. ASSUME \/ EndDrain \/ Prepare \/ EnterBusy \/ CancelBusy \/ EndShutdown \/ Interrupted
             \/ PostDrain \/ BeginShutdown \/ (\E m \in BOOLEAN : Park(m)) \/ UNCHANGED vars
      PROVE  op[o].stage = "dropped"
  <2>1. UNCHANGED op
    BY <1>8 DEF EndDrain, Prepare, EnterBusy, CancelBusy, EndShutdown, Interrupted, PostDrain,
      BeginShutdown, Park, vars
  <2> QED
    BY <2>1
<1> QED
  BY <1>2, <1>3, <1>4, <1>5, <1>6, <1>7, <1>8, Zenon DEF Next, Driver, Poll

(* What stands for an operation stays, as long as it does. *)
LEMMA MeantStays ==
  ASSUME OperationsAssumption, OInv, [Next]_vars, NEW o \in Ops, Meant(o), op'[o].stage = "dropped"
  PROVE  Meant(o)'
<1>1. Rings /\ Core /\ cancelled \subseteq armed
  BY DEF OInv, Core, Thread
<1>2. /\ sq \in Seq(Entry) /\ DOMAIN sq = 1..Len(sq) /\ Len(sq) \in Nat
      /\ cq \in Seq(Completion) /\ DOMAIN cq = 1..Len(cq) /\ Len(cq) \in Nat
  BY <1>1, LenProperties DEF Rings
<1>3. ASSUME UNCHANGED sq \/ \E e : sq' = Append(sq, e),
             UNCHANGED <<armed, cancelled, unsent>>,
             UNCHANGED cq \/ \E c : cq' = Append(cq, c)
      PROVE  Meant(o)'
  <2>1. /\ \A i \in DOMAIN sq : i \in DOMAIN sq' /\ sq'[i] = sq[i]
        /\ \A i \in DOMAIN cq : i \in DOMAIN cq' /\ cq'[i] = cq[i]
    BY <1>2, <1>3
  <2>2. armed' = armed
    BY <1>3
  <2>3. o \in Hit => o \in Hit'
    <3> SUFFICES ASSUME NEW i \in DOMAIN sq, sq[i] = CancelEntry(o),
                        o \in armed \/ \E j \in 1..(i - 1) : sq[j] = OpEntry(o)
                 PROVE  o \in Hit'
      BY DEF Hit
    <3>1. \A j \in 1..(i - 1) : j \in DOMAIN sq
      BY <1>2
    <3>2. o \in armed' \/ \E j \in 1..(i - 1) : sq'[j] = OpEntry(o)
      BY <2>1, <2>2, <3>1
    <3>3. i \in DOMAIN sq' /\ sq'[i] = CancelEntry(o)
      BY <2>1
    <3> QED
      BY <3>2, <3>3 DEF Hit
  <2>4. Ends(o) => Ends(o)'
    BY <2>1 DEF Ends
  <2> QED
    BY <1>3, <2>3, <2>4 DEF Meant
<1>4. ASSUME Take, UNCHANGED cq, unsent \subseteq unsent'
      PROVE  Meant(o)'
  <2>1. Ends(o)' <=> Ends(o)
    BY <1>4 DEF Ends
  <2> QED
    BY <1>4, <2>1 DEF Meant, Take
<1>5. CASE \E x \in Ops : \/ New(x) \/ PollUnsubmitted(x) \/ PollFuture(x) \/ PollStream(x)
                          \/ DropUnsubmitted(x) \/ DropCompleted(x)
  <2>1. /\ UNCHANGED <<cq, armed, cancelled, unsent>>
        /\ UNCHANGED sq \/ \E e : sq' = Append(sq, e)
    BY <1>5 DEF New, PollUnsubmitted, PollFuture, PollStream, DropUnsubmitted, DropCompleted, kernel
  <2> QED
    BY <1>3, <2>1
<1>6. CASE \E x \in Ops : DropSubmitted(x)
  <2>1. UNCHANGED cq /\ unsent \subseteq unsent' /\ (Take \/ UNCHANGED <<sq, armed, cancelled>>)
    BY <1>6 DEF DropSubmitted
  <2>2. Ends(o)' <=> Ends(o)
    BY <2>1 DEF Ends
  <2>3. UNCHANGED <<sq, armed>> => Hit' = Hit
    BY DEF Hit
  <2> QED
    BY <1>4, <2>1, <2>2, <2>3 DEF Meant
<1>7. CASE CloseFd
  <2>1. /\ UNCHANGED cq /\ UNCHANGED unsent
        /\ Take \/ ((\E e : sq' = Append(sq, e)) /\ UNCHANGED <<armed, cancelled>>)
    BY <1>7 DEF CloseFd, thread
  <2> QED
    BY <1>3, <1>4, <2>1
<1>8. CASE Enter
  BY <1>4, <1>8 DEF Enter
<1>9. CASE CancelAll
  <2>1. /\ armed' = armed \cup Submitted /\ cancelled' = armed' /\ UNCHANGED <<cq, unsent>>
    BY <1>9 DEF CancelAll
  <2>2. o \in Hit => o \in armed'
    BY <1>1, <2>1, HitIsPlaced, Places DEF Submitted, Queues
  <2>3. Ends(o)' <=> Ends(o)
    BY <2>1 DEF Ends
  <2> QED
    BY <1>1, <2>1, <2>2, <2>3 DEF Meant
<1>10. ASSUME NEW x \in Ops, PostMore(x) \/ PostLast(x)
       PROVE  Meant(o)'
  <2>1. CASE PostMore(x)
    BY <1>3, <2>1 DEF PostMore
  <2>2. CASE PostLast(x)
    <3>1. /\ armed' = armed \ {x} /\ cancelled' = cancelled \ {x} /\ unsent' = unsent \ {x}
          /\ cq' = Append(cq, End(x)) /\ UNCHANGED sq
      BY <2>2 DEF PostLast, End
    <3>2. /\ Len(cq) + 1 \in DOMAIN cq' /\ cq'[Len(cq) + 1] = End(x)
          /\ \A i \in DOMAIN cq : i \in DOMAIN cq' /\ cq'[i] = cq[i]
      BY <1>2, <3>1
    <3>3. CASE x = o
      BY <3>2, <3>3 DEF Meant, Ends
    <3>4. CASE x # o
      <4>1. o \in Hit => o \in Hit'
        BY <3>1, <3>4 DEF Hit
      <4>2. Ends(o) => Ends(o)'
        BY <3>2 DEF Ends
      <4> QED
        BY <3>1, <3>4, <4>1, <4>2 DEF Meant
    <3> QED
      BY <3>3, <3>4
  <2> QED
    BY <1>10, <2>1, <2>2
<1>11. CASE Reap
  <2>1. cq # <<>> /\ cq' = Tail(cq) /\ UNCHANGED <<sq, armed, cancelled, unsent>>
    BY <1>11 DEF Reap
  <2>2. Hit' = Hit
    BY <2>1 DEF Hit
  <2>3. CASE ~Ends(o)
    BY <2>1, <2>2, <2>3 DEF Meant
  <2>4. CASE Ends(o) /\ Head(cq) # End(o)
    <3>1. PICK i \in DOMAIN cq : cq[i] = End(o)
      BY <2>4 DEF Ends
    <3>2. /\ Head(cq) = cq[1] /\ DOMAIN cq' = 1..(Len(cq) - 1)
          /\ \A j \in 1..(Len(cq) - 1) : cq'[j] = cq[j + 1]
      BY <1>2, <2>1, EmptySeq, HeadTailProperties, LenProperties
    <3>3. i - 1 \in DOMAIN cq' /\ (i - 1) + 1 = i
      BY <1>2, <2>4, <3>1, <3>2
    <3>4. cq'[i - 1] = End(o)
      BY <3>1, <3>2, <3>3
    <3> QED
      BY <3>3, <3>4 DEF Meant, Ends
  <2>5. CASE Head(cq) = End(o)
    <3>1. Place(o) = "cq" /\ Count(o) = 1
      BY <1>1, <2>1, <2>5, Reaps
    <3>2. op[o].stage = "dropped"
      BY <1>11, OnlyDropsDrop DEF DropSubmitted, Reap, Drops
    <3>3. Good(o, op[o], "cq", 1) /\ op \in [Ops -> Operation]
      BY <1>1, <3>1, Here DEF Core, Local
    <3>4. op' = [op EXCEPT ![o] = Concluded(op[o])]
      <4>1. Head(cq).kind = "op" /\ Head(cq).op = o /\ Head(cq).more = FALSE
        BY <2>5, Completions, Mores
      <4> QED
        BY <1>11, <4>1 DEF Reap, Concluded
    <3>5. Concluded(op[o]).stage = "none"
      <4> DEFINE r == op[o]
                 s == [r EXCEPT !.completions = Append(@, FALSE), !.complete = @ \/ ~FALSE,
                                !.waker = FALSE, !.woken = @ \/ (r.waker /\ r.stage = "submitted")]
      <4>1. r.refcount = 1
        BY <3>2, <3>3 DEF Good, One
      <4>2. s.refcount = r.refcount
        BY <3>3 DEF Operation
      <4>3. Concluded(r) = Unref(s)
        BY Zenon DEF Concluded, Received
      <4> HIDE DEF r, s
      <4>4. Unref(s).stage = "none"
        BY <4>1, <4>2 DEF Unref, Destroyed, Unused
      <4> QED
        BY <4>3, <4>4 DEF r
    <3> HIDE DEF Concluded
    <3> QED
      BY <3>3, <3>4, <3>5
  <2> QED
    BY <2>3, <2>4, <2>5
<1>12. CASE \/ EndDrain \/ Prepare \/ EnterBusy \/ CancelBusy \/ EndShutdown \/ Interrupted \/ WakeUp
            \/ PostDrain \/ BeginShutdown \/ (\E m \in BOOLEAN : Park(m)) \/ UNCHANGED vars
  <2>1. /\ UNCHANGED <<armed, cancelled, unsent>>
        /\ UNCHANGED sq \/ \E e : sq' = Append(sq, e)
        /\ UNCHANGED cq \/ \E c : cq' = Append(cq, c)
    BY <1>12 DEF EndDrain, Prepare, EnterBusy, CancelBusy, EndShutdown, Interrupted, WakeUp,
      PostDrain, BeginShutdown, Park, vars, kernel
  <2> QED
    BY <1>3, <2>1
<1> QED
  BY <1>5, <1>6, <1>7, <1>8, <1>9, <1>10, <1>11, <1>12 DEF Next, Driver, Poll

(* The drop of a future that leaves its operation behind. *)
LEMMA MeantByDrop ==
  ASSUME OperationsAssumption, OInv, NEW o \in Ops, DropSubmitted(o), op'[o].stage = "dropped"
  PROVE  Meant(o)'
<1> DEFINE r == op[o]  p == Place(o)  n == Count(o)
           d == [r EXCEPT !.stage = "dropped", !.woken = FALSE]
           gone == [op EXCEPT ![o] = Unref(d)]
<1>1. /\ Core /\ op \in [Ops -> Operation] /\ Good(o, r, p, n) /\ n \in Nat /\ r \in Operation
      /\ p \in {"sq", "kernel", "cq", "none"}
  BY Here DEF OInv, Core, Local
<1>2. /\ r.stage = "submitted" /\ UNCHANGED cq
      /\ \/ Notify(gone, Len(sq)) /\ Take /\ sq' = <<CancelEntry(o)>>
         \/ op' = gone /\ unsent' = IF r.refcount = 1 THEN unsent ELSE unsent \cup {o}
  BY DEF DropSubmitted
<1>3. d.refcount = r.refcount
  BY <1>1 DEF Operation
<1>4. Unref(d) \in Operation
  <2>1. Good(o, Unref(d), p, n)
    <3> HIDE DEF r, p, n
    <3> QED
      BY <1>1, <1>2, DropIsGood, Zenon
  <2> QED
    BY <2>1 DEF Good
<1>5. r.refcount = 1 => Unref(d).stage = "none"
  <2> HIDE DEF d, r
  <2> QED
    BY <1>3 DEF Unref, Destroyed, Unused
<1>6. p = "none" => r.refcount = 1
  BY <1>1, <1>2, GoneAtOnce
<1> HIDE DEF d
<1>7. gone \in [Ops -> Operation] /\ gone[o] = Unref(d)
  BY <1>1, <1>4
<1> HIDE DEF gone
<1>8. op'[o].stage = gone[o].stage
  BY <1>2, <1>7, StageKept
<1>9. r.refcount # 1 /\ p # "none"
  BY <1>5, <1>6, <1>7, <1>8
<1>10. CASE unsent' = IF r.refcount = 1 THEN unsent ELSE unsent \cup {o}
  BY <1>9, <1>10 DEF Meant
<1>11. CASE Take /\ sq' = <<CancelEntry(o)>>
  <2>1. CASE p = "cq"
    <3>1. Ends(o)
      BY <2>1 DEF Place
    <3> QED
      BY <1>2, <3>1 DEF Meant, Ends
  <2>2. CASE p # "cq"
    <3>1. o \in armed'
      BY <1>1, <1>9, <1>11, <2>2, Places DEF Take, Submitted, Queues, Core
    <3>2. 1 \in DOMAIN sq' /\ sq'[1] = CancelEntry(o)
      BY <1>11
    <3>3. o \in Hit'
      BY <3>1, <3>2 DEF Hit
    <3> QED
      BY <3>3 DEF Meant
  <2> QED
    BY <2>1, <2>2
<1> QED
  BY <1>2, <1>10, <1>11

(* A dropped operation is cancelled, or about to be, or was answered,      *)
(* unless the submission of its cancellation failed.                       *)
THEOREM DropsAreCancelled == Spec => []DroppedIsCancelled
<1>1. Init => DroppedIsCancelled
  BY DEF Init, DroppedIsCancelled, Unused
<1>2. OInv /\ DroppedIsCancelled /\ [Next]_vars => DroppedIsCancelled'
  <2> SUFFICES ASSUME OInv, DroppedIsCancelled, [Next]_vars, NEW o \in Ops,
                      op'[o].stage = "dropped"
               PROVE  Meant(o)'
    BY DEF DroppedIsCancelled
  <2>1. CASE op[o].stage = "dropped"
    BY <2>1, OperationsAssumption, MeantStays DEF DroppedIsCancelled
  <2>2. CASE DropSubmitted(o)
    BY <2>2, OperationsAssumption, MeantByDrop
  <2> QED
    BY <2>1, <2>2, OperationsAssumption, OnlyDropsDrop
<1> QED
  BY <1>1, <1>2, OperationsInvariant, PTL DEF Spec
=============================================================================
