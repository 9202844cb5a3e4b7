--------------------------- MODULE BufRingProofs ---------------------------
(***************************************************************************)
(* The invariant of BufRing, for every set of rings and of receives, every *)
(* width of the tail and every request.                                    *)
(*                                                                         *)
(* RegisteredWhileUsed is not inductive: that a receive has its ring under *)
(* its identifier follows from who keeps a ring alive.  As long as nothing *)
(* unregistered another's ring (harm), the rings that live and the groups  *)
(* of the kernel are one to one, and what owns a ring keeps it alive.      *)
(***************************************************************************)
EXTENDS BufRing, FiniteSetTheorems, TLAPS

(* The rings that live are those of the groups. *)
GroupsAreRings ==
  /\ \A g \in Bgids : group[g] # None => ring[group[g]].live /\ ring[group[g]].bgid = g
  /\ \A r \in Rings : ring[r].live => group[ring[r].bgid] = r

(* What is owned lives. *)
OwnedIsLive ==
  /\ \A r \in Rings : ring[r].handles > 0 => ring[r].live
  /\ \A r \in Rings, b \in Bids : held[r][b] > 0 => ring[r].live
  /\ \A o \in Ops : op[o].uses # None => ring[op[o].uses].live

(* A buffer is of the ring of which it was asked. *)
ResultsAreOwn ==
  \A o \in Ops : op[o].result.kind = "buffer" => op[o].result.ring = op[o].uses

Ownership == GroupsAreRings /\ OwnedIsLive /\ ResultsAreOwn

(* What has no ring is no receive. *)
UnusedIsIdle ==
  \A o \in Ops : op[o].uses = None => ~op[o].sent /\ op[o].result.kind = "none"

RingInv == TypeOK /\ UnusedIsIdle /\ (harm = "none" => Ownership)

-----------------------------------------------------------------------------
(* The sizes of rings.                                                     *)

LEMMA Widths ==
  /\ Width \in Nat /\ MaxEntries \in PowersOfTwo /\ MaxEntries \in Nat \ {0}
  /\ Width = 2 * MaxEntries /\ 0 \in Bids /\ Bids \subseteq Nat
<1>1. PICK p \in PowersOfTwo : Width = 2 * p
  BY BufRingAssumption
<1>2. p \in Nat \ {0}
  BY DEF PowersOfTwo
<1>3. MaxEntries = p
  BY <1>1, <1>2 DEF MaxEntries
<1> QED BY <1>1, <1>2, <1>3 DEF Bids

(* The least power of two that is enough is one, and no more than another. *)
LEMMA Rounded ==
  ASSUME NEW n \in 1..MaxEntries
  PROVE  NextPowerOfTwo(n) \in PowersOfTwo /\ NextPowerOfTwo(n) \in n..MaxEntries
<1>1. \E p \in PowersOfTwo : p >= n /\ \A q \in PowersOfTwo : q >= n => p <= q
  <2>1. MaxEntries \in PowersOfTwo
    BY Widths
  <2>2. n \in Nat /\ 1 <= n /\ n <= 32768
    BY <2>1 DEF PowersOfTwo
  <2> QED BY <2>2 DEF PowersOfTwo
<1> DEFINE p == NextPowerOfTwo(n)
<1>2. p \in PowersOfTwo /\ p >= n /\ \A q \in PowersOfTwo : q >= n => p <= q
  BY <1>1 DEF NextPowerOfTwo
<1>3. p <= MaxEntries
  BY <1>2, Widths
<1>4. p \in Nat
  BY <1>2 DEF PowersOfTwo
<1> QED BY <1>2, <1>3, <1>4, Widths

(* What a Builder that is accepted makes: at least an entry for a buffer.  *)
LEMMA Sizes ==
  ASSUME NEW q \in Requests, Accepted(q)
  PROVE  /\ Size(q).bufs \in 1..MaxEntries /\ Size(q).entries \in 1..MaxEntries
         /\ Size(q).bufs <= Size(q).entries
<1> DEFINE most == Max({q.entries, q.bufs})
<1>1. q.entries \in Nat /\ q.bufs \in Nat
  BY Widths, BufRingAssumption
<1>2. most \in {q.entries, q.bufs} /\ most >= q.entries /\ most >= q.bufs
  <2>1. \E x \in {q.entries, q.bufs} : \A y \in {q.entries, q.bufs} : x >= y
    BY <1>1
  <2> QED BY <2>1 DEF Max
<1>3. Size(q) = IF q.bufs = 0 \/ q.entries < q.bufs
                THEN [entries |-> most, bufs |-> most] ELSE q
  BY DEF Size
<1>4. Size(q).bufs \in Nat /\ Size(q).entries \in Nat /\ Size(q).bufs <= Size(q).entries
  BY <1>1, <1>2, <1>3
<1> QED BY <1>4, Widths DEF Accepted

(* An index is of an entry. *)
LEMMA Indices ==
  ASSUME TypeOK, NEW r \in Rings, NEW t \in Nat
  PROVE  Index(r, t) \in Bids /\ Index(r, t) \in 0..(ring[r].entries - 1)
<1>1. ring[r].entries \in 1..MaxEntries
  BY DEF TypeOK, Ring
<1>2. \A e \in Nat \ {0} : t % e \in 0..(e - 1)
  OBVIOUS
<1> QED BY <1>1, <1>2, Widths DEF Index, Bids

(* A tail that goes one further wraps around. *)
LEMMA Wrapped ==
  ASSUME NEW t \in 0..(Width - 1)
  PROVE  (t + 1) % Width \in 0..(Width - 1)
BY Widths

LEMMA PushedTyped ==
  ASSUME TypeOK, NEW r \in Rings, NEW b \in Bids
  PROVE  Pushed(r, b) \in [Rings -> Ring]
<1> DEFINE tail == (ring[r].tail + 1) % Width
           slots == [ring[r].slots EXCEPT ![Index(r, ring[r].tail)] = b]
           new == [ring[r] EXCEPT !.slots = slots, !.tail = tail]
<1>1. tail \in 0..(Width - 1)
  BY Wrapped DEF TypeOK, Ring
<1>2. ring \in [Rings -> Ring] /\ ring[r] \in Ring /\ slots \in [Bids -> Bids]
  BY DEF TypeOK, Ring
<1>3. Pushed(r, b) = [ring EXCEPT ![r] = new]
  BY <1>2 DEF Pushed
<1> HIDE DEF tail, slots
<1>4. new \in Ring
  BY <1>1, <1>2 DEF Ring
<1> QED BY <1>2, <1>3, <1>4

-----------------------------------------------------------------------------
(* The types.                                                              *)

LEMMA NoRingTyped == NoRing \in Ring /\ ~NoRing.live /\ NoRing.handles = 0
BY Widths, BufRingAssumption DEF NoRing, Ring, Bids

LEMMA NoOpTyped ==
  /\ NoOp \in Operation /\ NoOp.uses = None /\ ~NoOp.future /\ ~NoOp.sent
  /\ NoOp.result.kind = "none"
BY Widths DEF NoOp, Operation, Result, Bare

LEMMA InitTyped == Init => TypeOK
BY Widths, NoRingTyped, NoOpTyped DEF Init, TypeOK

LEMMA BuiltTyped ==
  ASSUME TypeOK, NEW r \in Rings, NEW g \in Bgids, NEW q \in Requests, Build(r, g, q)
  PROVE  TypeOK'
<1> DEFINE size == Size(q)
           entries == NextPowerOfTwo(size.entries)
           slots == [b \in Bids |-> IF b < size.bufs THEN b ELSE 0]
           new == [live |-> TRUE, bgid |-> g, bufs |-> size.bufs, entries |-> entries,
                   slots |-> slots, tail |-> size.bufs, shared |-> 0, handles |-> 1]
<1>1. size.bufs \in 1..MaxEntries /\ size.entries \in 1..MaxEntries
  BY Sizes DEF Build
<1>2. entries \in 1..MaxEntries
  BY <1>1, Rounded, Widths
<1>3. slots \in [Bids -> Bids]
  BY Widths
<1>4. new \in Ring
  <2> HIDE DEF size, entries, slots
  <2>1. size.bufs \in 0..MaxEntries /\ size.bufs \in 0..(Width - 1)
    BY <1>1, Widths
  <2>2. 0 \in 0..(Width - 1) /\ 1 \in 0..MaxHandles
    BY Widths, BufRingAssumption
  <2> QED BY <1>2, <1>3, <2>1, <2>2 DEF Ring
<1>5. ring' = [ring EXCEPT ![r] = new] /\ group' = [group EXCEPT ![g] = r]
  BY DEF Build
<1> HIDE DEF new
<1> QED BY <1>4, <1>5 DEF TypeOK, Build

LEMMA NextTyped == ASSUME TypeOK, UnusedIsIdle, Next PROVE TypeOK'
<1>1. ASSUME NEW r \in Rings, NEW g \in Bgids, BuildFails(r, g) PROVE TypeOK'
  BY <1>1 DEF TypeOK, BuildFails
<1>2. ASSUME NEW r \in Rings, NEW b \in Bids, DropBuf(r, b) PROVE TypeOK'
  BY <1>2, PushedTyped DEF TypeOK, DropBuf
<1>3. ASSUME NEW r \in Rings, NEW o \in Ops, Receive(o, r) PROVE TypeOK'
  <2>1. [uses |-> r, future |-> TRUE, sent |-> TRUE, result |-> Bare("none")] \in Operation
    BY Widths DEF Operation, Result, Bare
  <2> QED BY <1>3, <2>1 DEF TypeOK, Receive
<1>4. ASSUME NEW r \in Rings, Sync(r) PROVE TypeOK'
  BY <1>4 DEF TypeOK, Sync, Ring
<1>5. ASSUME NEW r \in Rings, Unregister(r) PROVE TypeOK'
  <2>1. ring' \in [Rings -> Ring] /\ head' \in [Rings -> 0..(Width - 1)]
    BY <1>5, Widths, NoRingTyped DEF TypeOK, Unregister
  <2>2. group' \in [Bgids -> Rings \cup {None}]
    BY <1>5 DEF TypeOK, Unregister
  <2> QED BY <1>5, <2>1, <2>2 DEF TypeOK, Unregister
<1>6. ASSUME NEW r \in Rings, Clone(r) PROVE TypeOK'
  BY <1>6, BufRingAssumption DEF TypeOK, Clone, Ring
<1>7. ASSUME NEW r \in Rings, DropHandle(r) PROVE TypeOK'
  <2>1. ring[r].handles - 1 \in 0..MaxHandles
    BY <1>7, BufRingAssumption DEF TypeOK, DropHandle, Ring
  <2> QED BY <1>7, <2>1 DEF TypeOK, DropHandle, Ring
<1>8. ASSUME NEW o \in Ops, Complete(o) PROVE TypeOK'
  <2>1. op' \in [Ops -> Operation]
    BY <1>8, NoOpTyped DEF TypeOK, Complete
  <2>2. held' \in [Rings -> [Bids -> Nat]]
    <3>1. op[o].result.bid \in Bids
      BY DEF TypeOK, Operation, Result
    <3>2. CASE op[o].uses \in Rings
      <4>1. held[op[o].uses][op[o].result.bid] + 1 \in Nat
        BY <3>1, <3>2 DEF TypeOK
      <4> QED BY <1>8, <3>1, <3>2, <4>1 DEF TypeOK, Complete
    <3>3. CASE op[o].uses \notin Rings
      BY <1>8, <3>1, <3>3 DEF TypeOK, Complete
    <3> QED BY <3>2, <3>3
  <2> QED BY <1>8, <2>1, <2>2 DEF TypeOK, Complete
<1>9. ASSUME NEW o \in Ops, DropFuture(o) PROVE TypeOK'
  BY <1>9 DEF TypeOK, DropFuture, Operation
<1>10. ASSUME NEW o \in Ops, Cleanup(o) PROVE TypeOK'
  <2>1. op' \in [Ops -> Operation]
    BY <1>10, NoOpTyped DEF TypeOK, Cleanup
  <2>2. ring' \in [Rings -> Ring]
    <3>1. op[o].result.bid \in Bids /\ op[o].uses \in Rings \cup {None}
      BY DEF TypeOK, Operation, Result
    <3>2. CASE op[o].uses \in Rings
      BY <1>10, <3>1, <3>2, PushedTyped DEF TypeOK, Cleanup
    <3>3. CASE op[o].uses = None
      <4>1. \A b : Pushed(None, b) = ring
        BY BufRingAssumption DEF TypeOK, Pushed
      <4> QED BY <1>10, <3>3, <4>1 DEF TypeOK, Cleanup
    <3> QED BY <3>1, <3>2, <3>3
  <2> QED BY <1>10, <2>1, <2>2 DEF TypeOK, Cleanup
<1>11. ASSUME NEW o \in Ops, KernelReceives(o) PROVE TypeOK'
  <2> DEFINE s == group[ring[op[o].uses].bgid]
             b == ring[s].slots[Index(s, head[s])]
  <2>1. Offered(s) # {} /\ s # None
    BY <1>11 DEF KernelReceives
  <2>2. op[o].uses \in Rings
    BY <1>11 DEF TypeOK, UnusedIsIdle, KernelReceives, Operation
  <2>3. s \in Rings
    BY <2>1, <2>2 DEF TypeOK, Ring
  <2>4. b \in Bids
    <3>1. head[s] \in Nat
      BY <2>3, Widths DEF TypeOK
    <3> QED BY <2>3, <3>1, Indices DEF TypeOK, Ring
  <2>5. (head[s] + 1) % Width \in 0..(Width - 1)
    BY <2>3, Wrapped DEF TypeOK
  <2>6. Buffer(s, b) \in Result
    BY <2>3, <2>4 DEF Buffer, Result
  <2>7. /\ head' = [head EXCEPT ![s] = (@ + 1) % Width]
        /\ op' = [op EXCEPT ![o].sent = FALSE, ![o].result = Buffer(s, b)]
        /\ UNCHANGED <<ring, group, held, harm>>
    BY <1>11 DEF KernelReceives
  <2> HIDE DEF s, b
  <2>8. op' \in [Ops -> Operation]
    BY <2>6, <2>7 DEF TypeOK, Operation
  <2> QED BY <2>3, <2>5, <2>7, <2>8 DEF TypeOK
<1>12. ASSUME NEW o \in Ops, KernelEnds(o) PROVE TypeOK'
  <2>1. PICK k \in {"error", "empty"} :
          op' = [op EXCEPT ![o].sent = FALSE, ![o].result = Bare(k)]
    BY <1>12 DEF KernelEnds
  <2>2. Bare(k) \in Result
    BY Widths DEF Bare, Result
  <2>3. op' \in [Ops -> Operation]
    BY <2>1, <2>2 DEF TypeOK, Operation
  <2> QED BY <1>12, <2>3 DEF TypeOK, KernelEnds
<1> QED BY <1>1, <1>2, <1>3, <1>4, <1>5, <1>6, <1>7, <1>8, <1>9, <1>10, <1>11, <1>12, BuiltTyped
        DEF Next

-----------------------------------------------------------------------------
(* The ownership of rings.                                                 *)

LEMMA NextIdle == ASSUME TypeOK, UnusedIsIdle, Next PROVE UnusedIsIdle'
<1>1. ASSUME op' = op PROVE UnusedIsIdle'
  BY <1>1 DEF UnusedIsIdle
<1>2. ASSUME NEW o \in Ops, op' = [op EXCEPT ![o] = NoOp] PROVE UnusedIsIdle'
  BY <1>2, NoOpTyped DEF UnusedIsIdle, TypeOK
<1>3. ASSUME NEW o \in Ops, NEW r \in Rings, Receive(o, r) PROVE UnusedIsIdle'
  BY <1>3, BufRingAssumption DEF UnusedIsIdle, TypeOK, Receive
<1>4. ASSUME NEW o \in Ops, DropFuture(o) PROVE UnusedIsIdle'
  BY <1>4 DEF UnusedIsIdle, TypeOK, DropFuture
<1>5. ASSUME NEW o \in Ops, KernelReceives(o) PROVE UnusedIsIdle'
  BY <1>5 DEF UnusedIsIdle, TypeOK, Operation, KernelReceives
<1>6. ASSUME NEW o \in Ops, KernelEnds(o) PROVE UnusedIsIdle'
  BY <1>6 DEF UnusedIsIdle, TypeOK, Operation, KernelEnds
<1> QED BY <1>1, <1>2, <1>3, <1>4, <1>5, <1>6
        DEF Next, Build, BuildFails, DropBuf, Sync, Unregister, Clone, DropHandle, Complete, Cleanup

(* A push is of a buffer, and changes nothing that Ownership is about.     *)
LEMMA PushedOwned ==
  ASSUME TypeOK, NEW r, NEW b, ring' = Pushed(r, b)
  PROVE  \A x \in Rings : /\ ring'[x].live = ring[x].live
                           /\ ring'[x].bgid = ring[x].bgid
                           /\ ring'[x].handles = ring[x].handles
BY DEF TypeOK, Ring, Pushed

LEMMA OwnershipInductive ==
  ASSUME TypeOK, UnusedIsIdle, Ownership, Next, harm' = "none"
  PROVE  Ownership'
<1> USE DEF Ownership
<1>1. ASSUME NEW r \in Rings, NEW g \in Bgids, NEW q \in Requests, Build(r, g, q)
      PROVE  Ownership'
  <2>1. /\ ring'[r].live /\ ring'[r].bgid = g
        /\ \A x \in Rings \ {r} : ring'[x] = ring[x]
        /\ group' = [group EXCEPT ![g] = r] /\ group[g] = None /\ ~ring[r].live
        /\ op' = op /\ held' = held
    BY <1>1 DEF Build, TypeOK
  <2>2. GroupsAreRings'
    <3>1. group \in [Bgids -> Rings \cup {None}]
      BY DEF TypeOK
    <3>2. \A h \in Bgids : group'[h] = IF h = g THEN r ELSE group[h]
      BY <2>1, <3>1
    <3>3. ASSUME NEW h \in Bgids, group'[h] # None
          PROVE  ring'[group'[h]].live /\ ring'[group'[h]].bgid = h
      <4>1. CASE h = g
        BY <2>1, <3>2, <4>1
      <4>2. CASE h # g
        BY <2>1, <3>1, <3>2, <3>3, <4>2 DEF GroupsAreRings
      <4> QED BY <4>1, <4>2
    <3>4. ASSUME NEW x \in Rings, ring'[x].live PROVE group'[ring'[x].bgid] = x
      <4>1. CASE x = r
        BY <2>1, <3>2, <4>1
      <4>2. CASE x # r
        <5>1. ring[x].live /\ group[ring[x].bgid] = x /\ ring[x].bgid \in Bgids
          BY <2>1, <3>4, <4>2 DEF GroupsAreRings, TypeOK, Ring
        <5>2. ring[x].bgid # g
          BY <2>1, <5>1, BufRingAssumption
        <5> QED BY <2>1, <3>2, <4>2, <5>1, <5>2
      <4> QED BY <4>1, <4>2
    <3> QED BY <3>3, <3>4 DEF GroupsAreRings
  <2>3. OwnedIsLive'
    <3>2. \A x \in Rings : ring'[x].handles > 0 => ring'[x].live
      BY <2>1 DEF OwnedIsLive
    <3>3. \A x \in Rings, b \in Bids : held'[x][b] > 0 => ring'[x].live
      BY <2>1 DEF OwnedIsLive
    <3>4. \A o \in Ops : op[o].uses \in Rings \cup {None}
      BY DEF TypeOK, Operation
    <3>5. \A o \in Ops : op'[o].uses # None => ring'[op'[o].uses].live
      BY <2>1, <3>4 DEF OwnedIsLive
    <3> QED BY <3>2, <3>3, <3>5 DEF OwnedIsLive
  <2> QED BY <2>1, <2>2, <2>3 DEF ResultsAreOwn
<1>2. ASSUME NEW r \in Rings, NEW g \in Bgids, BuildFails(r, g) PROVE Ownership'
  BY <1>2 DEF BuildFails
<1>3. ASSUME NEW r \in Rings, NEW b \in Bids, DropBuf(r, b) PROVE Ownership'
  <2>1. /\ ring' = Pushed(r, b) /\ held' = [held EXCEPT ![r][b] = @ - 1]
        /\ held[r][b] > 0 /\ group' = group /\ op' = op
    BY <1>3 DEF DropBuf
  <2>2. \A x \in Rings, c \in Bids : held'[x][c] > 0 => held[x][c] > 0
    BY <2>1 DEF TypeOK
  <2> QED BY <2>1, <2>2, PushedOwned
          DEF GroupsAreRings, OwnedIsLive, ResultsAreOwn, TypeOK, Ring, Operation
<1>4. ASSUME NEW r \in Rings, NEW o \in Ops, Receive(o, r) PROVE Ownership'
  BY <1>4 DEF Receive, GroupsAreRings, OwnedIsLive, ResultsAreOwn, TypeOK, Bare
<1>5. ASSUME NEW r \in Rings, Sync(r) PROVE Ownership'
  BY <1>5 DEF Sync, GroupsAreRings, OwnedIsLive, ResultsAreOwn, TypeOK, Ring
<1>6. ASSUME NEW r \in Rings, Unregister(r) PROVE Ownership'
  <2>1. /\ ring' = [ring EXCEPT ![r] = NoRing] /\ group' = [group EXCEPT ![ring[r].bgid] = None]
        /\ op' = op /\ held' = held /\ ring[r].live /\ ~Owned(r)
    BY <1>6 DEF Unregister, Orphan
  <2>2. group[ring[r].bgid] = r
    BY <2>1 DEF GroupsAreRings
  <2>3. GroupsAreRings'
    BY <2>1, <2>2, NoRingTyped DEF GroupsAreRings, TypeOK, Ring
  <2>4. \A o \in Ops : op[o].uses # r
    BY <2>1 DEF Owned, Users
  <2>5. \A b \in Bids : ~(held[r][b] > 0)
    BY <2>1 DEF Owned
  <2>6. OwnedIsLive'
    BY <2>1, <2>4, <2>5, NoRingTyped DEF OwnedIsLive, TypeOK, Operation
  <2> QED BY <2>1, <2>3, <2>6 DEF ResultsAreOwn
<1>7. ASSUME NEW r \in Rings, Clone(r) PROVE Ownership'
  BY <1>7 DEF Clone, GroupsAreRings, OwnedIsLive, ResultsAreOwn, TypeOK, Ring
<1>8. ASSUME NEW r \in Rings, DropHandle(r) PROVE Ownership'
  BY <1>8 DEF DropHandle, GroupsAreRings, OwnedIsLive, ResultsAreOwn, TypeOK, Ring
<1>9. ASSUME NEW o \in Ops, Complete(o) PROVE Ownership'
  <2>1. /\ op' = [op EXCEPT ![o] = NoOp] /\ ring' = ring /\ group' = group
        /\ op[o].result.kind # "none"
    BY <1>9 DEF Complete
  <2>2. op[o].uses # None
    BY <2>1 DEF UnusedIsIdle
  <2>3. \A r \in Rings, b \in Bids : held'[r][b] > 0 => held[r][b] > 0 \/ r = op[o].uses
    BY <1>9 DEF Complete, TypeOK
  <2>4. ring[op[o].uses].live
    BY <2>2 DEF OwnedIsLive
  <2>5. OwnedIsLive'
    BY <2>1, <2>3, <2>4, NoOpTyped DEF OwnedIsLive, TypeOK
  <2> QED BY <2>1, <2>5, NoOpTyped DEF GroupsAreRings, ResultsAreOwn, TypeOK
<1>10. ASSUME NEW o \in Ops, DropFuture(o) PROVE Ownership'
  BY <1>10 DEF DropFuture, GroupsAreRings, OwnedIsLive, ResultsAreOwn, TypeOK, Operation
<1>11. ASSUME NEW o \in Ops, Cleanup(o) PROVE Ownership'
  <2>1. op' = [op EXCEPT ![o] = NoOp] /\ group' = group /\ held' = held
    BY <1>11 DEF Cleanup
  <2>2. \A x \in Rings : /\ ring'[x].live = ring[x].live
                          /\ ring'[x].bgid = ring[x].bgid
                          /\ ring'[x].handles = ring[x].handles
    BY <1>11, PushedOwned DEF Cleanup
  <2> QED BY <2>1, <2>2, NoOpTyped
          DEF GroupsAreRings, OwnedIsLive, ResultsAreOwn, TypeOK, Ring, Operation
<1>12. ASSUME NEW o \in Ops, KernelReceives(o) PROVE Ownership'
  <2> DEFINE s == group[ring[op[o].uses].bgid]
             b == ring[s].slots[Index(s, head[s])]
  <2>1. /\ op' = [op EXCEPT ![o].sent = FALSE, ![o].result = Buffer(s, b)]
        /\ ring' = ring /\ group' = group /\ held' = held /\ op[o].sent
    BY <1>12 DEF KernelReceives
  <2>2. s = op[o].uses
    BY <2>1 DEF GroupsAreRings, OwnedIsLive, UnusedIsIdle, TypeOK, Operation
  <2> HIDE DEF b
  <2>3. ResultsAreOwn'
    BY <2>1, <2>2 DEF ResultsAreOwn, Buffer, TypeOK, Operation
  <2> QED BY <2>1, <2>3 DEF GroupsAreRings, OwnedIsLive, TypeOK, Operation
<1>13. ASSUME NEW o \in Ops, KernelEnds(o) PROVE Ownership'
  BY <1>13 DEF KernelEnds, GroupsAreRings, OwnedIsLive, ResultsAreOwn, TypeOK, Operation, Bare
<1> QED BY <1>1, <1>2, <1>3, <1>4, <1>5, <1>6, <1>7, <1>8, <1>9, <1>10, <1>11, <1>12, <1>13
        DEF Next

-----------------------------------------------------------------------------
LEMMA RingInvInductive == RingInv /\ [Next]_vars => RingInv'
<1> SUFFICES ASSUME RingInv, [Next]_vars PROVE RingInv'
  OBVIOUS
<1>1. CASE Next
  <2>1. harm = "none"
    BY <1>1 DEF Next
  <2> QED BY <1>1, <2>1, NextTyped, NextIdle, OwnershipInductive DEF RingInv
<1>2. CASE UNCHANGED vars
  BY <1>2 DEF vars, RingInv, TypeOK, UnusedIsIdle, Ownership, GroupsAreRings, OwnedIsLive,
              ResultsAreOwn
<1> QED BY <1>1, <1>2

LEMMA RingInvImplies == RingInv => Inv
BY DEF RingInv, Inv, RegisteredWhileUsed, Ownership, GroupsAreRings, OwnedIsLive, ResultsAreOwn,
       TypeOK, Operation

LEMMA RingInvInit == Init => RingInv
<1> SUFFICES ASSUME Init PROVE RingInv
  OBVIOUS
<1>1. TypeOK
  BY InitTyped
<1>2. UnusedIsIdle /\ OwnedIsLive /\ ResultsAreOwn
  BY NoOpTyped, NoRingTyped DEF Init, UnusedIsIdle, OwnedIsLive, ResultsAreOwn
<1>3. GroupsAreRings
  BY NoRingTyped DEF Init, GroupsAreRings
<1> QED BY <1>1, <1>2, <1>3 DEF RingInv, Ownership

(* A buffer is always of the ring that interprets it: until a Builder has  *)
(* failed, no ring is unregistered before its last receive is done.        *)
THEOREM RingsOutliveReceives == Spec => []Inv
<1>1. Spec => []RingInv
  BY RingInvInit, RingInvInductive, PTL DEF Spec
<1> QED BY <1>1, RingInvImplies, PTL

-----------------------------------------------------------------------------
(* The arithmetic of the indices.                                          *)

Indexes == 0..(Width - 1)

(* How far t is ahead of h, without a remainder. *)
Dist(h, t) == IF t >= h THEN t - h ELSE t + Width - h

LEMMA DistIs ==
  ASSUME NEW h \in Indexes, NEW t \in Indexes
  PROVE  (t + Width - h) % Width = Dist(h, t) /\ Dist(h, t) \in Indexes
<1>1. h \in Nat /\ t \in Nat /\ h < Width /\ t < Width /\ Width \in Nat \ {0}
  BY Widths DEF Indexes
<1>2. \A x \in Nat : x < Width => x % Width = x
  BY <1>1
<1>3. \A x \in Nat : x < Width => (x + Width) % Width = x
  BY <1>1, <1>2
<1> QED BY <1>1, <1>2, <1>3 DEF Dist, Indexes

LEMMA NextIs ==
  ASSUME NEW t \in Indexes
  PROVE  (t + 1) % Width = IF t = Width - 1 THEN 0 ELSE t + 1
<1>1. t \in Nat /\ t < Width /\ Width \in Nat \ {0}
  BY Widths DEF Indexes
<1>2. Width % Width = 0 /\ (t + 1 < Width => (t + 1) % Width = t + 1)
  BY <1>1
<1> QED BY <1>1, <1>2

LEMMA DivisionIs ==
  ASSUME NEW e \in Nat \ {0}, NEW x \in Nat
  PROVE  \E q \in Nat : x = e * q + (x % e)
<1>1. x = e * (x \div e) + (x % e)
  OBVIOUS
<1>2. x \div e \in Nat
  OBVIOUS
<1> QED BY <1>1, <1>2

LEMMA RemainderIs ==
  ASSUME NEW e \in Nat \ {0}, NEW q \in Nat, NEW i \in Nat, i < e
  PROVE  (e * q + i) % e = i
OBVIOUS

LEMMA RemainderBound ==
  ASSUME NEW e \in Nat \ {0}, NEW x \in Nat
  PROVE  x % e \in Nat /\ x % e < e
OBVIOUS

LEMMA Shifted ==
  ASSUME NEW e \in Nat \ {0}, NEW x \in Nat, NEW d \in 1..(e - 1)
  PROVE  (x + d) % e # x % e
<1>1. PICK a \in Nat : x = e * a + (x % e)
  BY DivisionIs
<1> DEFINE y == x + d
<1>0. y \in Nat
  OBVIOUS
<1> HIDE DEF y
<1>2. PICK b \in Nat : y = e * b + (y % e)
  BY <1>0, DivisionIs
<1>3. x % e \in Nat /\ e * a \in Nat /\ e * b \in Nat
  BY RemainderBound
<1>4. b > a => e * b - e * a >= e
  OBVIOUS
<1>5. ~(b > a) => e * b - e * a <= 0
  OBVIOUS
<1>6. y % e = x % e => d = e * b - e * a
  BY <1>1, <1>2, <1>3 DEF y
<1> QED BY <1>4, <1>5, <1>6 DEF y

LEMMA Multiple ==
  ASSUME NEW e \in Nat \ {0}, NEW x \in Nat, NEW k \in Nat
  PROVE  (x + k * e) % e = x % e
<1>1. PICK a \in Nat : x = e * a + (x % e)
  BY DivisionIs
<1>2. x % e \in Nat /\ x % e < e
  BY RemainderBound
<1>3. e * a + k * e = e * (a + k)
  OBVIOUS
<1>4. e * a \in Nat /\ k * e \in Nat
  OBVIOUS
<1>5. x + k * e = e * (a + k) + (x % e)
  BY <1>1, <1>2, <1>3, <1>4
<1>6. (e * (a + k) + (x % e)) % e = x % e
  BY <1>2, RemainderIs
<1> QED BY <1>5, <1>6

(* The number of entries divides that of the indices. *)
LEMMA Divides ==
  ASSUME NEW e \in PowersOfTwo, e <= MaxEntries
  PROVE  \E k \in Nat : Width = k * e
<1>1. PICK p \in PowersOfTwo : MaxEntries = p /\ Width = 2 * p /\ e <= p
  BY Widths
<1> QED BY <1>1 DEF PowersOfTwo

(* Two indices that are less apart than there are entries have two.        *)
LEMMA Apart ==
  ASSUME NEW e \in PowersOfTwo, e <= MaxEntries,
         NEW h \in Indexes, NEW t \in Indexes, NEW u \in Indexes,
         Dist(h, t) < Dist(h, u), Dist(h, u) < e
  PROVE  t % e # u % e
<1>1. PICK k \in Nat : Width = k * e
  BY Divides
<1>2. h \in Nat /\ t \in Nat /\ u \in Nat /\ h < Width /\ t < Width /\ u < Width
  BY Widths DEF Indexes
<1>3. e \in Nat \ {0}
  BY DEF PowersOfTwo
<1>4. PICK d \in 1..(e - 1) : u = t + d \/ u + Width = t + d
  <2>1. Dist(h, u) - Dist(h, t) \in 1..(e - 1)
    BY <1>2, <1>3, Widths DEF Dist
  <2>2. LET d == Dist(h, u) - Dist(h, t) IN u = t + d \/ u + Width = t + d
    BY <1>2, Widths DEF Dist
  <2> QED BY <2>1, <2>2
<1>5. \A x \in Nat : (x + d) % e # x % e
  BY <1>3, Shifted
<1>6. (u + k * e) % e = u % e
  BY <1>2, <1>3, Multiple
<1> QED BY <1>1, <1>2, <1>4, <1>5, <1>6

-----------------------------------------------------------------------------
(* Conserved.  That a push has an entry is no fact of one step: the filled *)
(* entries are of different buffers, and the buffer that is pushed is in   *)
(* none, so that they are fewer than the buffers, and those no more than   *)
(* the entries.                                                            *)

Fits(r) ==
  /\ ring[r].entries \in PowersOfTwo /\ ring[r].bufs <= ring[r].entries
  /\ Dist(head[r], ring[r].shared) <= Dist(head[r], ring[r].tail)
  /\ \A b \in Bids : held[r][b] > 0 \/ InResults(r, b) # {} => b < ring[r].bufs
  /\ \A t \in Filled(r) : ring[r].slots[Index(r, t)] < ring[r].bufs

Once(r) ==
  \A b \in 0..(ring[r].bufs - 1) :
    Cardinality(InEntries(r, b)) + Cardinality(InResults(r, b)) + held[r][b] = 1

Placed(r) == IF ring[r].live THEN Once(r) /\ Fits(r) ELSE head[r] = 0

(* A receive in the kernel has no result. *)
SentIsPending == \A o \in Ops : op[o].sent => op[o].result.kind = "none"

PlaceInv == RingInv /\ SentIsPending /\ \A r \in Rings : Placed(r)

LEMMA RingFacts ==
  ASSUME TypeOK, NEW r \in Rings
  PROVE  /\ head[r] \in Indexes /\ ring[r].tail \in Indexes /\ ring[r].shared \in Indexes
         /\ ring[r].entries \in 1..MaxEntries /\ ring[r].bufs \in 0..MaxEntries
         /\ ring[r].slots \in [Bids -> Bids] /\ ring[r].live \in BOOLEAN
         /\ held[r] \in [Bids -> Nat]
BY DEF TypeOK, Ring, Indexes

LEMMA FilledIs ==
  ASSUME TypeOK, NEW r \in Rings
  PROVE  /\ Filled(r) = {t \in Indexes : Dist(head[r], t) < Dist(head[r], ring[r].tail)}
         /\ Offered(r) = {t \in Indexes : Dist(head[r], t) < Dist(head[r], ring[r].shared)}
         /\ IsFiniteSet(Filled(r))
<1>1. \A t \in Indexes : Ahead(r, t) = Dist(head[r], t)
  BY RingFacts, DistIs DEF Ahead
<1>2. Filled(r) = {t \in Indexes : Dist(head[r], t) < Dist(head[r], ring[r].tail)}
  BY <1>1, RingFacts DEF Filled, Indexes
<1>3. Offered(r) = {t \in Indexes : Dist(head[r], t) < Dist(head[r], ring[r].shared)}
  BY <1>1, RingFacts DEF Offered, Indexes
<1>4. IsFiniteSet(Indexes)
  BY Widths, FS_Interval DEF Indexes
<1>5. IsFiniteSet(Filled(r))
  BY <1>2, <1>4, FS_Subset
<1> QED BY <1>2, <1>3, <1>5

(* How many there are of each. *)
LEMMA Counts ==
  ASSUME TypeOK, NEW r \in Rings, NEW b \in Bids
  PROVE  /\ IsFiniteSet(InEntries(r, b)) /\ IsFiniteSet(InResults(r, b))
         /\ Cardinality(InEntries(r, b)) \in Nat /\ Cardinality(InResults(r, b)) \in Nat
         /\ held[r][b] \in Nat
         /\ Cardinality(InEntries(r, b)) = 0 <=> InEntries(r, b) = {}
         /\ Cardinality(InResults(r, b)) = 0 <=> InResults(r, b) = {}
<1>1. InEntries(r, b) \in SUBSET Filled(r) /\ InResults(r, b) \in SUBSET Ops
  BY DEF InEntries, InResults
<1>2. IsFiniteSet(InEntries(r, b)) /\ IsFiniteSet(InResults(r, b))
  BY <1>1, FilledIs, FS_Subset, BufRingAssumption
<1> QED BY <1>2, FS_CardinalityType, FS_EmptySet, RingFacts

LEMMA AtMostOne ==
  ASSUME NEW S, IsFiniteSet(S), Cardinality(S) <= 1, NEW x \in S, NEW y \in S
  PROVE  x = y
<1> SUFFICES ASSUME x # y PROVE FALSE
  OBVIOUS
<1>1. IsFiniteSet({x}) /\ Cardinality({x}) = 1
  BY FS_Singleton
<1>2. Cardinality({x} \cup {y}) = 2
  <2>1. Cardinality({x} \cup {y}) = IF y \in {x} THEN Cardinality({x}) ELSE Cardinality({x}) + 1
    BY <1>1, FS_AddElement
  <2> QED BY <1>1, <2>1
<1>3. {x} \cup {y} \in SUBSET S
  OBVIOUS
<1>4. Cardinality({x} \cup {y}) <= Cardinality(S)
  BY <1>3, FS_Subset
<1>5. Cardinality(S) \in Nat
  BY FS_CardinalityType
<1> QED BY <1>2, <1>4, <1>5

(* A buffer that is in no entry leaves one for it. *)
LEMMA RoomToPush ==
  ASSUME TypeOK, NEW r \in Rings, Once(r), Fits(r),
         NEW b \in 0..(ring[r].bufs - 1), InEntries(r, b) = {}
  PROVE  Dist(head[r], ring[r].tail) < ring[r].entries
<1> DEFINE h == head[r]
           bufs == ring[r].bufs
           n == Dist(h, ring[r].tail)
           At(k) == IF h + k < Width THEN h + k ELSE h + k - Width
           S == 0..(n - 1)
           T == (0..(bufs - 1)) \ {b}
           f == [k \in S |-> ring[r].slots[Index(r, At(k))]]
<1>1. n \in Nat /\ n < Width /\ h \in Nat /\ h < Width /\ bufs \in Nat /\ b \in Nat /\ b < bufs
  <2>1. n \in Indexes
    BY RingFacts, DistIs
  <2> QED BY <2>1, RingFacts, Widths DEF Indexes
<1>2. ASSUME NEW k \in S PROVE At(k) \in Filled(r) /\ Dist(h, At(k)) = k
  <2>1. k \in Nat /\ k < n
    BY <1>1
  <2>2. At(k) \in Indexes
    BY <1>1, <2>1, Widths DEF Indexes
  <2>3. Dist(h, At(k)) = k
    BY <1>1, <2>1, Widths DEF Dist
  <2> QED BY <2>1, <2>2, <2>3, FilledIs
<1>3. ASSUME NEW t \in Filled(r)
      PROVE  /\ ring[r].slots[Index(r, t)] \in T
             /\ t \in InEntries(r, ring[r].slots[Index(r, t)])
  <2>1. t \in Nat
    BY FilledIs, Widths DEF Indexes
  <2>2. ring[r].slots[Index(r, t)] \in Bids
    BY <2>1, Indices, RingFacts
  <2>3. ring[r].slots[Index(r, t)] # b
    BY DEF InEntries
  <2>4. ring[r].slots[Index(r, t)] < bufs
    BY DEF Fits
  <2>5. ring[r].slots[Index(r, t)] \in 0..(bufs - 1)
    <3>1. \A x \in Nat : x < bufs => x \in 0..(bufs - 1)
      BY <1>1
    <3> QED BY <2>2, <2>4, <3>1, Widths
  <2> QED BY <2>3, <2>5 DEF InEntries
<1>4. f \in [S -> T]
  BY <1>2, <1>3
<1>5. ASSUME NEW j \in S, NEW k \in S, f[j] = f[k] PROVE j = k
  <2> DEFINE c == f[j]
  <2>1. At(j) \in InEntries(r, c) /\ At(k) \in InEntries(r, c) /\ c \in T
    BY <1>2, <1>3, <1>5
  <2>2. c \in 0..(bufs - 1) /\ c \in Bids
    <3>1. bufs <= MaxEntries /\ MaxEntries \in Nat
      BY RingFacts, Widths
    <3>2. c \in 0..(bufs - 1)
      BY <2>1
    <3> HIDE DEF c
    <3> QED BY <1>1, <3>1, <3>2 DEF Bids
  <2>3. Cardinality(InEntries(r, c)) + Cardinality(InResults(r, c)) + held[r][c] = 1
    BY <2>2 DEF Once
  <2>4. IsFiniteSet(InEntries(r, c)) /\ Cardinality(InEntries(r, c)) <= 1
    BY <2>2, <2>3, Counts
  <2>5. At(j) = At(k)
    BY <2>1, <2>4, AtMostOne
  <2> QED BY <1>2, <2>5
<1>6. IsFiniteSet(S) /\ Cardinality(S) = n
  <2>1. n - 1 \in Int /\ 0 \in Int /\ (0 > n - 1 => n = 0) /\ n - 1 - 0 + 1 = n
    BY <1>1
  <2> HIDE DEF n
  <2> QED BY <2>1, FS_Interval
<1>7. IsFiniteSet(T) /\ Cardinality(T) = bufs - 1
  <2>1. IsFiniteSet(0..(bufs - 1)) /\ Cardinality(0..(bufs - 1)) = bufs
    <3>1. bufs - 1 \in Int /\ 0 \in Int /\ ~(0 > bufs - 1) /\ bufs - 1 - 0 + 1 = bufs
      BY <1>1
    <3> HIDE DEF bufs
    <3> QED BY <3>1, FS_Interval
  <2> QED BY <1>1, <2>1, FS_RemoveElement
<1>8. ~(Cardinality(T) < Cardinality(S))
  <2> HIDE DEF S, T, f
  <2> QED BY <1>4, <1>5, <1>6, <1>7, FS_PigeonHole
<1> QED BY <1>1, <1>6, <1>7, <1>8, RingFacts DEF Fits

(* What a push does to the entries, when there is room for it.             *)
LEMMA Pushing ==
  ASSUME TypeOK, TypeOK', NEW r \in Rings, NEW b \in Bids, Fits(r),
         Dist(head[r], ring[r].tail) < ring[r].entries,
         ring' = Pushed(r, b), head'[r] = head[r]
  PROVE  /\ Filled(r)' = Filled(r) \cup {ring[r].tail} /\ ring[r].tail \notin Filled(r)
         /\ \A t \in Filled(r) : ring'[r].slots[Index(r, t)'] = ring[r].slots[Index(r, t)]
         /\ \A t \in Indexes : t = ring[r].tail => ring'[r].slots[Index(r, t)'] = b
         /\ Dist(head'[r], ring'[r].shared) <= Dist(head'[r], ring'[r].tail)
         /\ ring'[r].bufs = ring[r].bufs /\ ring'[r].entries = ring[r].entries
         /\ ring'[r].live = ring[r].live
<1> DEFINE h == head[r]
           tail == ring[r].tail
           e == ring[r].entries
<1>1. /\ ring'[r].slots = [ring[r].slots EXCEPT ![Index(r, tail)] = b]
      /\ ring'[r].tail = (tail + 1) % Width /\ ring'[r].shared = ring[r].shared
      /\ ring'[r].bufs = ring[r].bufs /\ ring'[r].entries = e /\ ring'[r].live = ring[r].live
  BY DEF Pushed, TypeOK, Ring
<1>2. h \in Indexes /\ tail \in Indexes /\ e <= MaxEntries /\ e \in PowersOfTwo
  BY RingFacts DEF Fits
<1>3. Dist(h, ring'[r].tail) = Dist(h, tail) + 1
  <2>1. ring'[r].tail = IF tail = Width - 1 THEN 0 ELSE tail + 1
    BY <1>1, <1>2, NextIs
  <2>2. Dist(h, tail) < MaxEntries
    <3>1. Dist(h, tail) \in Nat
      <4>1. Dist(h, tail) \in Indexes
        BY <1>2, DistIs
      <4> QED BY <4>1, Widths DEF Indexes
    <3>2. e \in Nat /\ MaxEntries \in Nat
      BY <1>2, Widths DEF PowersOfTwo
    <3> QED BY <1>2, <3>1, <3>2
  <2> QED BY <1>2, <2>1, <2>2, Widths DEF Dist, Indexes
<1>4. \A t \in Indexes : Dist(h, t) = Dist(h, tail) => t = tail
  BY <1>2, Widths DEF Dist, Indexes
<1>5. Filled(r)' = {t \in Indexes : Dist(h, t) < Dist(h, ring'[r].tail)}
  <2>1. head'[r] \in Indexes /\ ring'[r].tail \in Indexes
    BY <1>1, <1>2, Wrapped DEF Indexes
  <2>2. \A t \in Indexes : Ahead(r, t)' = Dist(h, t)
    BY <1>2, DistIs DEF Ahead
  <2> QED BY <2>1, <2>2 DEF Filled, Indexes
<1>6. Filled(r)' = Filled(r) \cup {tail} /\ tail \notin Filled(r)
  <2>1. \A t \in Indexes : Dist(h, t) \in Nat
    BY <1>2, DistIs, Widths DEF Indexes
  <2> QED BY <1>2, <1>3, <1>4, <1>5, <2>1, FilledIs
<1>7. \A t \in Indexes : Index(r, t)' = Index(r, t) /\ Index(r, t) = t % e
  BY <1>1 DEF Index
<1>8. Index(r, tail) \in Bids
  <2>1. tail \in Nat
    BY <1>2, Widths DEF Indexes
  <2> QED BY <2>1, Indices
<1>9. \A t \in Filled(r) : ring'[r].slots[Index(r, t)'] = ring[r].slots[Index(r, t)]
  <2> TAKE t \in Filled(r)
  <2>1. t \in Indexes /\ Dist(h, t) < Dist(h, tail)
    BY FilledIs
  <2>2. t % e # tail % e
    BY <1>2, <2>1, Apart
  <2> QED BY <1>1, <1>2, <1>7, <2>1, <2>2, RingFacts
<1>10. ASSUME NEW t \in Indexes, t = tail PROVE ring'[r].slots[Index(r, t)'] = b
  <2>1. Index(r, t)' = Index(r, tail)
    BY <1>7, <1>10
  <2>2. ring[r].slots \in [Bids -> Bids]
    BY RingFacts
  <2> QED BY <1>1, <1>8, <2>1, <2>2
<1>11. Dist(h, ring[r].shared) <= Dist(h, ring'[r].tail)
  <2>1. Dist(h, ring[r].shared) \in Nat /\ Dist(h, tail) \in Nat
    BY <1>2, RingFacts, DistIs, Widths DEF Indexes
  <2> QED BY <1>3, <2>1 DEF Fits
<1> QED BY <1>1, <1>6, <1>9, <1>10, <1>11

-----------------------------------------------------------------------------
(* What each step does to the places of the buffers.                       *)

(* A buffer that is a result, or held, is in no entry: there is room.      *)
LEMMA HasRoom ==
  ASSUME TypeOK, NEW r \in Rings, NEW b \in Bids, Once(r), Fits(r),
         held[r][b] > 0 \/ InResults(r, b) # {}
  PROVE  /\ b \in 0..(ring[r].bufs - 1) /\ InEntries(r, b) = {}
         /\ Dist(head[r], ring[r].tail) < ring[r].entries
<1>1. b \in 0..(ring[r].bufs - 1)
  <2>1. b < ring[r].bufs /\ b \in Nat /\ ring[r].bufs \in Nat
    BY RingFacts, Widths DEF Fits
  <2> QED BY <2>1
<1>2. Cardinality(InEntries(r, b)) + Cardinality(InResults(r, b)) + held[r][b] = 1
  BY <1>1 DEF Once
<1>3. Cardinality(InResults(r, b)) + held[r][b] >= 1
  BY Counts
<1>4. Cardinality(InEntries(r, b)) = 0
  BY <1>2, <1>3, Counts
<1> QED BY <1>1, <1>4, Counts, RoomToPush

(* A push is of a buffer that left the results, or the application.        *)
LEMMA PushPlaces ==
  ASSUME TypeOK, TypeOK', NEW r \in Rings, NEW b \in Bids, Once(r), Fits(r),
         ring' = Pushed(r, b), head'[r] = head[r],
         \A c \in Bids :
           Cardinality(InResults(r, c))' + held'[r][c] + (IF c = b THEN 1 ELSE 0)
             = Cardinality(InResults(r, c)) + held[r][c]
  PROVE  Once(r)' /\ Fits(r)'
<1>1. \A c \in Bids :
        /\ IsFiniteSet(InResults(r, c)') /\ Cardinality(InResults(r, c))' \in Nat
        /\ Cardinality(InResults(r, c))' = 0 <=> InResults(r, c)' = {}
        /\ held'[r][c] \in Nat
  <2> TAKE c \in Bids
  <2>1. InResults(r, c)' \in SUBSET Ops
    BY DEF InResults
  <2>2. IsFiniteSet(InResults(r, c)')
    BY <2>1, FS_Subset, BufRingAssumption
  <2>3. held'[r][c] \in Nat
    BY DEF TypeOK
  <2> QED BY <2>2, <2>3, FS_CardinalityType, FS_EmptySet
<1>2. held[r][b] > 0 \/ InResults(r, b) # {}
  <2>1. Cardinality(InResults(r, b)) + held[r][b] > 0
    BY <1>1
  <2> QED BY <2>1, Counts
<1>3. b \in 0..(ring[r].bufs - 1) /\ InEntries(r, b) = {}
  BY <1>2, HasRoom
<1>4. Dist(head[r], ring[r].tail) < ring[r].entries
  BY <1>2, HasRoom
<1> DEFINE tail == ring[r].tail
<1>5. /\ Filled(r)' = Filled(r) \cup {tail} /\ tail \notin Filled(r)
      /\ \A t \in Filled(r) : ring'[r].slots[Index(r, t)'] = ring[r].slots[Index(r, t)]
      /\ \A t \in Indexes : t = tail => ring'[r].slots[Index(r, t)'] = b
      /\ Dist(head'[r], ring'[r].shared) <= Dist(head'[r], ring'[r].tail)
      /\ ring'[r].bufs = ring[r].bufs /\ ring'[r].entries = ring[r].entries
  BY <1>4, Pushing
<1>6. PICK u \in Indexes : u = tail
  BY RingFacts
<1>7. Filled(r)' = Filled(r) \cup {u} /\ u \notin Filled(r) /\ ring'[r].slots[Index(r, u)'] = b
  BY <1>5, <1>6
<1>8. \A c \in Bids : InEntries(r, c)' = IF c = b THEN {u} ELSE InEntries(r, c)
  <2> TAKE c \in Bids
  <2>1. InEntries(r, c)' = {t \in Filled(r)' : ring'[r].slots[Index(r, t)'] = c}
    BY DEF InEntries
  <2> QED BY <1>3, <1>5, <1>7, <2>1 DEF InEntries
<1>9. Once(r)'
  <2> SUFFICES ASSUME NEW c \in 0..(ring[r].bufs - 1)
               PROVE  Cardinality(InEntries(r, c))' + Cardinality(InResults(r, c))' + held'[r][c] = 1
    BY <1>5 DEF Once
  <2>1. c \in Bids
    BY RingFacts, Widths DEF Bids
  <2>2. Cardinality(InEntries(r, c)) + Cardinality(InResults(r, c)) + held[r][c] = 1
    BY DEF Once
  <2>3. CASE c = b
    <3>1. Cardinality(InEntries(r, c))' = 1
      BY <1>8, <2>1, <2>3, FS_Singleton
    <3>2. Cardinality(InEntries(r, c)) = 0
      BY <1>3, <2>3, FS_EmptySet
    <3> QED BY <1>1, <2>1, <2>2, <2>3, <3>1, <3>2, Counts
  <2>4. CASE c # b
    <3>1. Cardinality(InEntries(r, c))' = Cardinality(InEntries(r, c))
      BY <1>8, <2>1, <2>4
    <3> QED BY <1>1, <2>1, <2>2, <2>4, <3>1, Counts
  <2> QED BY <2>3, <2>4
<1>10. Fits(r)'
  <2>1. ASSUME NEW c \in Bids, held'[r][c] > 0 \/ InResults(r, c)' # {} PROVE c < ring[r].bufs
    <3>1. Cardinality(InResults(r, c)) + held[r][c] > 0
      BY <1>1, <2>1, Counts
    <3>2. held[r][c] > 0 \/ InResults(r, c) # {}
      BY <3>1, Counts
    <3> QED BY <3>2 DEF Fits
  <2>2. b < ring[r].bufs
    BY <1>3, RingFacts
  <2>3. \A t \in Filled(r)' : ring'[r].slots[Index(r, t)'] < ring[r].bufs
    BY <1>5, <1>7, <2>2 DEF Fits
  <2> QED BY <1>5, <2>1, <2>3 DEF Fits
<1> QED BY <1>9, <1>10

(* A step that moves no buffer of a ring; the shared tail may follow.      *)
LEMMA SamePlaces ==
  ASSUME TypeOK, NEW r \in Rings, Placed(r),
         ring'[r].live = ring[r].live, ring'[r].bufs = ring[r].bufs,
         ring'[r].entries = ring[r].entries, ring'[r].slots = ring[r].slots,
         ring'[r].tail = ring[r].tail, ring'[r].shared \in {ring[r].shared, ring[r].tail},
         head'[r] = head[r], held'[r] = held[r],
         \A b \in Bids : InResults(r, b)' = InResults(r, b)
  PROVE  Placed(r)'
<1>1. Filled(r)' = Filled(r)
  BY DEF Filled, Ahead
<1>2. \A t : Index(r, t)' = Index(r, t)
  BY DEF Index
<1>3. \A b \in Bids : InEntries(r, b)' = InEntries(r, b)
  BY <1>1, <1>2 DEF InEntries
<1>4. 0..(ring[r].bufs - 1) \subseteq Bids
  BY RingFacts, Widths, SMTT(30) DEF Bids
<1>5. Once(r) => Once(r)'
  <2> SUFFICES ASSUME Once(r), NEW b \in 0..(ring[r].bufs - 1)
               PROVE  Cardinality(InEntries(r, b))' + Cardinality(InResults(r, b))' + held'[r][b] = 1
    BY DEF Once
  <2>1. b \in Bids
    BY <1>4
  <2>2. InEntries(r, b)' = InEntries(r, b) /\ InResults(r, b)' = InResults(r, b)
    BY <1>3, <2>1
  <2> QED BY <2>2 DEF Once
<1>6. Fits(r) => Fits(r)'
  <2>1. Dist(head[r], ring[r].tail) \in Int
    <3>1. Dist(head[r], ring[r].tail) \in Indexes
      BY RingFacts, DistIs
    <3> QED BY <3>1, Widths DEF Indexes
  <2> QED BY <1>1, <1>2, <2>1 DEF Fits
<1> QED BY <1>5, <1>6 DEF Placed

(* A receive whose result is no buffer, before and after.                  *)
LEMMA SameResults ==
  ASSUME NEW o \in Ops, \A x \in Ops \ {o} : op'[x] = op[x],
         op[o].result.kind # "buffer", op'[o].result.kind # "buffer"
  PROVE  \A r \in Rings, b \in Bids : InResults(r, b)' = InResults(r, b)
BY DEF InResults, Buffer

(* One whose buffer is taken. *)
LEMMA TakenResult ==
  ASSUME TypeOK, ResultsAreOwn, NEW o \in Ops, op[o].result.kind = "buffer", op[o].uses \in Rings,
         op' = [op EXCEPT ![o] = NoOp]
  PROVE  \A r \in Rings, b \in Bids :
           /\ r = op[o].uses /\ b = op[o].result.bid =>
                /\ IsFiniteSet(InResults(r, b)')
                /\ Cardinality(InResults(r, b))' = Cardinality(InResults(r, b)) - 1
           /\ ~(r = op[o].uses /\ b = op[o].result.bid) => InResults(r, b)' = InResults(r, b)
<1>1. op[o].result = Buffer(op[o].uses, op[o].result.bid)
  BY DEF ResultsAreOwn, TypeOK, Operation, Result, Buffer
<1>2. op'[o].result.kind = "none"
  BY NoOpTyped DEF TypeOK
<1>3. \A x \in Ops \ {o} : op'[x] = op[x]
  BY DEF TypeOK
<1> TAKE r \in Rings, b \in Bids
<1>4. ASSUME r = op[o].uses, b = op[o].result.bid
      PROVE  /\ IsFiniteSet(InResults(r, b)')
             /\ Cardinality(InResults(r, b))' = Cardinality(InResults(r, b)) - 1
  <2>1. InResults(r, b)' = InResults(r, b) \ {o} /\ o \in InResults(r, b)
    BY <1>1, <1>2, <1>3, <1>4 DEF InResults, Buffer
  <2> QED BY <2>1, Counts, FS_RemoveElement
<1>5. ASSUME ~(r = op[o].uses /\ b = op[o].result.bid)
      PROVE  InResults(r, b)' = InResults(r, b)
  BY <1>1, <1>2, <1>3, <1>5 DEF InResults, Buffer
<1> QED BY <1>4, <1>5

(* A ring that is built has each buffer in an entry of its own.            *)
LEMMA BuiltPlaces ==
  ASSUME PlaceInv, harm = "none", TypeOK', NEW r \in Rings, NEW g \in Bgids, NEW q \in Requests,
         Build(r, g, q)
  PROVE  Placed(r)'
<1> USE DEF PlaceInv, RingInv, Ownership
<1> DEFINE bufs == Size(q).bufs
           e == NextPowerOfTwo(Size(q).entries)
<1>1. /\ bufs \in 1..MaxEntries /\ e \in PowersOfTwo /\ e \in 1..MaxEntries /\ bufs <= e
  <2>1. /\ bufs \in 1..MaxEntries /\ Size(q).entries \in 1..MaxEntries
        /\ bufs <= Size(q).entries
    BY Sizes DEF Build
  <2>2. e \in PowersOfTwo /\ e \in Size(q).entries..MaxEntries
    BY <2>1, Rounded
  <2> HIDE DEF bufs, e
  <2> QED BY <2>1, <2>2, Widths
<1>2. /\ ring'[r].live /\ ring'[r].bufs = bufs /\ ring'[r].entries = e /\ ring'[r].tail = bufs
      /\ ring'[r].slots = [b \in Bids |-> IF b < bufs THEN b ELSE 0] /\ ring'[r].shared = 0
      /\ head' = head /\ op' = op /\ held' = held /\ ~ring[r].live
  BY DEF Build, TypeOK
<1> HIDE DEF bufs, e
<1>3. head'[r] = 0
  BY <1>2 DEF Placed
<1>4. \A t \in Indexes : Ahead(r, t)' = t
  <2> TAKE t \in Indexes
  <2>1. 0 \in Indexes
    BY Widths DEF Indexes
  <2>2. (t + Width - 0) % Width = Dist(0, t)
    BY <2>1, DistIs
  <2>3. Dist(0, t) = t
    BY Widths DEF Dist, Indexes
  <2> QED BY <1>3, <2>2, <2>3 DEF Ahead
<1>5. bufs \in Indexes
  BY <1>1, Widths DEF Indexes
<1>6. Filled(r)' = 0..(bufs - 1)
  <2>1. Filled(r)' = {t \in Indexes : Ahead(r, t)' < Ahead(r, bufs)'}
    BY <1>2 DEF Filled, Indexes
  <2>2. Filled(r)' = {t \in Indexes : t < bufs}
    <3>1. Ahead(r, bufs)' = bufs
      BY <1>4, <1>5
    <3> QED BY <2>1, <1>4, <3>1
  <2> QED BY <2>2, <1>5, Widths DEF Indexes
<1>7. \A t \in 0..(bufs - 1) : Index(r, t)' = t /\ t \in Bids
  <2> TAKE t \in 0..(bufs - 1)
  <2>1. t \in Nat /\ t < e /\ e \in Nat \ {0} /\ t \in Bids
    BY <1>1, Widths DEF Bids
  <2>2. t % e = t
    BY <2>1
  <2> QED BY <1>2, <2>1, <2>2 DEF Index
<1>8. \A t \in 0..(bufs - 1) : ring'[r].slots[Index(r, t)'] = t
  <2> TAKE t \in 0..(bufs - 1)
  <2>1. t < bufs
    BY <1>1
  <2> QED BY <1>2, <1>7, <2>1
<1>9. \A b \in 0..(bufs - 1) : InEntries(r, b)' = {b}
  BY <1>6, <1>8 DEF InEntries
<1>10. \A b \in Bids : held'[r][b] = 0 /\ InResults(r, b)' = {}
  <2> TAKE b \in Bids
  <2>1. held[r][b] = 0
    <3>1. ~(held[r][b] > 0) /\ held[r][b] \in Nat
      BY <1>2, RingFacts DEF OwnedIsLive
    <3> QED BY <3>1
  <2>2. \A o \in Ops : op[o].result # Buffer(r, b)
    BY <1>2, BufRingAssumption DEF OwnedIsLive, ResultsAreOwn, Buffer
  <2> QED BY <1>2, <2>1, <2>2 DEF InResults
<1>11. Once(r)'
  <2> SUFFICES ASSUME NEW b \in 0..(bufs - 1)
               PROVE  Cardinality(InEntries(r, b))' + Cardinality(InResults(r, b))' + held'[r][b] = 1
    BY <1>2 DEF Once
  <2>1. Cardinality(InEntries(r, b))' = 1
    BY <1>9, FS_Singleton
  <2>2. Cardinality(InResults(r, b))' = 0 /\ held'[r][b] = 0
    BY <1>7, <1>10, FS_EmptySet
  <2> QED BY <2>1, <2>2
<1>12. Fits(r)'
  <2>1. Dist(0, 0) <= Dist(0, bufs)
    BY <1>1, Widths DEF Dist
  <2>2. \A t \in Filled(r)' : ring'[r].slots[Index(r, t)'] < bufs
    BY <1>1, <1>6, <1>8
  <2> QED BY <1>1, <1>2, <1>3, <1>10, <2>1, <2>2 DEF Fits
<1> QED BY <1>2, <1>11, <1>12 DEF Placed

(* The kernel takes the buffer at the head into a result. *)
LEMMA ReceivedPlaces ==
  ASSUME PlaceInv, harm = "none", TypeOK', NEW o \in Ops, KernelReceives(o)
  PROVE  \A r \in Rings : Placed(r)'
<1> USE DEF PlaceInv, RingInv, Ownership
<1>1. PICK s \in Rings : s = op[o].uses
  <2>1. op[o].sent
    BY DEF KernelReceives
  <2>2. op[o].uses # None
    BY <2>1 DEF UnusedIsIdle
  <2>3. op[o].uses \in Rings \cup {None}
    BY DEF TypeOK, Operation
  <2> QED BY <2>2, <2>3
<1>2. ring[s].live /\ group[ring[s].bgid] = s
  BY <1>1, BufRingAssumption DEF OwnedIsLive, GroupsAreRings
<1>3. PICK h \in Indexes : h = head[s]
  BY RingFacts
<1>4. PICK b \in Bids : b = ring[s].slots[Index(s, h)]
  <2>1. h \in Nat
    BY Widths DEF Indexes
  <2> QED BY <2>1, Indices, RingFacts
<1>5. /\ head' = [head EXCEPT ![s] = (h + 1) % Width] /\ Offered(s) # {} /\ op[o].sent
      /\ op' = [op EXCEPT ![o].sent = FALSE, ![o].result = Buffer(s, b)]
      /\ ring' = ring /\ held' = held
  BY <1>1, <1>2, <1>3, <1>4 DEF KernelReceives
<1>6. op[o].result.kind = "none"
  BY <1>5 DEF SentIsPending
<1>7. \A r \in Rings, c \in Bids :
        InResults(r, c)' = IF r = s /\ c = b THEN InResults(r, c) \cup {o} ELSE InResults(r, c)
  <2>1. op'[o].result = Buffer(s, b) /\ \A x \in Ops \ {o} : op'[x] = op[x]
    BY <1>5 DEF TypeOK, Operation
  <2> QED BY <1>6, <2>1 DEF InResults, Buffer
<1>8. ASSUME NEW r \in Rings, r # s PROVE Placed(r)'
  <2>1. \A c \in Bids : InResults(r, c)' = InResults(r, c)
    BY <1>7, <1>8
  <2>2. head'[r] = head[r]
    BY <1>5, <1>8 DEF TypeOK
  <2> QED BY <1>5, <2>1, <2>2, SamePlaces
<1> DEFINE tail == ring[s].tail
           shared == ring[s].shared
<1>9. head'[s] = IF h = Width - 1 THEN 0 ELSE h + 1
  BY <1>5, NextIs DEF TypeOK
<1>10. Once(s) /\ Fits(s)
  BY <1>2 DEF Placed
<1>11. tail \in Indexes /\ shared \in Indexes
  BY RingFacts
<1>12. Dist(h, shared) > 0 /\ Dist(h, tail) >= Dist(h, shared)
  <2>1. PICK t \in Indexes : Dist(h, t) < Dist(h, shared)
    BY <1>3, <1>5, FilledIs
  <2>2. Dist(h, t) \in Nat /\ Dist(h, shared) \in Nat /\ Dist(h, tail) \in Nat
    <3>1. Dist(h, t) \in Indexes /\ Dist(h, shared) \in Indexes /\ Dist(h, tail) \in Indexes
      BY <1>11, DistIs
    <3> QED BY <3>1, Widths DEF Indexes
  <2> QED BY <1>3, <1>10, <2>1, <2>2 DEF Fits
<1>13. \A t \in Indexes : t # h => Dist(head'[s], t) = Dist(h, t) - 1
  BY <1>9, Widths DEF Dist, Indexes
<1>14. Dist(h, h) = 0 /\ Dist(head'[s], h) = Width - 1
  BY <1>9, Widths DEF Dist, Indexes
<1>15. tail # h /\ shared # h
  BY <1>12, <1>14, <1>11, Widths DEF Dist, Indexes
<1>16. Filled(s)' = Filled(s) \ {h} /\ h \in Filled(s)
  <2>1. Filled(s)' = {t \in Indexes : Dist(head'[s], t) < Dist(head'[s], tail)}
    <3>1. head'[s] \in Indexes
      BY DEF TypeOK, Indexes
    <3>2. \A t \in Indexes : Ahead(s, t)' = Dist(head'[s], t)
      BY <3>1, DistIs DEF Ahead
    <3> QED BY <1>5, <1>11, <3>2 DEF Filled, Indexes
  <2>2. \A t \in Indexes : Dist(h, t) \in 0..(Width - 1)
    BY DistIs DEF Indexes
  <2>3. Dist(h, tail) \in Nat /\ Dist(h, tail) > 0 /\ Dist(h, tail) < Width
    BY <1>11, <1>12, <2>2, Widths
  <2>4. Filled(s) = {t \in Indexes : Dist(h, t) < Dist(h, tail)}
    BY <1>3, FilledIs
  <2> QED BY <1>11, <1>13, <1>14, <1>15, <2>1, <2>2, <2>3, <2>4, Widths
<1>17. \A c \in Bids : InEntries(s, c)' = IF c = b THEN InEntries(s, c) \ {h} ELSE InEntries(s, c)
  <2>1. \A t : Index(s, t)' = Index(s, t)
    BY <1>5 DEF Index
  <2> QED BY <1>4, <1>5, <1>16, <2>1 DEF InEntries
<1>18. h \in InEntries(s, b) /\ o \notin InResults(s, b) /\ b < ring[s].bufs
  BY <1>4, <1>6, <1>10, <1>16 DEF InEntries, InResults, Buffer, Fits
<1>19. Once(s)'
  <2> SUFFICES ASSUME NEW c \in 0..(ring[s].bufs - 1)
               PROVE  Cardinality(InEntries(s, c))' + Cardinality(InResults(s, c))' + held'[s][c] = 1
    BY <1>5 DEF Once
  <2>1. c \in Bids
    BY RingFacts, Widths DEF Bids
  <2>2. Cardinality(InEntries(s, c)) + Cardinality(InResults(s, c)) + held[s][c] = 1
    BY <1>10 DEF Once
  <2>3. CASE c = b
    <3>1. Cardinality(InEntries(s, c))' = Cardinality(InEntries(s, c)) - 1
      BY <1>17, <1>18, <2>1, <2>3, Counts, FS_RemoveElement
    <3>2. Cardinality(InResults(s, c))' = Cardinality(InResults(s, c)) + 1
      BY <1>7, <1>18, <2>1, <2>3, Counts, FS_AddElement
    <3> QED BY <1>5, <2>1, <2>2, <3>1, <3>2, Counts
  <2>4. CASE c # b
    BY <1>5, <1>7, <1>17, <2>1, <2>2, <2>4
  <2> QED BY <2>3, <2>4
<1>20. Fits(s)'
  <2>1. Dist(head'[s], shared) <= Dist(head'[s], tail)
    <3>1. Dist(h, shared) \in Indexes /\ Dist(h, tail) \in Indexes
      BY <1>11, DistIs
    <3> QED BY <1>11, <1>12, <1>13, <1>15, <3>1, Widths DEF Indexes
  <2>2. \A t \in Filled(s)' : ring'[s].slots[Index(s, t)'] < ring[s].bufs
    BY <1>5, <1>10, <1>16 DEF Fits, Index
  <2>3. \A c \in Bids : held'[s][c] > 0 \/ InResults(s, c)' # {} => c < ring[s].bufs
    BY <1>5, <1>7, <1>10, <1>18 DEF Fits
  <2> QED BY <1>5, <1>10, <2>1, <2>2, <2>3 DEF Fits
<1> QED BY <1>2, <1>5, <1>8, <1>19, <1>20 DEF Placed

LEMMA PlacesInductive ==
  ASSUME PlaceInv, Next, RingInv'
  PROVE  \A r \in Rings : Placed(r)'
<1> USE DEF PlaceInv, RingInv, Ownership
<1>1. harm = "none"
  BY DEF Next
<1>2. ASSUME NEW x \in Rings, ring'[x] = ring[x], head' = head, held' = held,
             \A r \in Rings, b \in Bids : InResults(r, b)' = InResults(r, b)
      PROVE  Placed(x)'
  BY <1>2, SamePlaces
<1>3. op' = op => \A r \in Rings, b \in Bids : InResults(r, b)' = InResults(r, b)
  BY DEF InResults
<1>4. ASSUME NEW r \in Rings, NEW g \in Bgids, NEW q \in Requests, Build(r, g, q)
      PROVE  \A x \in Rings : Placed(x)'
  <2>1. Placed(r)'
    BY <1>1, <1>4, BuiltPlaces
  <2>2. \A x \in Rings \ {r} : ring'[x] = ring[x]
    BY <1>4 DEF Build, TypeOK
  <2>3. head' = head /\ held' = held /\ op' = op
    BY <1>4 DEF Build
  <2> QED BY <1>2, <1>3, <2>1, <2>2, <2>3
<1>5. ASSUME NEW r \in Rings, NEW g \in Bgids, BuildFails(r, g)
      PROVE  \A x \in Rings : Placed(x)'
  BY <1>2, <1>3, <1>5 DEF BuildFails
<1>6. ASSUME NEW r \in Rings, NEW b \in Bids, DropBuf(r, b)
      PROVE  \A x \in Rings : Placed(x)'
  <2>1. /\ ring' = Pushed(r, b) /\ held' = [held EXCEPT ![r][b] = @ - 1] /\ held[r][b] > 0
        /\ head' = head /\ op' = op
    BY <1>6 DEF DropBuf
  <2>2. ring[r].live /\ Once(r) /\ Fits(r)
    BY <1>1, <2>1 DEF OwnedIsLive, Placed
  <2>3. \A c \in Bids :
          Cardinality(InResults(r, c))' + held'[r][c] + (IF c = b THEN 1 ELSE 0)
            = Cardinality(InResults(r, c)) + held[r][c]
    <3> TAKE c \in Bids
    <3>1. InResults(r, c)' = InResults(r, c)
      BY <1>3, <2>1
    <3>2. held'[r][c] = IF c = b THEN held[r][c] - 1 ELSE held[r][c]
      BY <2>1 DEF TypeOK
    <3> QED BY <3>1, <3>2, Counts
  <2>4. ring'[r].live = ring[r].live
    BY <2>1, PushedOwned
  <2>5. Placed(r)'
    BY <2>1, <2>2, <2>3, <2>4, PushPlaces DEF Placed
  <2>6. ASSUME NEW x \in Rings, x # r PROVE Placed(x)'
    <3>1. ring'[x] = ring[x] /\ held'[x] = held[x]
      BY <2>1, <2>6 DEF Pushed, TypeOK
    <3> QED BY <1>3, <2>1, <3>1, SamePlaces
  <2> QED BY <2>5, <2>6
<1>7. ASSUME NEW r \in Rings, NEW o \in Ops, Receive(o, r) PROVE \A x \in Rings : Placed(x)'
  <2>1. op[o].result.kind = "none" /\ op'[o].result.kind = "none"
    BY <1>7, NoOpTyped DEF Receive, TypeOK, Bare
  <2>2. \A x \in Ops \ {o} : op'[x] = op[x]
    BY <1>7 DEF Receive, TypeOK
  <2> QED BY <1>2, <1>7, <2>1, <2>2, SameResults DEF Receive
<1>8. ASSUME NEW r \in Rings, Sync(r) PROVE \A x \in Rings : Placed(x)'
  <2>1. /\ \A x \in Rings \ {r} : ring'[x] = ring[x]
        /\ ring'[r] = [ring[r] EXCEPT !.shared = ring[r].tail]
        /\ head' = head /\ held' = held /\ op' = op
    BY <1>8 DEF Sync, TypeOK
  <2>2. /\ ring'[r].live = ring[r].live /\ ring'[r].bufs = ring[r].bufs
        /\ ring'[r].entries = ring[r].entries /\ ring'[r].slots = ring[r].slots
        /\ ring'[r].tail = ring[r].tail /\ ring'[r].shared = ring[r].tail
    BY <2>1 DEF TypeOK, Ring
  <2>3. Placed(r)'
    BY <1>3, <2>1, <2>2, SamePlaces
  <2> QED BY <1>2, <1>3, <2>1, <2>3
<1>9. ASSUME NEW r \in Rings, Unregister(r) PROVE \A x \in Rings : Placed(x)'
  <2>1. /\ ring' = [ring EXCEPT ![r] = NoRing] /\ head' = [head EXCEPT ![r] = 0]
        /\ op' = op /\ held' = held
    BY <1>9 DEF Unregister
  <2>2. Placed(r)'
    BY <2>1, NoRingTyped DEF Placed, TypeOK
  <2>3. ASSUME NEW x \in Rings, x # r PROVE Placed(x)'
    <3>1. ring'[x] = ring[x] /\ head'[x] = head[x]
      BY <2>1, <2>3 DEF TypeOK
    <3> QED BY <1>3, <2>1, <3>1, SamePlaces
  <2> QED BY <2>2, <2>3
<1>10. ASSUME NEW r \in Rings, Clone(r) \/ DropHandle(r) PROVE \A x \in Rings : Placed(x)'
  <2>1. /\ \A x \in Rings \ {r} : ring'[x] = ring[x]
        /\ head' = head /\ held' = held /\ op' = op
        /\ \E h : ring'[r] = [ring[r] EXCEPT !.handles = h]
    BY <1>10 DEF Clone, DropHandle, TypeOK
  <2>2. /\ ring'[r].live = ring[r].live /\ ring'[r].bufs = ring[r].bufs
        /\ ring'[r].entries = ring[r].entries /\ ring'[r].slots = ring[r].slots
        /\ ring'[r].tail = ring[r].tail /\ ring'[r].shared = ring[r].shared
    BY <2>1 DEF TypeOK, Ring
  <2>3. Placed(r)'
    BY <1>3, <2>1, <2>2, SamePlaces
  <2> QED BY <1>2, <1>3, <2>1, <2>3
<1>11. ASSUME NEW o \in Ops, Complete(o) \/ Cleanup(o), op[o].result.kind # "buffer"
       PROVE  \A x \in Rings : Placed(x)'
  <2>1. op' = [op EXCEPT ![o] = NoOp] /\ ring' = ring /\ held' = held /\ head' = head
    BY <1>11 DEF Complete, Cleanup
  <2>2. op'[o].result.kind # "buffer" /\ \A x \in Ops \ {o} : op'[x] = op[x]
    BY <2>1, NoOpTyped DEF TypeOK
  <2> QED BY <1>2, <1>11, <2>1, <2>2, SameResults
<1>12. ASSUME NEW o \in Ops, Complete(o) \/ Cleanup(o), op[o].result.kind = "buffer"
       PROVE  \A x \in Rings : Placed(x)'
  <2>1. PICK r \in Rings : r = op[o].uses
    <3>1. op[o].uses # None /\ op[o].uses \in Rings \cup {None}
      BY <1>12 DEF UnusedIsIdle, TypeOK, Operation
    <3> QED BY <3>1
  <2>2. PICK b \in Bids : b = op[o].result.bid
    BY DEF TypeOK, Operation, Result
  <2>3. op' = [op EXCEPT ![o] = NoOp] /\ head' = head
    BY <1>12 DEF Complete, Cleanup
  <2>4. /\ Cardinality(InResults(r, b))' = Cardinality(InResults(r, b)) - 1
        /\ IsFiniteSet(InResults(r, b)')
        /\ \A x \in Rings, c \in Bids : ~(x = r /\ c = b) => InResults(x, c)' = InResults(x, c)
    BY <1>1, <1>12, <2>1, <2>2, <2>3, TakenResult
  <2>5. ring[r].live /\ Once(r) /\ Fits(r) /\ o \in InResults(r, b)
    <3>1. ring[r].live
      BY <1>1, <2>1, BufRingAssumption DEF OwnedIsLive
    <3>2. op[o].result = Buffer(r, b)
      BY <1>1, <1>12, <2>1, <2>2 DEF ResultsAreOwn, TypeOK, Operation, Result, Buffer
    <3> QED BY <3>1, <3>2 DEF Placed, InResults
  <2>6. CASE Complete(o)
    <3>1. ring' = ring /\ held' = [held EXCEPT ![r][b] = @ + 1]
      BY <1>12, <2>1, <2>2, <2>6 DEF Complete
    <3>2. ASSUME NEW x \in Rings, x # r PROVE Placed(x)'
      <4>1. held'[x] = held[x] /\ \A c \in Bids : InResults(x, c)' = InResults(x, c)
        BY <2>4, <3>1, <3>2 DEF TypeOK
      <4> QED BY <2>3, <3>1, <4>1, SamePlaces
    <3>3. \A c \in Bids : InEntries(r, c)' = InEntries(r, c) /\ Filled(r)' = Filled(r)
      BY <2>3, <3>1 DEF InEntries, Filled, Ahead, Index
    <3>4. \A c \in Bids : held'[r][c] = IF c = b THEN held[r][c] + 1 ELSE held[r][c]
      BY <3>1 DEF TypeOK
    <3>5. Once(r)'
      <4> SUFFICES ASSUME NEW c \in 0..(ring[r].bufs - 1)
                   PROVE  Cardinality(InEntries(r, c))' + Cardinality(InResults(r, c))' + held'[r][c] = 1
        BY <3>1 DEF Once
      <4>1. c \in Bids
        BY RingFacts, Widths DEF Bids
      <4>2. Cardinality(InEntries(r, c)) + Cardinality(InResults(r, c)) + held[r][c] = 1
        BY <2>5 DEF Once
      <4>3. Cardinality(InEntries(r, c))' = Cardinality(InEntries(r, c))
        BY <3>3, <4>1
      <4>4. CASE c = b
        BY <2>4, <3>4, <4>1, <4>2, <4>3, <4>4, Counts
      <4>5. CASE c # b
        BY <2>4, <3>4, <4>1, <4>2, <4>3, <4>5
      <4> QED BY <4>4, <4>5
    <3>6. Fits(r)'
      <4>1. b < ring[r].bufs
        BY <2>5 DEF Fits
      <4>2. \A c \in Bids : held'[r][c] > 0 \/ InResults(r, c)' # {} => c < ring[r].bufs
        BY <2>4, <2>5, <3>4, <4>1 DEF Fits
      <4> QED BY <2>3, <2>5, <3>1, <3>3, <4>2 DEF Fits, Index, Filled, Ahead
    <3> QED BY <2>5, <3>1, <3>2, <3>5, <3>6 DEF Placed
  <2>7. CASE Cleanup(o)
    <3>1. ring' = Pushed(r, b) /\ held' = held
      BY <1>12, <2>1, <2>2, <2>7 DEF Cleanup
    <3>2. ASSUME NEW x \in Rings, x # r PROVE Placed(x)'
      <4>1. ring'[x] = ring[x] /\ \A c \in Bids : InResults(x, c)' = InResults(x, c)
        BY <2>4, <3>1, <3>2 DEF Pushed, TypeOK
      <4> QED BY <2>3, <3>1, <4>1, SamePlaces
    <3>3. \A c \in Bids :
            Cardinality(InResults(r, c))' + held'[r][c] + (IF c = b THEN 1 ELSE 0)
              = Cardinality(InResults(r, c)) + held[r][c]
      <4> TAKE c \in Bids
      <4>1. CASE c = b
        BY <2>4, <3>1, <4>1, Counts
      <4>2. CASE c # b
        BY <2>4, <3>1, <4>2, Counts
      <4> QED BY <4>1, <4>2
    <3>4. ring'[r].live = ring[r].live
      BY <3>1, PushedOwned
    <3>5. Placed(r)'
      BY <2>3, <2>5, <3>1, <3>3, <3>4, PushPlaces DEF Placed
    <3> QED BY <3>2, <3>5
  <2> QED BY <1>12, <2>6, <2>7
<1>13. ASSUME NEW o \in Ops, DropFuture(o) PROVE \A x \in Rings : Placed(x)'
  <2>1. \A x \in Ops : op'[x].result = op[x].result
    BY <1>13 DEF DropFuture, TypeOK, Operation
  <2>2. \A r \in Rings, b \in Bids : InResults(r, b)' = InResults(r, b)
    BY <2>1 DEF InResults
  <2> QED BY <1>2, <1>13, <2>2 DEF DropFuture
<1>14. ASSUME NEW o \in Ops, KernelReceives(o) PROVE \A x \in Rings : Placed(x)'
  BY <1>1, <1>14, ReceivedPlaces
<1>15. ASSUME NEW o \in Ops, KernelEnds(o) PROVE \A x \in Rings : Placed(x)'
  <2>1. op[o].result.kind = "none"
    BY <1>15 DEF KernelEnds, SentIsPending
  <2>2. op'[o].result.kind # "buffer" /\ \A x \in Ops \ {o} : op'[x] = op[x]
    BY <1>15 DEF KernelEnds, TypeOK, Operation, Bare
  <2> QED BY <1>2, <1>15, <2>1, <2>2, SameResults DEF KernelEnds
<1> QED BY <1>4, <1>5, <1>6, <1>7, <1>8, <1>9, <1>10, <1>11, <1>12, <1>13, <1>14, <1>15 DEF Next

LEMMA PendingInductive ==
  ASSUME TypeOK, SentIsPending, Next
  PROVE  SentIsPending'
<1>1. ASSUME op' = op PROVE SentIsPending'
  BY <1>1 DEF SentIsPending
<1>2. ASSUME NEW o \in Ops, op' = [op EXCEPT ![o] = NoOp] PROVE SentIsPending'
  BY <1>2, NoOpTyped DEF SentIsPending, TypeOK
<1>3. ASSUME NEW o \in Ops, NEW r \in Rings, Receive(o, r) PROVE SentIsPending'
  BY <1>3 DEF SentIsPending, TypeOK, Receive, Bare
<1>4. ASSUME NEW o \in Ops, DropFuture(o) PROVE SentIsPending'
  BY <1>4 DEF SentIsPending, TypeOK, DropFuture
<1>5. ASSUME NEW o \in Ops, KernelReceives(o) PROVE SentIsPending'
  <2>1. \A x \in Ops : op'[x].sent => op[x].sent /\ op'[x].result = op[x].result
    <3> DEFINE s == group[ring[op[o].uses].bgid]
               b == Buffer(s, ring[s].slots[Index(s, head[s])])
    <3>1. op' = [op EXCEPT ![o].sent = FALSE, ![o].result = b]
      BY <1>5 DEF KernelReceives
    <3> HIDE DEF b
    <3> QED BY <3>1 DEF TypeOK, Operation
  <2> QED BY <2>1 DEF SentIsPending
<1>6. ASSUME NEW o \in Ops, KernelEnds(o) PROVE SentIsPending'
  BY <1>6 DEF SentIsPending, TypeOK, Operation, KernelEnds
<1>7. ASSUME NEW r \in Rings
      PROVE  /\ \A g \in Bgids, q \in Requests : Build(r, g, q) => op' = op
             /\ \A g \in Bgids : BuildFails(r, g) => op' = op
             /\ \A b \in Bids : DropBuf(r, b) => op' = op
             /\ Sync(r) \/ Unregister(r) \/ Clone(r) \/ DropHandle(r) => op' = op
  BY DEF Build, BuildFails, DropBuf, Sync, Unregister, Clone, DropHandle
<1>8. ASSUME NEW o \in Ops, Complete(o) \/ Cleanup(o) PROVE SentIsPending'
  BY <1>2, <1>8 DEF Complete, Cleanup
<1> QED BY <1>1, <1>3, <1>4, <1>5, <1>6, <1>7, <1>8 DEF Next

LEMMA PlaceInvInit == Init => PlaceInv
<1> SUFFICES ASSUME Init PROVE PlaceInv
  OBVIOUS
<1>1. SentIsPending
  BY NoOpTyped DEF Init, SentIsPending
<1>2. \A r \in Rings : Placed(r)
  BY NoRingTyped DEF Init, Placed
<1> QED BY <1>1, <1>2, RingInvInit DEF PlaceInv

LEMMA PlaceInvInductive == PlaceInv /\ [Next]_vars => PlaceInv'
<1> SUFFICES ASSUME PlaceInv, [Next]_vars PROVE PlaceInv'
  OBVIOUS
<1>1. RingInv'
  BY RingInvInductive DEF PlaceInv
<1>2. CASE Next
  BY <1>1, <1>2, PlacesInductive, PendingInductive DEF PlaceInv, RingInv
<1>3. CASE UNCHANGED vars
  <2>1. SentIsPending'
    BY <1>3 DEF vars, PlaceInv, SentIsPending
  <2>2. \A r \in Rings : Placed(r)'
    BY <1>3, SamePlaces DEF vars, PlaceInv, RingInv, InResults
  <2> QED BY <1>1, <2>1, <2>2 DEF PlaceInv
<1> QED BY <1>2, <1>3

LEMMA PlaceInvAlways == Spec => []PlaceInv
BY PlaceInvInit, PlaceInvInductive, PTL DEF Spec

(* Every buffer of a ring is in one place, for every number of entries and *)
(* of buffers, and however often the indices wrap around.                  *)
THEOREM BuffersAreConserved == Spec => []Conserved
<1>1. PlaceInv => Conserved
  BY DEF PlaceInv, Placed, Once, Conserved
<1> QED BY <1>1, PlaceInvAlways, PTL

(* A step changes no entry that was offered: a push is of the entry at the *)
(* tail, and there is one that is not filled.                              *)
LEMMA OfferedKept ==
  ASSUME PlaceInv, PlaceInv', [Next]_vars, NEW r \in Rings, ring[r].live, ring'[r].live,
         NEW t \in Offered(r)
  PROVE  ring'[r].slots[Index(r, t)] = ring[r].slots[Index(r, t)]
<1> USE DEF PlaceInv, RingInv, Ownership
<1>1. Once(r) /\ Fits(r)
  BY DEF Placed
<1>2. ASSUME NEW x \in Rings, NEW b \in Bids, ring' = Pushed(x, b), head' = head,
             held[x][b] > 0 \/ InResults(x, b) # {}
      PROVE  ring'[r].slots[Index(r, t)] = ring[r].slots[Index(r, t)]
  <2>1. CASE x # r
    BY <1>2, <2>1 DEF Pushed, TypeOK
  <2>2. CASE x = r
    <3>1. t \in Filled(r)
      <4>1. t \in Indexes /\ Dist(head[r], t) < Dist(head[r], ring[r].shared)
        BY FilledIs
      <4>2. /\ Dist(head[r], t) \in Nat /\ Dist(head[r], ring[r].shared) \in Nat
            /\ Dist(head[r], ring[r].tail) \in Nat
        <5>1. /\ Dist(head[r], t) \in Indexes /\ Dist(head[r], ring[r].shared) \in Indexes
              /\ Dist(head[r], ring[r].tail) \in Indexes
          BY <4>1, RingFacts, DistIs
        <5> QED BY <5>1, Widths DEF Indexes
      <4> QED BY <1>1, <4>1, <4>2, FilledIs DEF Fits
    <3>2. Dist(head[r], ring[r].tail) < ring[r].entries
      BY <1>1, <1>2, <2>2, HasRoom
    <3>3. ring'[r].slots[Index(r, t)'] = ring[r].slots[Index(r, t)] /\ ring'[r].entries = ring[r].entries
      BY <1>1, <1>2, <2>2, <3>1, <3>2, Pushing
    <3> QED BY <3>3 DEF Index
  <2> QED BY <2>1, <2>2
<1>3. CASE UNCHANGED ring
  BY <1>3
<1> SUFFICES ASSUME Next PROVE ring'[r].slots[Index(r, t)] = ring[r].slots[Index(r, t)]
  BY <1>3 DEF vars
<1>9. harm = "none"
  BY DEF Next
<1>4. ASSUME NEW x \in Rings, NEW g \in Bgids, NEW q \in Requests, Build(x, g, q)
      PROVE  ring'[r].slots = ring[r].slots
  BY <1>4 DEF Build, TypeOK
<1>5. ASSUME NEW x \in Rings, Sync(x) \/ Clone(x) \/ DropHandle(x)
      PROVE  ring'[r].slots = ring[r].slots
  <2>1. ring[r] \in Ring /\ ring[x] \in Ring
    BY DEF TypeOK
  <2>2. ring'[r].slots = ring[r].slots
    <3>1. CASE Sync(x)
      BY <2>1, <3>1 DEF Sync, TypeOK, Ring
    <3>2. CASE Clone(x)
      BY <2>1, <3>2 DEF Clone, TypeOK, Ring
    <3>3. CASE DropHandle(x)
      BY <2>1, <3>3 DEF DropHandle, TypeOK, Ring
    <3> QED BY <1>5, <3>1, <3>2, <3>3
  <2> QED BY <2>2
<1>6. ASSUME NEW x \in Rings, Unregister(x) PROVE ring'[r].slots = ring[r].slots
  BY <1>6, NoRingTyped DEF Unregister, TypeOK
<1>7. ASSUME NEW x \in Rings, NEW b \in Bids, DropBuf(x, b)
      PROVE  ring'[r].slots[Index(r, t)] = ring[r].slots[Index(r, t)]
  BY <1>2, <1>7 DEF DropBuf
<1>8. ASSUME NEW o \in Ops, Cleanup(o), op[o].result.kind = "buffer"
      PROVE  ring'[r].slots[Index(r, t)] = ring[r].slots[Index(r, t)]
  <2>1. PICK b \in Bids : b = op[o].result.bid
    BY DEF TypeOK, Operation, Result
  <2>2. op[o].uses # None /\ op[o].uses \in Rings \cup {None}
    BY <1>8 DEF UnusedIsIdle, TypeOK, Operation
  <2>3. ring' = Pushed(op[o].uses, b) /\ head' = head
    BY <1>8, <2>1 DEF Cleanup
  <2>4. op[o].result = Buffer(op[o].uses, b)
    BY <1>8, <1>9, <2>1 DEF ResultsAreOwn, TypeOK, Operation, Result, Buffer
  <2>5. InResults(op[o].uses, b) # {}
    BY <2>4 DEF InResults
  <2> QED BY <1>2, <2>2, <2>3, <2>5
<1>10. ASSUME NEW o \in Ops, Cleanup(o), op[o].result.kind # "buffer" PROVE UNCHANGED ring
  BY <1>10 DEF Cleanup
<1> HIDE DEF PlaceInv, RingInv, Ownership
<1>11. /\ \A x \in Rings, g \in Bgids : BuildFails(x, g) => UNCHANGED ring
       /\ \A x \in Rings, o \in Ops : Receive(o, x) => UNCHANGED ring
       /\ \A o \in Ops : Complete(o) \/ DropFuture(o) \/ KernelReceives(o) \/ KernelEnds(o)
                        => UNCHANGED ring
  <2>1. \A x \in Rings, g \in Bgids : BuildFails(x, g) => UNCHANGED ring
    BY DEF BuildFails
  <2>2. \A x \in Rings, o \in Ops : Receive(o, x) => UNCHANGED ring
    BY DEF Receive
  <2>3. \A o \in Ops : Complete(o) \/ DropFuture(o) => UNCHANGED ring
    BY DEF Complete, DropFuture
  <2>4. \A o \in Ops : KernelReceives(o) \/ KernelEnds(o) => UNCHANGED ring
    BY DEF KernelReceives, KernelEnds
  <2> QED BY <2>1, <2>2, <2>3, <2>4
<1> DEFINE Kept == ring'[r].slots[Index(r, t)] = ring[r].slots[Index(r, t)]
<1>12. /\ UNCHANGED ring => Kept
       /\ \A x \in Rings, g \in Bgids, q \in Requests : Build(x, g, q) => Kept
       /\ \A x \in Rings : Sync(x) \/ Clone(x) \/ DropHandle(x) \/ Unregister(x) => Kept
       /\ \A x \in Rings, b \in Bids : DropBuf(x, b) => Kept
       /\ \A o \in Ops : Cleanup(o) => Kept
  BY <1>3, <1>4, <1>5, <1>6, <1>7, <1>8, <1>10
<1> HIDE DEF Kept
<1>13. Kept
  BY <1>11, <1>12 DEF Next
<1> QED BY <1>13 DEF Kept

THEOREM OfferedIsKept == Spec => OfferedIsStable
<1>1. PlaceInv /\ PlaceInv' /\ [Next]_vars =>
        [\A r \in Rings : ring[r].live /\ ring'[r].live =>
           \A t \in Offered(r) : ring'[r].slots[Index(r, t)] = ring[r].slots[Index(r, t)]]_vars
  BY OfferedKept
<1> QED BY <1>1, PlaceInvAlways, PTL DEF Spec, OfferedIsStable

=============================================================================
