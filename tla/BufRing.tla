------------------------------ MODULE BufRing ------------------------------
(***************************************************************************)
(* The buffer rings of norn-uring (bufring.rs): memory shared with the     *)
(* kernel, through which the application offers buffers for the receives   *)
(* of RecvFromRing (net/socket.rs).                                        *)
(*                                                                         *)
(* The application fills an entry and its copy of the tail, and then       *)
(* stores the tail for the kernel, which takes entries at any time.  Both  *)
(* indices wrap around in their width, and the entry is the index masked.  *)
(* A ring is registered under an identifier, by which entries name it, and *)
(* unregistered when its last owner is dropped.                            *)
(***************************************************************************)
EXTENDS Naturals, FiniteSets, FiniteSetsExt

CONSTANTS
  Rings,      (* rings, in the memory of InnerBufRing                      *)
  Bgids,      (* identifiers of buffer groups                              *)
  Ops,        (* receives, used again when freed                           *)
  None,       (* no ring                                                   *)
  Width,      (* 2 to the number of bits of the tail                       *)
  Requests,   (* what Builders ask for: entries and buffers                *)
  MaxHandles  (* bound: clones of a BufRing                                *)

(* Those of a u16.                                                         *)
PowersOfTwo ==
  {1, 2, 4, 8, 16, 32, 64, 128, 256, 512, 1024, 2048, 4096, 8192, 16384, 32768}

ASSUME BufRingAssumption ==
  /\ None \notin Rings /\ IsFiniteSet(Ops) /\ Bgids # {}
  /\ Width \in {2 * p : p \in PowersOfTwo}
  /\ Requests \subseteq [entries : 0..(Width - 1), bufs : 0..(Width - 1)]
  /\ MaxHandles \in Nat \ {0}

VARIABLES
  ring,    (* each ring: its size, its memory and its handles              *)
  head,    (* the kernel's index in each                                   *)
  group,   (* the ring that the kernel has for each identifier             *)
  op,      (* each receive                                                 *)
  held,    (* how often the application holds each buffer, a BufRingBuf    *)
  harm     (* what a failed Builder or an empty receive did, if one did    *)

vars == <<ring, head, group, op, held, harm>>

MaxEntries == Width \div 2
Bids == 0..(MaxEntries - 1)

Ring == [live : BOOLEAN, bgid : Bgids, bufs : 0..MaxEntries, entries : 1..MaxEntries,
         slots : [Bids -> Bids], tail : 0..(Width - 1), shared : 0..(Width - 1),
         handles : 0..MaxHandles]

NoRing == [live |-> FALSE, bgid |-> CHOOSE g \in Bgids : TRUE, bufs |-> 0, entries |-> 1,
           slots |-> [b \in Bids |-> 0], tail |-> 0, shared |-> 0, handles |-> 0]

(* The result of a receive: none yet, an error, success without a buffer,  *)
(* or a buffer of a ring.                                                  *)
Result == [kind : {"none", "error", "empty", "buffer"}, ring : Rings \cup {None}, bid : Bids]
Bare(k) == [kind |-> k, ring |-> None, bid |-> 0]
Buffer(r, b) == [kind |-> "buffer", ring |-> r, bid |-> b]

Operation == [uses : Rings \cup {None}, future : BOOLEAN, sent : BOOLEAN, result : Result]
NoOp == [uses |-> None, future |-> FALSE, sent |-> FALSE, result |-> Bare("none")]

-----------------------------------------------------------------------------
(* Builder::build, and InnerBufRing::new.                                  *)

(* mutant: the size is not rounded. *)
Unrounded(n) == n

(* u16::next_power_of_two. *)
NextPowerOfTwo(n) ==
  CHOOSE p \in PowersOfTwo : p >= n /\ \A q \in PowersOfTwo : q >= n => p <= q

Size(q) ==
  LET most == Max({q.entries, q.bufs}) IN
  IF q.bufs = 0 \/ q.entries < q.bufs
  THEN [entries |-> most, bufs |-> most] ELSE q

(* It refuses what the kernel cannot have, and a ring without buffers.     *)
Accepted(q) == Size(q).bufs > 0 /\ Size(q).entries <= MaxEntries

-----------------------------------------------------------------------------
Index(r, t) == t % ring[r].entries

(* The entries that the kernel may take, and those filled.                 *)
Ahead(r, t) == (t + Width - head[r]) % Width
Offered(r)  == {t \in 0..(Width - 1) : Ahead(r, t) < Ahead(r, ring[r].shared)}
Filled(r)   == {t \in 0..(Width - 1) : Ahead(r, t) < Ahead(r, ring[r].tail)}

Users(r) == {o \in Ops : op[o].uses = r}

(* mutant: a receive does not hold its ring. *)
OwnedLess(r) == ring[r].handles > 0 \/ \E b \in Bids : held[r][b] > 0

(* Each clone of the BufRing: the application's, those of receives, and    *)
(* those of buffers.                                                       *)
Owned(r) ==
  ring[r].handles > 0 \/ Users(r) # {} \/ \E b \in Bids : held[r][b] > 0

(* One thread runs the application.  A push is followed by its sync, and   *)
(* the drop of a last owner by its Drop, before anything else.             *)
Unsynced(r) == ring[r].live /\ ring[r].tail # ring[r].shared
Orphan(r)   == ring[r].live /\ ~Unsynced(r) /\ ~Owned(r)
Quiet       == \A r \in Rings : ~Unsynced(r) /\ ~Orphan(r)

Init ==
  /\ ring = [r \in Rings |-> NoRing]
  /\ head = [r \in Rings |-> 0] /\ group = [g \in Bgids |-> None]
  /\ op = [o \in Ops |-> NoOp] /\ held = [r \in Rings |-> [b \in Bids |-> 0]]
  /\ harm = "none"

(* mutant: the entry after the one at the tail. *)
PushedBeyond(r, b) ==
  [ring EXCEPT ![r].slots[Index(r, ring[r].tail + 1)] = b, ![r].tail = (@ + 1) % Width]

(* buf_ring_push: the entry at the tail, which goes one further.           *)
Pushed(r, b) ==
  [ring EXCEPT ![r].slots[Index(r, ring[r].tail)] = b, ![r].tail = (@ + 1) % Width]

(* buf_ring_sync. *)
Sync(r) ==
  /\ Unsynced(r) /\ ring' = [ring EXCEPT ![r].shared = ring[r].tail]
  /\ UNCHANGED <<head, group, op, held, harm>>

(* Builder::build, of an identifier that is not registered.                *)
Build(r, g, q) ==
  LET size == Size(q) entries == NextPowerOfTwo(size.entries) IN
  /\ Quiet /\ ~ring[r].live /\ group[g] = None /\ Accepted(q)
  /\ ring' = [ring EXCEPT ![r] =
       [live |-> TRUE, bgid |-> g, bufs |-> size.bufs, entries |-> entries,
        slots |-> [b \in Bids |-> IF b < size.bufs THEN b ELSE 0],
        tail |-> size.bufs, shared |-> 0, handles |-> 1]]
  /\ group' = [group EXCEPT ![g] = r]
  /\ UNCHANGED <<head, op, held, harm>>

(* A registration that fails drops the InnerBufRing, which unregisters the *)
(* identifier: another ring's if it is in use, else nobody's, and the      *)
(* result of that is unwrapped.                                            *)
BuildFails(r, g) ==
  /\ Quiet /\ ~ring[r].live
  /\ group' = [group EXCEPT ![g] = None]
  /\ harm' = IF group[g] # None THEN "unregistered" ELSE "panic"
  /\ UNCHANGED <<ring, head, op, held>>

(* Drop for InnerBufRing. *)
Unregister(r) ==
  /\ Orphan(r) /\ ring' = [ring EXCEPT ![r] = NoRing]
  /\ group' = [group EXCEPT ![ring[r].bgid] = None]
  /\ harm' = IF group[ring[r].bgid] = r THEN harm ELSE "dropped"
  /\ head' = [head EXCEPT ![r] = 0]
  /\ UNCHANGED <<op, held>>

Clone(r) ==
  /\ Quiet /\ ring[r].handles \in 1..(MaxHandles - 1)
  /\ ring' = [ring EXCEPT ![r].handles = @ + 1]
  /\ UNCHANGED <<head, group, op, held, harm>>

DropHandle(r) ==
  /\ Quiet /\ ring[r].handles > 0
  /\ ring' = [ring EXCEPT ![r].handles = @ - 1]
  /\ UNCHANGED <<head, group, op, held, harm>>

(* The drop of a BufRingBuf gives the buffer back.                         *)
DropBuf(r, b) ==
  /\ Quiet /\ held[r][b] > 0
  /\ held' = [held EXCEPT ![r][b] = @ - 1] /\ ring' = Pushed(r, b)
  /\ UNCHANGED <<head, group, op, harm>>

-----------------------------------------------------------------------------
(* RecvFromRing.                                                           *)

Receive(o, r) ==
  /\ Quiet /\ op[o] = NoOp /\ ring[r].handles > 0
  /\ op' = [op EXCEPT ![o] = [uses |-> r, future |-> TRUE, sent |-> TRUE, result |-> Bare("none")]]
  /\ UNCHANGED <<ring, head, group, held, harm>>

(* A receive that is complete is polled: a buffer goes to the application, *)
(* with the identifier that the kernel reports and the ring of the future. *)
(* A success without a buffer is unwrapped.                                *)
Complete(o) ==
  LET r == op[o].uses result == op[o].result IN
  /\ Quiet /\ op[o].future /\ result.kind # "none"
  /\ op' = [op EXCEPT ![o] = NoOp]
  /\ held' = IF result.kind = "buffer" THEN [held EXCEPT ![r][result.bid] = @ + 1] ELSE held
  /\ harm' = IF result.kind = "empty" THEN "panic" ELSE harm
  /\ UNCHANGED <<ring, head, group>>

DropFuture(o) ==
  /\ Quiet /\ op[o].future /\ op' = [op EXCEPT ![o].future = FALSE]
  /\ UNCHANGED <<ring, head, group, held, harm>>

(* One that was dropped is cleaned up when it completes: the buffer is     *)
(* taken, and dropped.                                                     *)
Cleanup(o) ==
  LET result == op[o].result IN
  /\ Quiet /\ ~op[o].future /\ result.kind # "none"
  /\ op' = [op EXCEPT ![o] = NoOp]
  /\ ring' = IF result.kind = "buffer" THEN Pushed(op[o].uses, result.bid) ELSE ring
  /\ harm' = IF result.kind = "empty" THEN "panic" ELSE harm
  /\ UNCHANGED <<head, group, held>>

-----------------------------------------------------------------------------
(* The kernel.  A receive takes the buffer at the head of the ring that    *)
(* its identifier has by then, or fails for want of one, or otherwise; at  *)
(* the end of a stream it may succeed without a buffer.                    *)

KernelReceives(o) ==
  LET s == group[ring[op[o].uses].bgid] IN
  /\ op[o].sent /\ s # None /\ Offered(s) # {}
  /\ head' = [head EXCEPT ![s] = (@ + 1) % Width]
  /\ op' = [op EXCEPT ![o].sent = FALSE,
                      ![o].result = Buffer(s, ring[s].slots[Index(s, head[s])])]
  /\ UNCHANGED <<ring, group, held, harm>>

KernelEnds(o) ==
  /\ op[o].sent
  /\ \E k \in {"error", "empty"} :
       op' = [op EXCEPT ![o].sent = FALSE, ![o].result = Bare(k)]
  /\ UNCHANGED <<ring, head, group, held, harm>>

-----------------------------------------------------------------------------
Next ==
  /\ harm = "none"
  /\ \/ \E r \in Rings : \/ \E g \in Bgids, q \in Requests : Build(r, g, q)
                         \/ \E g \in Bgids : BuildFails(r, g)
                         \/ \E b \in Bids : DropBuf(r, b)
                         \/ \E o \in Ops : Receive(o, r)
                         \/ Sync(r) \/ Unregister(r) \/ Clone(r) \/ DropHandle(r)
     \/ \E o \in Ops : \/ Complete(o) \/ DropFuture(o) \/ Cleanup(o)
                       \/ KernelReceives(o) \/ KernelEnds(o)

Spec == Init /\ [][Next]_vars

-----------------------------------------------------------------------------
(* Properties.                                                             *)

TypeOK ==
  /\ ring \in [Rings -> Ring] /\ head \in [Rings -> 0..(Width - 1)]
  /\ group \in [Bgids -> Rings \cup {None}] /\ op \in [Ops -> Operation]
  /\ held \in [Rings -> [Bids -> Nat]]
  /\ harm \in {"none", "unregistered", "panic", "dropped"}

InEntries(r, b) == {t \in Filled(r) : ring[r].slots[Index(r, t)] = b}
InResults(r, b) == {o \in Ops : op[o].result = Buffer(r, b)}

(* Every buffer of a ring is in one place: offered once, the result of one *)
(* receive, or held once.  None is lost to the ring, and none is written   *)
(* by the kernel while it is read, however often the indices wrap.         *)
Conserved ==
  \A r \in Rings : ring[r].live =>
    \A b \in 0..(ring[r].bufs - 1) :
      Cardinality(InEntries(r, b)) + Cardinality(InResults(r, b)) + held[r][b] = 1

(* A receive, in the kernel or not consumed, belongs to the ring that the  *)
(* kernel has for the identifier it names, so that a buffer is always of   *)
(* the ring that interprets it: a ring is unregistered after its last use. *)
RegisteredWhileUsed ==
  harm = "none" =>
    \A o \in Ops : op[o].uses # None =>
      /\ ring[op[o].uses].live /\ group[ring[op[o].uses].bgid] = op[o].uses
      /\ op[o].result.kind = "buffer" => op[o].result.ring = op[o].uses

(* The types, and RegisteredWhileUsed.                                     *)
Inv == TypeOK /\ RegisteredWhileUsed

(* No entry that the kernel may take changes, while it may be reading it.  *)
OfferedIsStable ==
  [][\A r \in Rings : ring[r].live /\ ring'[r].live =>
       \A t \in Offered(r) : ring'[r].slots[Index(r, t)] = ring[r].slots[Index(r, t)]]_vars

-----------------------------------------------------------------------------
(* What the documentation says, and the code does not do.                  *)

(* Only the drop of a ring unregisters it: a Builder that fails returns    *)
(* its error, and a group with outstanding operations stays registered.    *)
FailureIsReported == harm # "unregistered"
=============================================================================
