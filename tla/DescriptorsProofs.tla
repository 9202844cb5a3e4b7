------------------------- MODULE DescriptorsProofs -------------------------
(***************************************************************************)
(* The invariants of Descriptors, for every set of numbers, of files and   *)
(* of operations.                                                          *)
(*                                                                         *)
(* What a file is to the program is one of three: it is alive (a NornFd    *)
(* has it), it was made by an operation and not taken yet, or its close    *)
(* was asked for.  As long as no file was closed that was not meant, what  *)
(* is alive or made is open under the number that names it.                *)
(***************************************************************************)
EXTENDS Descriptors, FiniteSetTheorems, SequenceTheorems, TLAPS

(* A file has one number at most. *)
Numbered ==
  \A m, n \in Numbers : table[m] = table[n] /\ table[m] \in Files => m = n

(* A closer is alone with the descriptor from the push of its CloseFd.     *)
Alone ==
  \A f \in Files :
    /\ fd[f].closer # "none" => fd[f].app = 1
    /\ fd[f].closer \in {"pushing", "sent", "done", "failed"} => Users(f) = {}
    /\ fd[f].tried <=> fd[f].closer \in {"sent", "done", "failed"}

(* What is alive is open, until its closer has a result. *)
AliveIsOpen ==
  \A f \in Files : Alive(f) =>
    /\ fd[f].closer \notin {"done", "failed"} => table[fd[f].num] = f
    /\ \A n \in Numbers : table[n] = f => n = fd[f].num
    /\ fd[f].closer = "done" => \A n \in Numbers : table[n] # f

(* A request is for a file that nobody has, under its number; a first one  *)
(* is the only one, and its file is open.                                  *)
AskedIsOver ==
  \A r \in closes :
    IF r.file = None THEN r.cause = "connect"
    ELSE /\ ~Alive(r.file) /\ ~Accepted(r.file)
         /\ r.cause \notin {"connect", "explicit"}
         /\ \A n \in Numbers : table[n] = r.file => n = r.num
         /\ r.cause \in {"drop", "cleanup"} =>
              table[r.num] = r.file /\ \A q \in closes : q.file = r.file => q = r

(* An operation that is not in the kernel has no results, and only one     *)
(* that makes descriptors has several.                                     *)
Shaped ==
  \A o \in Ops :
    /\ op[o].stage = "none" => op[o].uses = None
    /\ op[o].stage \in {"none", "new"} => op[o].results = <<>>
    /\ op[o].stage = "sent" /\ op[o].kind # "incoming" => op[o].results = <<>>
    /\ op[o].kind # "incoming" => Len(op[o].results) <= 1
    /\ op[o].kind \notin Makes \cup Connects => op[o].results = <<>>
    /\ op[o].kind \in Connects => \A i \in DOMAIN op[o].results : op[o].results[i].file = None

(* What is made is open under its number, nobody has it, and it is once.   *)
MadeIsOpen ==
  \A o \in Ops : op[o].kind \in Makes => \A i \in DOMAIN op[o].results :
    /\ op[o].results[i].file \in Files
    /\ table[op[o].results[i].num] = op[o].results[i].file
    /\ ~Alive(op[o].results[i].file)
    /\ \A p \in Ops : \A j \in DOMAIN op[p].results :
         op[p].results[j].file = op[o].results[i].file => p = o /\ j = i

Placed == Numbered /\ Alone /\ AliveIsOpen /\ AskedIsOver /\ MadeIsOpen /\ NoneLeaked

FdInv == TypeOK /\ Shaped /\ ClosesItsOwn /\ (harm = "none" => Placed)

-----------------------------------------------------------------------------
(* The types.                                                              *)

LEMMA Kinds ==
  /\ Kind = {"open", "accept", "incoming", "connect", "transfer"}
  /\ Makes = {"open", "accept", "incoming"} /\ Connects = {"connect"}
  /\ Uses = {"accept", "incoming", "connect", "transfer"}
BY DEF Kind, Makes, Uses, Opens, Accepts, Connects, Datagrams, SocketUses, FileUses

LEMMA NoFdTyped == NoFd \in Fd
BY DescriptorsAssumption DEF NoFd, Fd, Closer

LEMMA NoOpTyped ==
  /\ NoOp \in Operation /\ NoOp.uses = None /\ NoOp.stage = "none" /\ NoOp.results = <<>>
  /\ ~NoOp.future /\ NoOp.kind = "open"
<1>1. <<>> \in Seq(Made)
  OBVIOUS
<1> QED BY <1>1, Kinds DEF NoOp, Operation

LEMMA NewOpTyped ==
  ASSUME NEW k \in Kind, NEW f \in Files \cup {None}
  PROVE  /\ NewOp(k, f) \in Operation /\ NewOp(k, f).kind = k /\ NewOp(k, f).uses = f
         /\ NewOp(k, f).stage = "new" /\ NewOp(k, f).results = <<>>
BY NoOpTyped DEF NewOp, Operation, NoOp

LEMMA NewFdTyped ==
  ASSUME NEW n \in Numbers
  PROVE  /\ NewFd(n) \in Fd /\ NewFd(n).num = n /\ NewFd(n).app = 1
         /\ NewFd(n).closer = "none" /\ ~NewFd(n).tried
BY DEF NewFd, Fd, Closer

LEMMA OpFacts ==
  ASSUME TypeOK, NEW o \in Ops
  PROVE  /\ op[o].kind \in Kind /\ op[o].uses \in Files \cup {None} /\ op[o].results \in Seq(Made)
         /\ op[o].stage \in {"none", "new", "sent", "done"} /\ op[o].future \in BOOLEAN
         /\ Len(op[o].results) \in Nat /\ DOMAIN op[o].results = 1..Len(op[o].results)
         /\ \A i \in DOMAIN op[o].results :
              /\ op[o].results[i] \in Made /\ op[o].results[i].num \in Numbers
              /\ op[o].results[i].file \in Files \cup {None}
         /\ (op[o].results # <<>> <=> Len(op[o].results) >= 1)
<1>1. op[o] \in Operation
  BY DEF TypeOK
<1>2. op[o].results \in Seq(Made)
  BY <1>1 DEF Operation
<1>3. Len(op[o].results) \in Nat /\ DOMAIN op[o].results = 1..Len(op[o].results)
  BY <1>2, LenProperties
<1>4. \A i \in DOMAIN op[o].results : op[o].results[i] \in Made
  BY <1>2, <1>3, ElementOfSeq
<1>5. op[o].results # <<>> <=> Len(op[o].results) >= 1
  BY <1>2, EmptySeq
<1> QED BY <1>1, <1>2, <1>3, <1>4, <1>5 DEF Operation, Made

LEMMA FdFacts ==
  ASSUME TypeOK, NEW f \in Files
  PROVE  /\ fd[f] \in Fd /\ fd[f].num \in Numbers /\ fd[f].app \in 0..2 /\ fd[f].closer \in Closer
         /\ fd[f].tried \in BOOLEAN /\ fd \in [Files -> Fd]
BY DEF TypeOK, Fd

LEMMA OpStaged ==
  ASSUME TypeOK, NEW o \in Ops, NEW st \in {"none", "new", "sent", "done"}
  PROVE  [op EXCEPT ![o].stage = st] \in [Ops -> Operation]
BY DEF TypeOK, Operation

LEMMA OpLeft ==
  ASSUME TypeOK, NEW o \in Ops
  PROVE  [op EXCEPT ![o].future = FALSE] \in [Ops -> Operation]
BY DEF TypeOK, Operation

LEMMA OpUpdated ==
  ASSUME TypeOK, NEW o \in Ops, NEW rs \in Seq(Made), NEW st \in {"none", "new", "sent", "done"}
  PROVE  /\ [op EXCEPT ![o].results = rs, ![o].stage = st] \in [Ops -> Operation]
         /\ [op EXCEPT ![o].stage = st, ![o].results = rs] \in [Ops -> Operation]
<1>1. op \in [Ops -> Operation] /\ op[o] \in Operation
  BY DEF TypeOK
<1>2. [op[o] EXCEPT !.results = rs, !.stage = st] \in Operation
  BY <1>1 DEF Operation
<1>3. [op[o] EXCEPT !.stage = st, !.results = rs] \in Operation
  BY <1>1 DEF Operation
<1> QED BY <1>1, <1>2, <1>3

(* Who owns a file. *)
LEMMA Owners ==
  ASSUME TypeOK, NEW f \in Files
  PROVE  /\ IsFiniteSet(Users(f)) /\ Cardinality(Users(f)) \in Nat
         /\ Cardinality(Users(f)) = 0 <=> Users(f) = {}
         /\ fd[f].app = 1 => (Strong(f) = 1 <=> Users(f) = {})
         /\ \A o \in Users(f) :
              Strong(f) = 1 <=> fd[f].app = 0 /\ Users(f) = {o}
<1>1. Users(f) \in SUBSET Ops
  BY DEF Users
<1>2. IsFiniteSet(Users(f))
  BY <1>1, FS_Subset, DescriptorsAssumption
<1>3. Cardinality(Users(f)) \in Nat /\ (Cardinality(Users(f)) = 0 <=> Users(f) = {})
  BY <1>2, FS_CardinalityType, FS_EmptySet
<1>4. \A o \in Users(f) : Cardinality(Users(f)) = 1 <=> Users(f) = {o}
  <2> TAKE o \in Users(f)
  <2>1. Cardinality(Users(f)) = 1 <=> \E x : Users(f) = {x}
    BY <1>2, FS_Singleton
  <2>2. \A x : Users(f) = {x} => x = o
    OBVIOUS
  <2> QED BY <2>1, <2>2
<1>5. fd[f].app \in Nat
  BY FdFacts
<1>6. fd[f].app = 1 => (Strong(f) = 1 <=> Users(f) = {})
  BY <1>3 DEF Strong
<1>7. ASSUME NEW o \in Users(f) PROVE Strong(f) = 1 <=> fd[f].app = 0 /\ Users(f) = {o}
  <2>1. Cardinality(Users(f)) >= 1
    BY <1>3
  <2> QED BY <1>3, <1>4, <1>5, <2>1 DEF Strong
<1> QED BY <1>2, <1>3, <1>6, <1>7

LEMMA DropCloneTyped ==
  ASSUME TypeOK, NEW f \in Files \cup {None}
  PROVE  DropClone(fd, f) \in [Files -> Fd]
<1>1. CASE f = None
  BY <1>1 DEF DropClone, TypeOK
<1>2. CASE f \in Files
  <2>1. [fd EXCEPT ![f] = NoFd] \in [Files -> Fd]
    BY NoFdTyped DEF TypeOK
  <2>2. [fd EXCEPT ![f].closer = IF @ = "waiting" THEN "polled" ELSE @] \in [Files -> Fd]
    BY <1>2, FdFacts DEF Fd, Closer
  <2>3. f # None
    BY <1>2, DescriptorsAssumption
  <2> QED BY <2>1, <2>2, <2>3 DEF DropClone
<1> QED BY <1>1, <1>2

LEMMA LoseHandleTyped ==
  ASSUME TypeOK, NEW f \in Files, fd[f].app > 0, LoseHandle(f)
  PROVE  fd' \in [Files -> Fd]
<1>1. [fd EXCEPT ![f] = NoFd] \in [Files -> Fd]
  BY NoFdTyped DEF TypeOK
<1>2. [fd EXCEPT ![f].app = @ - 1, ![f].closer = "none"] \in [Files -> Fd]
  BY FdFacts DEF Fd, Closer
<1> QED BY <1>1, <1>2 DEF LoseHandle

(* Requests that are made. *)
LEMMA PushTyped ==
  ASSUME TypeOK, NEW before, NEW rs, before \subseteq Request, rs \subseteq Request,
         PushCloses(before, rs)
  PROVE  closes' \subseteq Request /\ leaked' \subseteq Files
<1>1. \A r \in Request : r.file \in Files \cup {None}
  BY DEF Request
<1> QED BY <1>1 DEF PushCloses, TypeOK

LEMMA RequestsTyped ==
  ASSUME TypeOK
  PROVE  /\ \A f \in Files \cup {None} : DropInner(f) \subseteq Request
         /\ \A o \in Ops : Cleanup(o) \subseteq Request
<1>1. ASSUME NEW f \in Files \cup {None} PROVE DropInner(f) \subseteq Request
  BY <1>1, FdFacts DEF DropInner, Request, Cause
<1>2. ASSUME NEW o \in Ops PROVE Cleanup(o) \subseteq Request
  BY <1>2, OpFacts DEF Cleanup, Request, Cause
<1> QED BY <1>1, <1>2

LEMMA NextTyped == ASSUME TypeOK, Alone, Next PROVE TypeOK'
<1>1. ASSUME NEW o \in Ops, Open(o) PROVE TypeOK'
  BY <1>1, NewOpTyped, Kinds DEF TypeOK, Open
<1>2. ASSUME NEW o \in Ops, NEW f \in Files, NEW k \in Uses, Start(o, k, f) PROVE TypeOK'
  BY <1>2, NewOpTyped, Kinds DEF TypeOK, Start
<1>3. ASSUME NEW o \in Ops, Push(o) \/ DropSent(o) PROVE TypeOK'
  BY <1>3, OpStaged, OpLeft DEF TypeOK, Push, DropSent
<1>4. ASSUME NEW o \in Ops, Complete(o) PROVE TypeOK'
  <2> DEFINE dropped == DropClone(fd, op[o].uses)
             rs == op[o].results
  <2>1. op' \in [Ops -> Operation] /\ table' = table /\ harm' = harm
    BY <1>4, NoOpTyped DEF TypeOK, Complete
  <2>2. closes' \subseteq Request /\ leaked' \subseteq Files
    <3>1. DropInner(op[o].uses) \subseteq Request /\ closes \subseteq Request
      BY OpFacts, RequestsTyped DEF TypeOK
    <3>2. PushCloses(closes, DropInner(op[o].uses))
      BY <1>4 DEF Complete
    <3> QED BY <3>1, <3>2, PushTyped
  <2>3. dropped \in [Files -> Fd]
    BY OpFacts, DropCloneTyped
  <2>4. fd' = IF op[o].kind \in Makes /\ rs # <<>>
              THEN [dropped EXCEPT ![rs[1].file] = NewFd(rs[1].num)] ELSE dropped
    BY <1>4 DEF Complete
  <2>5. rs # <<>> => NewFd(rs[1].num) \in Fd
    BY OpFacts, NewFdTyped
  <2> HIDE DEF dropped, rs
  <2>6. fd' \in [Files -> Fd]
    BY <2>3, <2>4, <2>5
  <2> QED BY <2>1, <2>2, <2>6 DEF TypeOK
<1>5. ASSUME NEW o \in Ops, Update(o) PROVE TypeOK'
  <2> DEFINE rs == op[o].results
             n == Len(rs)
  <2>1. rs \in Seq(Made) /\ n \in Nat /\ n >= 1 /\ rs[n] \in Made /\ rs[n].num \in Numbers
        /\ \A i \in 1..(n - 1) : rs[i] \in Made
    BY <1>5, OpFacts DEF Update
  <2>2. /\ op' = [op EXCEPT ![o].results = SubSeq(rs, 1, n - 1)]
        /\ fd' = [fd EXCEPT ![rs[n].file] = NewFd(rs[n].num)]
        /\ UNCHANGED <<table, closes, leaked, harm>>
    BY <1>5 DEF Update
  <2> HIDE DEF rs, n
  <2>3. SubSeq(rs, 1, n - 1) \in Seq(Made)
    BY <2>1, SubSeqProperties
  <2>4. op' \in [Ops -> Operation]
    BY <2>2, <2>3 DEF TypeOK, Operation
  <2>5. fd' \in [Files -> Fd]
    BY <2>1, <2>2, NewFdTyped DEF TypeOK
  <2> QED BY <2>2, <2>4, <2>5 DEF TypeOK
<1>6. ASSUME NEW o \in Ops, Destroy(o) PROVE TypeOK'
  <2>1. op' \in [Ops -> Operation] /\ table' = table /\ harm' = harm
    BY <1>6, NoOpTyped DEF TypeOK, Destroy
  <2>2. fd' \in [Files -> Fd]
    BY <1>6, OpFacts, DropCloneTyped DEF Destroy
  <2>3. closes' \subseteq Request /\ leaked' \subseteq Files
    <3>1. Cleanup(o) \cup DropInner(op[o].uses) \subseteq Request /\ closes \subseteq Request
      BY OpFacts, RequestsTyped DEF TypeOK
    <3>2. PushCloses(closes, Cleanup(o) \cup DropInner(op[o].uses))
      BY <1>6 DEF Destroy
    <3> QED BY <3>1, <3>2, PushTyped
  <2> QED BY <2>1, <2>2, <2>3 DEF TypeOK
<1>7. ASSUME NEW f \in Files, Split(f) \/ BeginClose(f) \/ PollClose(f) \/ PushClose(f)
      PROVE  TypeOK'
  <2>1. fd' \in [Files -> Fd]
    BY <1>7, FdFacts DEF Split, BeginClose, PollClose, PushClose, Fd, Closer
  <2> QED BY <1>7, <2>1 DEF TypeOK, Split, BeginClose, PollClose, PushClose
<1>8. ASSUME NEW f \in Files, fd[f].app > 0, LoseHandle(f), NEW before, before \subseteq Request,
             PushCloses(before, DropInner(f)), UNCHANGED <<table, op, harm>>
      PROVE  TypeOK'
  BY <1>8, LoseHandleTyped, RequestsTyped, PushTyped DEF TypeOK
<1>9. ASSUME NEW f \in Files, FinishClose(f), fd[f].app > 0 PROVE TypeOK'
  BY <1>9, LoseHandleTyped DEF TypeOK, FinishClose
<1>10. ASSUME NEW f \in Files, DropClose(f) PROVE
          \E before \in SUBSET Request : PushCloses(before, DropInner(f))
  <2>1. [num |-> fd[f].num, file |-> f, cause |-> "cancelled"] \in Request
    BY FdFacts DEF Request, Cause
  <2> QED BY <1>10, <2>1 DEF DropClose, TypeOK
<1>11. ASSUME NEW o \in Ops, KernelOpens(o) PROVE TypeOK'
  <2>1. PICK n \in FreeNumbers, f \in Files :
          /\ table' = [table EXCEPT ![n] = f]
          /\ op' = [op EXCEPT ![o].results = Append(@, [num |-> n, file |-> f]),
                              ![o].stage = IF op[o].kind = "incoming" THEN @ ELSE "done"]
          /\ leaked' = leaked \ {f}
    BY <1>11 DEF KernelOpens
  <2>2. n \in Numbers
    BY DEF FreeNumbers
  <2>3. Append(op[o].results, [num |-> n, file |-> f]) \in Seq(Made)
    <3>1. [num |-> n, file |-> f] \in Made
      BY <2>2 DEF Made
    <3> QED BY <3>1, OpFacts, AppendProperties
  <2>4. op' \in [Ops -> Operation]
    BY <2>1, <2>3, OpUpdated, OpFacts
  <2> QED BY <1>11, <2>1, <2>2, <2>4 DEF TypeOK, KernelOpens
<1>12. ASSUME NEW o \in Ops, KernelEnds(o) PROVE TypeOK'
  <2>1. <<[num |-> 0, file |-> None]>> \in Seq(Made)
    <3>1. [num |-> 0, file |-> None] \in Made
      BY DescriptorsAssumption DEF Made
    <3> QED BY <3>1
  <2>2. op' \in [Ops -> Operation]
    <3>1. \/ op' = [op EXCEPT ![o].stage = "done"]
          \/ op' = [op EXCEPT ![o].stage = "done", ![o].results = <<[num |-> 0, file |-> None]>>]
      BY <1>12 DEF KernelEnds
    <3>2. [op EXCEPT ![o].stage = "done"] \in [Ops -> Operation]
      BY OpStaged
    <3>3. [op EXCEPT ![o].stage = "done", ![o].results = <<[num |-> 0, file |-> None]>>]
            \in [Ops -> Operation]
      BY <2>1, OpUpdated
    <3> QED BY <3>1, <3>2, <3>3
  <2> QED BY <1>12, <2>2 DEF TypeOK, KernelEnds
<1>13. ASSUME NEW r \in Request, Release(r)
       PROVE  table' \in [Numbers -> Files \cup {None, Stdin}] /\ harm' \in Cause \cup {"none"}
  BY <1>13 DEF TypeOK, Release, Request
<1>14. ASSUME NEW f \in Files, KernelCloses(f) PROVE TypeOK'
  <2>1. [num |-> fd[f].num, file |-> f, cause |-> "explicit"] \in Request
    BY FdFacts DEF Request, Cause
  <2>2. fd' \in [Files -> Fd]
    BY <1>14, FdFacts DEF KernelCloses, Fd, Closer
  <2> QED BY <1>13, <1>14, <2>1, <2>2 DEF TypeOK, KernelCloses
<1>15. ASSUME NEW r \in closes, KernelReleases(r) PROVE TypeOK'
  BY <1>13, <1>15 DEF TypeOK, KernelReleases
<1>16. ASSUME NEW r \in closes, KernelCancels(r) PROVE TypeOK'
  BY <1>16 DEF TypeOK, KernelCancels
<1>17. \A f \in Files : fd[f].closer # "none" => fd[f].app > 0
  BY FdFacts DEF Alone
<1>18. ASSUME NEW f \in Files, DropHandle(f) \/ FailClose(f) \/ DropClose(f) PROVE TypeOK'
  <2>1. fd[f].app > 0 /\ LoseHandle(f) /\ UNCHANGED <<table, op, harm>>
    BY <1>17, <1>18 DEF DropHandle, FailClose, DropClose, Free
  <2>2. \E before \in SUBSET Request : PushCloses(before, DropInner(f))
    BY <1>10, <1>18 DEF DropHandle, FailClose, TypeOK
  <2> QED BY <1>8, <2>1, <2>2
<1>19. ASSUME NEW f \in Files, FinishClose(f) PROVE TypeOK'
  BY <1>9, <1>17, <1>19 DEF FinishClose
<1>20. ASSUME NEW f \in Files, Application(f) \/ Closing(f) PROVE TypeOK'
  BY <1>2, <1>7, <1>18, <1>19, <1>20 DEF Application, Closing
<1>21. closes \subseteq Request
  BY DEF TypeOK
<1> QED BY <1>1, <1>3, <1>4, <1>5, <1>6, <1>11, <1>12, <1>14, <1>15, <1>16, <1>18, <1>20, <1>21
        DEF Next

-----------------------------------------------------------------------------
(* Steps that leave the table alone: files lose their last owner (Gone),   *)
(* the results of files are freed (Lost), or taken by the application.     *)

LEMMA AcceptedIsDead ==
  ASSUME TypeOK, Shaped, MadeIsOpen, NEW f \in Files, Accepted(f)
  PROVE  ~Alive(f) /\ \E n \in Numbers : table[n] = f
<1>0. PICK o \in Ops : \E i \in DOMAIN op[o].results : op[o].results[i].file = f
  BY DEF Accepted
<1>1. PICK i \in DOMAIN op[o].results : op[o].results[i].file = f
  BY <1>0
<1>2. op[o].results # <<>>
  BY <1>1, OpFacts
<1>3. op[o].kind \in Makes
  BY <1>1, <1>2, DescriptorsAssumption DEF Shaped
<1> QED BY <1>1, <1>3, OpFacts DEF MadeIsOpen

Passes(Gone, Lost, Taken) ==
  /\ \A f \in Gone : Alive(f)
  /\ \A f \in Lost \cup Taken : Accepted(f)
  /\ Lost \cap Taken = {}
  /\ \A f \in Files : Alive(f)' <=> (Alive(f) /\ f \notin Gone) \/ f \in Taken
  /\ \A f \in Files : Accepted(f)' <=> Accepted(f) /\ f \notin Lost \cup Taken
  /\ closes \subseteq closes' /\ leaked \subseteq leaked' /\ closes' \subseteq Request
  /\ \A r \in closes' \ closes :
       \/ r.file = None /\ r.cause = "connect"
       \/ /\ r.file \in Gone \cup Lost /\ r.cause \notin {"connect", "explicit"}
          /\ \A n \in Numbers : table[n] = r.file => n = r.num
          /\ r.cause \in {"drop", "cleanup"} =>
               /\ table[r.num] = r.file
               /\ \A q \in closes' \ closes : q.file = r.file => q = r
  /\ \A f \in Gone \cup Lost :
       \/ f \in leaked' \/ \E r \in closes' : r.file = f /\ r.cause # "cancelled"
       \/ \A n \in Numbers : table[n] # f

LEMMA Passing ==
  ASSUME TypeOK, Shaped, Placed, harm = "none", table' = table,
         NEW Gone \in SUBSET Files, NEW Lost \in SUBSET Files, NEW Taken \in SUBSET Files,
         Passes(Gone, Lost, Taken)
  PROVE  AskedIsOver' /\ (harm' = "none" => NoneLeaked')
<1> USE DEF Placed, Passes
<1>1. \A r \in closes : r.file \in Files \cup {None}
  BY DEF TypeOK, Request
<1>2. \A f \in Files : Accepted(f) => ~Alive(f)
  BY AcceptedIsDead
<1>3. \A r \in closes : r.file # None =>
        r.file \in Files /\ r.file \notin Gone \cup Lost \cup Taken
  BY <1>1 DEF AskedIsOver
<1>4. ASSUME NEW r \in closes' PROVE
        IF r.file = None THEN r.cause = "connect"
        ELSE /\ ~Alive(r.file)' /\ ~Accepted(r.file)'
             /\ r.cause \notin {"connect", "explicit"}
             /\ \A n \in Numbers : table'[n] = r.file => n = r.num
             /\ r.cause \in {"drop", "cleanup"} =>
                  table'[r.num] = r.file /\ \A q \in closes' : q.file = r.file => q = r
  <2>1. CASE r \in closes
    <3>1. CASE r.file = None
      BY <2>1, <3>1 DEF AskedIsOver
    <3>2. CASE r.file # None
      <4>1. /\ r.file \in Files /\ r.file \notin Gone \cup Lost \cup Taken
            /\ ~Alive(r.file) /\ ~Accepted(r.file) /\ r.cause \notin {"connect", "explicit"}
            /\ \A n \in Numbers : table[n] = r.file => n = r.num
            /\ r.cause \in {"drop", "cleanup"} =>
                 table[r.num] = r.file /\ \A q \in closes : q.file = r.file => q = r
        BY <1>3, <2>1, <3>2 DEF AskedIsOver
      <4>2. \A q \in closes' \ closes : q.file # r.file
        BY <3>2, <4>1
      <4> QED BY <3>2, <4>1, <4>2
    <3> QED BY <3>1, <3>2
  <2>2. CASE r \notin closes
    <3>1. CASE r.file = None
      BY <2>2, <3>1, DescriptorsAssumption
    <3>2. CASE r.file # None
      <4>1. r.file \in Gone \cup Lost
        BY <2>2, <3>2
      <4>2. ~Alive(r.file)' /\ ~Accepted(r.file)'
        BY <1>2, <4>1
      <4>3. \A q \in closes : q.file # r.file
        BY <1>3, <3>2, <4>1
      <4> QED BY <2>2, <3>2, <4>2, <4>3
    <3> QED BY <3>1, <3>2
  <2> QED BY <2>1, <2>2
<1>5. AskedIsOver'
  BY <1>4 DEF AskedIsOver
<1>6. ASSUME harm' = "none" PROVE NoneLeaked'
  <2> SUFFICES ASSUME NEW n \in Numbers, NEW f \in Files, table[n] = f
               PROVE  \/ Alive(f)' \/ Accepted(f)' \/ f \in leaked'
                      \/ \E r \in closes' : r.file = f /\ r.cause # "cancelled"
    BY DEF NoneLeaked
  <2>1. \/ Alive(f) \/ Accepted(f) \/ f \in leaked
        \/ \E r \in closes : r.file = f /\ r.cause # "cancelled"
    BY DEF NoneLeaked
  <2> QED BY <2>1
<1> QED BY <1>5, <1>6

LEMMA PassingNone ==
  ASSUME TypeOK, Shaped, Placed, harm = "none", table' = table, closes' = closes, leaked' = leaked,
         closes' \subseteq Request,
         \A f \in Files : Alive(f)' <=> Alive(f), \A f \in Files : Accepted(f)' <=> Accepted(f)
  PROVE  AskedIsOver' /\ (harm' = "none" => NoneLeaked')
<1>1. PICK none \in SUBSET Files : none = {}
  OBVIOUS
<1>2. Passes(none, none, none)
  BY <1>1 DEF Passes
<1> QED BY <1>2, Passing

(* The results that stay are results that were, under their indexes.       *)
LEMMA MadeKept ==
  ASSUME MadeIsOpen, table' = table,
         \A p \in Ops : \A i \in DOMAIN op'[p].results :
           op'[p].kind \in Makes \/ op'[p].results[i].file \in Files =>
             /\ i \in DOMAIN op[p].results /\ op'[p].results[i] = op[p].results[i]
             /\ op[p].kind \in Makes,
         \A f \in Files : Alive(f)' => Alive(f) \/ ~Accepted(f)'
  PROVE  MadeIsOpen'
<1>1. ASSUME NEW o \in Ops, op'[o].kind \in Makes, NEW i \in DOMAIN op'[o].results
      PROVE  /\ op'[o].results[i].file \in Files
             /\ table'[op'[o].results[i].num] = op'[o].results[i].file
             /\ \A f \in Files : f = op'[o].results[i].file => ~Alive(f)'
             /\ \A p \in Ops : \A j \in DOMAIN op'[p].results :
                  op'[p].results[j].file = op'[o].results[i].file => p = o /\ j = i
  <2> DEFINE r == op'[o].results[i]
  <2>1. i \in DOMAIN op[o].results /\ r = op[o].results[i] /\ op[o].kind \in Makes
    BY <1>1
  <2>2. r.file \in Files /\ table[r.num] = r.file /\ ~Alive(r.file)
    BY <2>1 DEF MadeIsOpen
  <2>3. ASSUME NEW f \in Files, f = r.file PROVE ~Alive(f)'
    <3>1. Accepted(f)'
      BY <2>3 DEF Accepted
    <3> QED BY <2>2, <2>3, <3>1
  <2>4. ASSUME NEW p \in Ops, NEW j \in DOMAIN op'[p].results, op'[p].results[j].file = r.file
        PROVE  p = o /\ j = i
    <3>1. j \in DOMAIN op[p].results /\ op[p].results[j].file = r.file
      BY <2>2, <2>4
    <3> QED BY <2>1, <3>1 DEF MadeIsOpen
  <2> QED BY <2>2, <2>3, <2>4
<1> QED BY <1>1 DEF MadeIsOpen

LEMMA MadeSame ==
  ASSUME TypeOK, Shaped, MadeIsOpen, table' = table, op' = op,
         \A f \in Files : Alive(f)' => Alive(f)
  PROVE  MadeIsOpen'
<1>1. ASSUME NEW p \in Ops, NEW i \in DOMAIN op[p].results, op[p].results[i].file \in Files
      PROVE  op[p].kind \in Makes
  <2>1. op[p].results # <<>>
    BY <1>1, OpFacts
  <2> QED BY <1>1, <2>1, DescriptorsAssumption DEF Shaped
<1> QED BY <1>1, MadeKept

(* A step of one operation that keeps its descriptor and its results, but  *)
(* for a success without a descriptor.                                     *)
LEMMA OperationSteps ==
  ASSUME TypeOK, TypeOK', Shaped, Placed, harm = "none",
         table' = table, fd' = fd, closes' = closes, leaked' = leaked,
         \A f \in Files : Users(f) \subseteq Users(f)' /\ (fd[f].app = 0 \/ fd[f].closer # "none" => Users(f)' = Users(f)),
         \A p \in Ops :
           \/ op'[p].results = op[p].results /\ (op[p].results = <<>> \/ op'[p].kind = op[p].kind)
           \/ op'[p].kind \notin Makes /\ op[p].results = <<>>
              /\ \A i \in DOMAIN op'[p].results : op'[p].results[i].file = None
  PROVE  Numbered' /\ Alone' /\ AliveIsOpen' /\ AskedIsOver' /\ MadeIsOpen'
         /\ (harm' = "none" => NoneLeaked')
<1> USE DEF Placed
<1>1. \A f \in Files : Alive(f)' <=> Alive(f)
  BY FdFacts DEF Alive
<1>2. \A p \in Ops : op[p].results = <<>> => DOMAIN op[p].results = {}
  BY OpFacts
<1>3. \A f \in Files : Accepted(f)' <=> Accepted(f)
  BY <1>2, DescriptorsAssumption DEF Accepted
<1>4. MadeIsOpen'
  <2>1. \A p \in Ops : \A i \in DOMAIN op'[p].results :
          op'[p].kind \in Makes \/ op'[p].results[i].file \in Files =>
            /\ i \in DOMAIN op[p].results /\ op'[p].results[i] = op[p].results[i]
            /\ op[p].kind \in Makes
    <3> TAKE p \in Ops
    <3> TAKE i \in DOMAIN op'[p].results
    <3> HAVE op'[p].kind \in Makes \/ op'[p].results[i].file \in Files
    <3>1. op'[p].results = op[p].results /\ op'[p].kind = op[p].kind
      BY <1>2, DescriptorsAssumption
    <3>2. op[p].results # <<>>
      BY <1>2, <3>1
    <3>3. op[p].kind \in Makes
      BY <3>1, <3>2, DescriptorsAssumption DEF Shaped
    <3> QED BY <3>1, <3>3
  <2> QED BY <1>1, <2>1, MadeKept
<1>5. Numbered'
  BY DEF Numbered
<1>6. Alone'
  BY FdFacts DEF Alone, Closer
<1>7. AliveIsOpen'
  BY <1>1 DEF AliveIsOpen
<1>8. AskedIsOver' /\ (harm' = "none" => NoneLeaked')
  <2>1. closes' \subseteq Request
    BY DEF TypeOK
  <2> QED BY <1>1, <1>3, <2>1, PassingNone
<1> QED BY <1>4, <1>5, <1>6, <1>7, <1>8

LEMMA OperationPlaces ==
  ASSUME TypeOK, TypeOK', Shaped, Placed, harm = "none", NEW o \in Ops,
         \/ Open(o) \/ Push(o) \/ DropSent(o) \/ KernelEnds(o)
         \/ \E k \in Uses, f \in Files : Start(o, k, f)
  PROVE  Placed'
<1>1. /\ table' = table /\ fd' = fd /\ closes' = closes /\ leaked' = leaked /\ harm' = harm
      /\ \A p \in Ops \ {o} : op'[p] = op[p]
  BY DEF TypeOK, Open, Push, DropSent, KernelEnds, Start
<1> DEFINE
     Keeps == \A f \in Files :
       /\ Users(f) \subseteq Users(f)'
       /\ fd[f].app = 0 \/ fd[f].closer # "none" => Users(f)' = Users(f)
     Results ==
       \/ op'[o].results = op[o].results /\ (op[o].results = <<>> \/ op'[o].kind = op[o].kind)
       \/ op'[o].kind \notin Makes /\ op[o].results = <<>>
          /\ \A i \in DOMAIN op'[o].results : op'[o].results[i].file = None
<1>2. ASSUME Open(o) \/ \E k \in Uses, f \in Files : Start(o, k, f)
      PROVE  Keeps /\ Results
  <2>1. PICK k \in Kind, f \in Files \cup {None} :
          /\ op'[o] = NewOp(k, f) /\ op[o].stage = "none"
          /\ f # None => Free(f)
    <3>1. CASE Open(o)
      BY <3>1, Kinds DEF Open, TypeOK
    <3>2. ASSUME NEW k \in Uses, NEW f \in Files, Start(o, k, f)
          PROVE  k \in Kind /\ op'[o] = NewOp(k, f) /\ op[o].stage = "none" /\ Free(f)
      BY <3>2, Kinds DEF Start, TypeOK
    <3> QED BY <1>2, <3>1, <3>2
  <2>2. op[o].uses = None /\ op[o].results = <<>>
    BY <2>1 DEF Shaped
  <2>3. op'[o].uses = f /\ op'[o].results = <<>>
    BY <2>1, NewOpTyped
  <2>4. Keeps
    BY <1>1, <2>1, <2>2, <2>3, DescriptorsAssumption DEF Users, Free
  <2>5. Results
    BY <2>2, <2>3
  <2> QED BY <2>4, <2>5
<1>3. ASSUME Push(o) \/ DropSent(o) \/ KernelEnds(o) PROVE Keeps /\ Results
  <2>1. op'[o].uses = op[o].uses /\ op'[o].kind = op[o].kind
    BY <1>3 DEF TypeOK, Operation, Push, DropSent, KernelEnds
  <2>2. Keeps
    BY <1>1, <2>1 DEF Users
  <2>3. CASE Push(o) \/ DropSent(o)
    <3>1. op'[o].results = op[o].results
      BY <2>3 DEF TypeOK, Operation, Push, DropSent
    <3> QED BY <2>1, <2>2, <3>1
  <2>4. CASE KernelEnds(o)
    <3>1. CASE op' = [op EXCEPT ![o].stage = "done"]
      <4>1. op'[o].results = op[o].results
        BY <3>1 DEF TypeOK, Operation
      <4> QED BY <2>1, <2>2, <4>1
    <3>2. CASE /\ op[o].kind \in Connects /\ op[o].stage = "sent"
               /\ op' = [op EXCEPT ![o].stage = "done", ![o].results = <<[num |-> 0, file |-> None]>>]
      <4>1. op'[o].results = <<[num |-> 0, file |-> None]>>
        BY <3>2 DEF TypeOK, Operation
      <4>2. op[o].results = <<>> /\ op[o].kind \notin Makes
        BY <3>2, Kinds DEF Shaped
      <4>3. \A i \in DOMAIN op'[o].results : op'[o].results[i].file = None
        BY <4>1
      <4> QED BY <2>1, <2>2, <4>2, <4>3
    <3> QED BY <2>4, <3>1, <3>2 DEF KernelEnds
  <2> QED BY <1>3, <2>3, <2>4
<1>4. Keeps /\ Results
  BY <1>2, <1>3
<1>5. \A p \in Ops :
        \/ op'[p].results = op[p].results /\ (op[p].results = <<>> \/ op'[p].kind = op[p].kind)
        \/ op'[p].kind \notin Makes /\ op[p].results = <<>>
           /\ \A i \in DOMAIN op'[p].results : op'[p].results[i].file = None
  BY <1>1, <1>4
<1>6. Keeps
  BY <1>4
<1> HIDE DEF Results
<1> QED BY <1>1, <1>5, <1>6, OperationSteps DEF Placed

(* A handle is split, or its close goes on. *)
LEMMA ClosingPlaces ==
  ASSUME TypeOK, TypeOK', Shaped, Placed, harm = "none", NEW f \in Files,
         Split(f) \/ BeginClose(f) \/ PollClose(f) \/ PushClose(f)
  PROVE  Placed'
<1> USE DEF Placed
<1>1. /\ op' = op /\ table' = table /\ closes' = closes /\ leaked' = leaked /\ harm' = harm
      /\ \A x \in Files \ {f} : fd'[x] = fd[x]
  BY DEF Split, BeginClose, PollClose, PushClose, TypeOK
<1>2. /\ fd'[f].num = fd[f].num /\ fd[f].app > 0 /\ fd'[f].app > 0
      /\ fd'[f].closer # "none" => fd[f].app = 1 /\ fd'[f].app = 1
      /\ fd'[f].closer \in {"none", "polled", "waiting", "pushing", "sent"}
      /\ fd[f].closer \notin {"done", "failed"}
      /\ fd'[f].closer \in {"pushing", "sent"} => Users(f) = {}
      /\ fd'[f].tried <=> fd'[f].closer = "sent"
  <2>1. fd[f] \in Fd /\ fd[f].app \in 0..2
    BY FdFacts
  <2>2. CASE Split(f)
    BY <2>1, <2>2 DEF Split, Free, TypeOK, Fd, Alone
  <2>3. CASE BeginClose(f)
    BY <2>1, <2>3 DEF BeginClose, Free, TypeOK, Fd, Alone
  <2>4. CASE PollClose(f)
    <3>1. fd[f].app = 1 /\ fd[f].closer = "polled" /\ ~fd[f].tried
      BY <2>4 DEF PollClose, Alone
    <3>2. Strong(f) = 1 => Users(f) = {}
      BY <3>1, Owners
    <3>3. fd' = [fd EXCEPT ![f].closer = IF Strong(f) = 1 THEN "pushing" ELSE "waiting"]
      BY <2>4 DEF PollClose
    <3> QED BY <2>1, <3>1, <3>2, <3>3 DEF TypeOK, Fd
  <2>5. CASE PushClose(f)
    BY <2>1, <2>5 DEF PushClose, TypeOK, Fd, Alone
  <2> QED BY <2>2, <2>3, <2>4, <2>5
<1>3. \A x \in Files : Users(x)' = Users(x)
  BY <1>1 DEF Users
<1>4. \A x \in Files : Accepted(x)' <=> Accepted(x)
  BY <1>1 DEF Accepted
<1>5. \A x \in Files : Alive(x)' <=> Alive(x)
  BY <1>1, <1>2, <1>3 DEF Alive
<1>6. Numbered'
  BY <1>1 DEF Numbered
<1>7. Alone'
  BY <1>1, <1>2, <1>3 DEF Alone
<1>8. AliveIsOpen'
  BY <1>1, <1>2, <1>5 DEF AliveIsOpen, Alive
<1>9. MadeIsOpen'
  BY <1>1, <1>5, MadeSame
<1>10. AskedIsOver' /\ (harm' = "none" => NoneLeaked')
  <2>1. closes' \subseteq Request
    BY DEF TypeOK
  <2> QED BY <1>1, <1>4, <1>5, <2>1, PassingNone
<1> QED BY <1>1, <1>6, <1>7, <1>8, <1>9, <1>10

(* A handle is lost, by the close that had it or by its drop.              *)
LEMMA HandlePlaces ==
  ASSUME TypeOK, TypeOK', Shaped, Placed, harm = "none", NEW f \in Files,
         DropHandle(f) \/ FinishClose(f) \/ FailClose(f) \/ DropClose(f)
  PROVE  Placed'
<1> USE DEF Placed
<1> DEFINE cancelled == [num |-> fd[f].num, file |-> f, cause |-> "cancelled"]
           dropped == [num |-> fd[f].num, file |-> f, cause |-> IF fd[f].tried THEN "again" ELSE "drop"]
<1>1. /\ op' = op /\ table' = table /\ harm' = harm /\ LoseHandle(f) /\ fd[f].app > 0
      /\ leaked \subseteq leaked' /\ closes \subseteq closes'
      /\ FinishClose(f) => closes' = closes /\ fd[f].closer = "done"
      /\ closes' \subseteq closes \cup {cancelled, dropped}
      /\ cancelled \in closes' => cancelled \in closes \/ fd[f].closer = "sent"
      /\ Strong(f) # 1 => fd[f].closer = "sent" \/ closes' = closes
      /\ ~FinishClose(f) /\ Strong(f) = 1 => dropped \in closes' \/ f \in leaked'
  <2>1. f # None /\ fd[f].app \in 0..2
    BY FdFacts, DescriptorsAssumption
  <2>2. fd[f].app > 0 /\ LoseHandle(f) /\ op' = op /\ table' = table /\ harm' = harm
    BY <2>1 DEF DropHandle, FinishClose, FailClose, DropClose, Free, Alone
  <2>3. CASE FinishClose(f)
    BY <2>2, <2>3 DEF FinishClose
  <2>4. DropInner(f) = IF Strong(f) = 1 THEN {dropped} ELSE {}
    BY <2>1 DEF DropInner
  <2>5. CASE DropHandle(f) \/ FailClose(f)
    <3>1. PushCloses(closes, DropInner(f)) /\ ~FinishClose(f)
      BY <2>5 DEF DropHandle, FailClose, Free, FinishClose
    <3>2. PICK lost \in SUBSET DropInner(f) :
            /\ closes' = closes \cup (DropInner(f) \ lost)
            /\ leaked' = leaked \cup ({q.file : q \in lost} \ {None})
      BY <3>1 DEF PushCloses
    <3>3. cancelled # dropped
      OBVIOUS
    <3> HIDE DEF cancelled
    <3> QED BY <2>1, <2>2, <2>4, <3>1, <3>2, <3>3
  <2>6. CASE DropClose(f) /\ ~FinishClose(f)
    <3> DEFINE before == IF fd[f].closer # "sent" THEN closes ELSE closes \cup {cancelled}
    <3>1. PushCloses(before, DropInner(f))
      BY <2>6 DEF DropClose
    <3>2. PICK lost \in SUBSET DropInner(f) :
            /\ closes' = before \cup (DropInner(f) \ lost)
            /\ leaked' = leaked \cup ({q.file : q \in lost} \ {None})
      BY <3>1 DEF PushCloses
    <3>3. cancelled # dropped
      OBVIOUS
    <3> HIDE DEF cancelled
    <3> QED BY <2>1, <2>2, <2>4, <2>6, <3>2, <3>3
  <2> QED BY <2>3, <2>5, <2>6
<1>2. /\ \A x \in Files \ {f} : fd'[x] = fd[x]
      /\ Strong(f) = 1 => fd'[f] = NoFd
      /\ Strong(f) # 1 => fd'[f] = [fd[f] EXCEPT !.app = @ - 1, !.closer = "none"]
  BY <1>1 DEF LoseHandle, TypeOK
<1>3. \A x \in Files : Users(x)' = Users(x) /\ (Accepted(x)' <=> Accepted(x))
  BY <1>1 DEF Users, Accepted
<1>4. Strong(f) = 1 <=> fd[f].app = 1 /\ Users(f) = {}
  <2>1. fd[f].app \in 1..2 /\ Cardinality(Users(f)) \in Nat
    BY <1>1, FdFacts, Owners
  <2>2. fd[f].app = 1 => (Strong(f) = 1 <=> Users(f) = {})
    BY Owners
  <2>3. fd[f].app = 2 => Strong(f) # 1
    BY <2>1 DEF Strong
  <2> QED BY <2>1, <2>2, <2>3
<1>5. fd[f].closer \in {"pushing", "sent", "done", "failed"} => Strong(f) = 1
  BY <1>4 DEF Alone
<1> DEFINE Gone == {x \in {f} : Strong(f) = 1}
<1>6. \A x \in Files : Alive(x)' <=> Alive(x) /\ x \notin Gone
  <2>1. CASE Strong(f) = 1
    <3>1. fd'[f].app = 0 /\ Users(f)' = {}
      BY <1>2, <1>3, <1>4, <2>1 DEF NoFd
    <3> QED BY <1>2, <1>3, <2>1, <3>1 DEF Alive
  <2>2. CASE Strong(f) # 1
    <3>0. fd[f] \in Fd /\ fd[f].app \in 0..2 /\ fd[f].app > 0
      BY <1>1, FdFacts
    <3>1. fd'[f].app = fd[f].app - 1 /\ fd[f].app \in 1..2
      <4>1. fd'[f] = [fd[f] EXCEPT !.app = fd[f].app - 1, !.closer = "none"]
        BY <1>2, <2>2
      <4>2. fd[f].app \in 1..2
        BY <3>0
      <4>3. fd'[f].app = fd[f].app - 1
        BY <3>0, <4>1 DEF Fd
      <4> QED BY <4>2, <4>3
    <3>2. fd'[f].app > 0 \/ Users(f) # {}
      BY <1>4, <2>2, <3>1
    <3> QED BY <1>1, <1>2, <1>3, <2>2, <3>2 DEF Alive
  <2> QED BY <2>1, <2>2
<1>7. Numbered'
  BY <1>1 DEF Numbered
<1>8. Alone'
  <2>1. CASE Strong(f) = 1
    BY <1>2, <1>3, <2>1 DEF Alone, NoFd
  <2>2. CASE Strong(f) # 1
    <3>1. fd'[f].closer = "none" /\ fd'[f].tried = fd[f].tried
      BY <1>2, <2>2, FdFacts DEF Fd
    <3>2. ~fd[f].tried
      BY <1>5, <2>2 DEF Alone
    <3> QED BY <1>2, <1>3, <3>1, <3>2 DEF Alone
  <2> QED BY <2>1, <2>2
<1>9. AliveIsOpen'
  <2>1. Strong(f) # 1 => fd'[f].num = fd[f].num /\ fd'[f].closer = "none"
    BY <1>2, FdFacts DEF Fd
  <2>2. Alive(f)
    BY <1>1 DEF Alive
  <2> QED BY <1>1, <1>2, <1>5, <1>6, <2>1, <2>2 DEF AliveIsOpen
<1>10. MadeIsOpen'
  BY <1>1, <1>6, MadeSame
<1>11. AskedIsOver' /\ (harm' = "none" => NoneLeaked')
  <2>1. closes' \subseteq Request /\ Alive(f) /\ ~Accepted(f)
    <3>1. Alive(f)
      BY <1>1 DEF Alive
    <3> QED BY <3>1, AcceptedIsDead DEF TypeOK
  <2>2. PICK gone \in SUBSET Files, none \in SUBSET Files : gone = Gone /\ none = {}
    OBVIOUS
  <2>3. \A n \in Numbers : table[n] = f => n = fd[f].num
    BY <2>1 DEF AliveIsOpen
  <2>4. \A q \in closes : q.file # f
    BY <2>1, DescriptorsAssumption DEF AskedIsOver
  <2>5. ASSUME NEW q \in closes' \ closes
        PROVE  /\ q.file \in gone \cup none /\ q.cause \notin {"connect", "explicit"}
               /\ \A n \in Numbers : table[n] = q.file => n = q.num
               /\ q.cause \in {"drop", "cleanup"} =>
                   /\ table[q.num] = q.file
                   /\ \A p \in closes' \ closes : p.file = q.file => p = q
    <3>1. q = cancelled \/ q = dropped
      BY <1>1
    <3>2. Strong(f) = 1
      BY <1>1, <1>5, <2>5
    <3>3. q.file = f /\ q.num = fd[f].num /\ q.cause \in {"cancelled", "again", "drop"}
      BY <3>1
    <3>4. ASSUME q.cause \in {"drop", "cleanup"}
          PROVE  /\ table[q.num] = q.file
                 /\ \A p \in closes' \ closes : p.file = q.file => p = q
      <4>1. q = dropped /\ ~fd[f].tried
        BY <3>1, <3>4
      <4>2. fd[f].closer \notin {"sent", "done", "failed"}
        BY <4>1 DEF Alone
      <4>3. table[fd[f].num] = f
        BY <2>1, <4>2 DEF AliveIsOpen
      <4>4. \A p \in closes' \ closes : p = dropped
        BY <1>1, <4>2
      <4> QED BY <3>3, <4>1, <4>3, <4>4
    <3> QED BY <2>2, <2>3, <3>2, <3>3, <3>4
  <2>6. \A x \in gone :
          \/ x \in leaked' \/ \E q \in closes' : q.file = x /\ q.cause # "cancelled"
          \/ \A n \in Numbers : table[n] # x
    <3>1. CASE FinishClose(f)
      BY <1>1, <2>1, <2>2, <3>1 DEF AliveIsOpen
    <3>2. CASE ~FinishClose(f)
      BY <1>1, <2>2, <3>2
    <3> QED BY <3>1, <3>2
  <2>7. \A x \in gone \cup none : x \in gone
    BY <2>2
  <2>8. Passes(gone, none, none)
    BY <1>1, <1>3, <1>6, <2>1, <2>2, <2>5, <2>6, <2>7 DEF Passes
  <2> QED BY <1>1, <2>8, Passing
<1> QED BY <1>1, <1>7, <1>8, <1>9, <1>10, <1>11

-----------------------------------------------------------------------------
(* The end of an operation: its clone of the descriptor is dropped, and    *)
(* its results are taken by the application, or are to be closed.          *)

LEMMA CloneDropped ==
  ASSUME TypeOK, NEW u \in Files \cup {None}
  PROVE  /\ \A x \in Files : x # u => DropClone(fd, u)[x] = fd[x]
         /\ \A x \in Files : x = u /\ Strong(u) = 1 => DropClone(fd, u)[x] = NoFd
         /\ \A x \in Files : x = u /\ Strong(u) # 1 =>
              /\ DropClone(fd, u)[x].num = fd[x].num /\ DropClone(fd, u)[x].app = fd[x].app
              /\ DropClone(fd, u)[x].tried = fd[x].tried
              /\ \/ DropClone(fd, u)[x].closer = fd[x].closer
                 \/ fd[x].closer = "waiting" /\ DropClone(fd, u)[x].closer = "polled"
<1>1. CASE u = None
  BY <1>1, DescriptorsAssumption DEF DropClone
<1>2. CASE u \in Files
  <2>1. u # None /\ fd \in [Files -> Fd] /\ fd[u] \in Fd
    BY <1>2, FdFacts, DescriptorsAssumption
  <2>2. CASE Strong(u) = 1
    BY <1>2, <2>1, <2>2 DEF DropClone
  <2>3. CASE Strong(u) # 1
    <3>1. DropClone(fd, u) = [fd EXCEPT ![u].closer = IF @ = "waiting" THEN "polled" ELSE @]
      BY <2>1, <2>3 DEF DropClone
    <3> QED BY <1>2, <2>1, <2>3, <3>1 DEF Fd
  <2> QED BY <2>2, <2>3
<1> QED BY <1>1, <1>2

LEMMA OperationFreed ==
  ASSUME TypeOK, Shaped, Placed, NEW o \in Ops, op' = [op EXCEPT ![o] = NoOp]
  PROVE  /\ \A x \in Files : Users(x)' = Users(x) \ {o}
         /\ \A x \in Files : Accepted(x)' <=>
              Accepted(x) /\ ~\E i \in DOMAIN op[o].results : op[o].results[i].file = x
         /\ \A p \in Ops : \A i \in DOMAIN op'[p].results : p # o /\ op'[p] = op[p]
<1>1. op'[o] = NoOp /\ \A p \in Ops \ {o} : op'[p] = op[p]
  BY DEF TypeOK
<1>2. NoOp.uses = None /\ DOMAIN NoOp.results = {}
  BY NoOpTyped
<1>3. \A p \in Ops : \A i \in DOMAIN op'[p].results : p # o /\ op'[p] = op[p]
  BY <1>1, <1>2
<1>4. \A x \in Files : Users(x)' = Users(x) \ {o}
  BY <1>1, <1>2, DescriptorsAssumption DEF Users
<1>5. ASSUME NEW x \in Files
      PROVE  Accepted(x)' <=>
               Accepted(x) /\ ~\E i \in DOMAIN op[o].results : op[o].results[i].file = x
  <2>1. ASSUME NEW i \in DOMAIN op[o].results, op[o].results[i].file = x,
               NEW p \in Ops, NEW j \in DOMAIN op[p].results, op[p].results[j].file = x
        PROVE  p = o
    <3>1. op[o].results # <<>>
      BY <2>1, OpFacts
    <3>2. op[o].kind \in Makes
      BY <1>5, <2>1, <3>1, DescriptorsAssumption DEF Shaped
    <3> QED BY <2>1, <3>2 DEF Placed, MadeIsOpen
  <2>2. ASSUME Accepted(x)'
        PROVE  Accepted(x) /\ ~\E i \in DOMAIN op[o].results : op[o].results[i].file = x
    <3>1. PICK p \in Ops : \E j \in DOMAIN op'[p].results : op'[p].results[j].file = x
      BY <2>2 DEF Accepted
    <3>2. PICK j \in DOMAIN op'[p].results : op'[p].results[j].file = x
      BY <3>1
    <3>3. p # o /\ j \in DOMAIN op[p].results /\ op[p].results[j].file = x
      BY <1>3, <3>2
    <3> QED BY <2>1, <3>3 DEF Accepted
  <2>3. ASSUME Accepted(x), ~\E i \in DOMAIN op[o].results : op[o].results[i].file = x
        PROVE  Accepted(x)'
    BY <1>1, <2>3 DEF Accepted
  <2> QED BY <2>2, <2>3
<1> QED BY <1>3, <1>4, <1>5

(* Taken are the files whose results the application takes, Asked are the  *)
(* requests to close the others.                                           *)
LEMMA OperationEnds ==
  ASSUME TypeOK, TypeOK', Shaped, Placed, harm = "none", harm' = harm, table' = table,
         NEW o \in Ops, op' = [op EXCEPT ![o] = NoOp],
         NEW Taken \in SUBSET Files, NEW Asked \in SUBSET Request,
         PushCloses(closes, Asked \cup DropInner(op[o].uses)),
         \A x \in Taken : \E i \in DOMAIN op[o].results :
           /\ op[o].results[i].file = x /\ fd'[x] = NewFd(op[o].results[i].num)
           /\ op[o].kind \in Makes,
         \A x \in Files \ Taken : fd'[x] = DropClone(fd, op[o].uses)[x],
         \A i \in DOMAIN op[o].results :
           op[o].kind \in Makes => \/ op[o].results[i].file \in Taken
                                   \/ \E r \in Asked : r.file = op[o].results[i].file,
         \A r \in Asked :
           \/ r.file = None /\ r.cause = "connect"
           \/ /\ op[o].kind \in Makes /\ r.file \notin Taken
              /\ \E i \in DOMAIN op[o].results :
                   r = [num |-> op[o].results[i].num, file |-> op[o].results[i].file,
                        cause |-> "cleanup"]
  PROVE  Placed'
<1> USE DEF Placed
<1> DEFINE u == op[o].uses
           rs == op[o].results
           dropped == [num |-> fd[u].num, file |-> u, cause |-> IF fd[u].tried THEN "again" ELSE "drop"]
           Ended(x) == x = u /\ Strong(u) = 1
           Result(x) == \E i \in DOMAIN rs : rs[i].file = x
<1>1. u \in Files \cup {None} /\ \A i \in DOMAIN rs : rs[i].num \in Numbers
  BY OpFacts
<1>2. \A x \in Files : Users(x)' = Users(x) \ {o} /\ (Accepted(x)' <=> Accepted(x) /\ ~Result(x))
  BY OperationFreed
<1>3. \A x \in Files : o \in Users(x) <=> x = u
  BY DEF Users
<1>4. \A x \in Files : Result(x) => Accepted(x) /\ ~Alive(x) /\ op[o].kind \in Makes
  <2> TAKE x \in Files
  <2> HAVE Result(x)
  <2>1. rs # <<>>
    BY OpFacts
  <2>2. Accepted(x) /\ op[o].kind \in Makes
    BY <2>1, DescriptorsAssumption DEF Accepted, Shaped
  <2> QED BY <2>2, AcceptedIsDead
<1>5. \A x \in Taken : Result(x) /\ x # u
  BY <1>3, <1>4 DEF Alive
<1>6. \A x \in Files \ Taken :
        /\ x # u => fd'[x] = fd[x]
        /\ Ended(x) => fd'[x] = NoFd
        /\ x = u /\ Strong(u) # 1 =>
             /\ fd'[x].num = fd[x].num /\ fd'[x].app = fd[x].app /\ fd'[x].tried = fd[x].tried
             /\ \/ fd'[x].closer = fd[x].closer
                \/ fd[x].closer = "waiting" /\ fd'[x].closer = "polled"
  BY <1>1, CloneDropped
<1>7. \A x \in Taken : \E i \in DOMAIN rs :
        /\ rs[i].file = x /\ fd'[x].num = rs[i].num /\ fd'[x].app = 1
        /\ fd'[x].closer = "none" /\ ~fd'[x].tried
  BY <1>1, NewFdTyped
<1> HIDE DEF u, rs
<1>8. \A x \in Files : Ended(x) => fd[x].app = 0 /\ Users(x) = {o}
  BY <1>3, Owners
<1>9. \A x \in Files : Alive(x)' <=> (Alive(x) /\ ~Ended(x)) \/ x \in Taken
  <2> TAKE x \in Files
  <2>1. CASE x \in Taken
    BY <1>7, <2>1 DEF Alive
  <2>2. CASE x \notin Taken /\ x # u
    <3>1. fd'[x] = fd[x] /\ Users(x)' = Users(x) \ {o} /\ o \notin Users(x)
      BY <1>2, <1>3, <1>6, <2>2
    <3> QED BY <2>2, <3>1 DEF Alive
  <2>3. CASE x \notin Taken /\ Ended(x)
    <3>1. fd'[x].app = 0 /\ Users(x)' = {}
      BY <1>2, <1>6, <1>8, <2>3 DEF NoFd
    <3> QED BY <2>3, <3>1 DEF Alive
  <2>4. CASE x \notin Taken /\ x = u /\ ~Ended(x)
    <3>1. o \in Users(x) /\ fd'[x].app = fd[x].app /\ Users(x)' = Users(x) \ {o}
      BY <1>2, <1>3, <1>6, <2>4
    <3>2. ~(fd[x].app = 0 /\ Users(x) = {o})
      BY <2>4, <3>1, Owners
    <3>3. fd[x].app \in Nat
      BY FdFacts
    <3> QED BY <2>4, <3>1, <3>2, <3>3 DEF Alive
  <2> QED BY <2>1, <2>2, <2>3, <2>4
<1>10. Numbered'
  BY DEF Numbered
<1>11. Alone'
  <2> SUFFICES ASSUME NEW x \in Files
               PROVE  /\ fd'[x].closer # "none" => fd'[x].app = 1
                      /\ fd'[x].closer \in {"pushing", "sent", "done", "failed"} => Users(x)' = {}
                      /\ fd'[x].tried <=> fd'[x].closer \in {"sent", "done", "failed"}
    BY DEF Alone
  <2>1. CASE x \in Taken
    BY <1>7, <2>1
  <2>2. CASE x \notin Taken /\ Ended(x)
    BY <1>6, <2>2 DEF NoFd
  <2>3. CASE x \notin Taken /\ ~Ended(x)
    <3>1. /\ fd'[x].app = fd[x].app /\ fd'[x].tried = fd[x].tried /\ Users(x)' \subseteq Users(x)
          /\ \/ fd'[x].closer = fd[x].closer
             \/ fd[x].closer = "waiting" /\ fd'[x].closer = "polled"
      BY <1>2, <1>6, <2>3
    <3> QED BY <3>1 DEF Alone
  <2> QED BY <2>1, <2>2, <2>3
<1>12. AliveIsOpen'
  <2> SUFFICES ASSUME NEW x \in Files, Alive(x)'
               PROVE  /\ fd'[x].closer \notin {"done", "failed"} => table[fd'[x].num] = x
                      /\ \A n \in Numbers : table[n] = x => n = fd'[x].num
                      /\ fd'[x].closer = "done" => \A n \in Numbers : table[n] # x
    BY DEF AliveIsOpen
  <2>1. CASE x \in Taken
    <3>1. PICK i \in DOMAIN rs : rs[i].file = x /\ fd'[x].num = rs[i].num /\ fd'[x].closer = "none"
      BY <1>7, <2>1
    <3>2. table[rs[i].num] = x /\ rs[i].num \in Numbers
      BY <1>1, <1>4, <1>5, <2>1, <3>1 DEF MadeIsOpen, rs
    <3> QED BY <3>1, <3>2 DEF Numbered
  <2>2. CASE x \notin Taken
    <3>1. Alive(x) /\ ~Ended(x)
      BY <1>9, <2>2
    <3>2. /\ fd'[x].num = fd[x].num
          /\ \/ fd'[x].closer = fd[x].closer
             \/ fd[x].closer = "waiting" /\ fd'[x].closer = "polled"
      BY <1>6, <2>2, <3>1
    <3> QED BY <3>1, <3>2 DEF AliveIsOpen
  <2> QED BY <2>1, <2>2
<1>13. MadeIsOpen'
  <2>1. \A p \in Ops : \A i \in DOMAIN op'[p].results :
          op'[p].kind \in Makes \/ op'[p].results[i].file \in Files =>
            /\ i \in DOMAIN op[p].results /\ op'[p].results[i] = op[p].results[i]
            /\ op[p].kind \in Makes
    <3> TAKE p \in Ops
    <3> TAKE i \in DOMAIN op'[p].results
    <3> HAVE op'[p].kind \in Makes \/ op'[p].results[i].file \in Files
    <3>1. op'[p] = op[p]
      BY OperationFreed
    <3>2. op[p].results # <<>>
      BY <3>1, OpFacts
    <3>3. op[p].kind \in Makes
      BY <3>1, <3>2, DescriptorsAssumption DEF Shaped
    <3> QED BY <3>1, <3>3
  <2>2. \A x \in Files : Alive(x)' => Alive(x) \/ ~Accepted(x)'
    BY <1>2, <1>5, <1>9
  <2> QED BY <2>1, <2>2, MadeKept
<1>14. AskedIsOver' /\ (harm' = "none" => NoneLeaked')
  <2>1. PICK gone \in SUBSET Files, lost \in SUBSET Files :
          gone = {x \in Files : Ended(x)} /\ lost = {x \in Files : Result(x) /\ x \notin Taken}
    OBVIOUS
  <2>2. DropInner(u) = IF u # None /\ Strong(u) = 1 THEN {dropped} ELSE {}
    BY DEF DropInner
  <2>3. PICK failed \in SUBSET (Asked \cup DropInner(u)) :
          /\ closes' = closes \cup ((Asked \cup DropInner(u)) \ failed)
          /\ leaked' = leaked \cup ({r.file : r \in failed} \ {None})
    BY DEF PushCloses, u
  <2>4. closes \subseteq closes' /\ leaked \subseteq leaked' /\ closes' \subseteq Request
    BY <2>3 DEF TypeOK
  <2>5. /\ \A x \in gone : Alive(x)
        /\ \A x \in lost \cup Taken : Accepted(x) /\ ~Alive(x)
        /\ lost \cap Taken = {}
        /\ \A x \in Files : Alive(x)' <=> (Alive(x) /\ x \notin gone) \/ x \in Taken
        /\ \A x \in Files : Accepted(x)' <=> Accepted(x) /\ x \notin lost \cup Taken
    <3>1. \A x \in gone : Alive(x)
      BY <1>8, <2>1 DEF Alive
    <3> QED BY <1>2, <1>4, <1>5, <1>9, <2>1, <3>1
  <2>6. ASSUME NEW q \in Asked \cup DropInner(u), NEW p \in Asked \cup DropInner(u),
               q.file # None, p.file = q.file
        PROVE  /\ q.file \in gone \cup lost /\ q.cause \notin {"connect", "explicit"}
               /\ \A n \in Numbers : table[n] = q.file => n = q.num
               /\ q.cause \in {"drop", "cleanup"} => table[q.num] = q.file /\ p = q
    <3>1. ASSUME NEW r \in Asked, r.file # None
          PROVE  /\ r.file \in lost
                 /\ \E i \in DOMAIN rs : r = [num |-> rs[i].num, file |-> rs[i].file, cause |-> "cleanup"]
      <4>1. PICK i \in DOMAIN rs : r = [num |-> rs[i].num, file |-> rs[i].file, cause |-> "cleanup"]
        BY <3>1 DEF rs
      <4>2. rs[i].file \in Files /\ r.file \notin Taken
        BY <3>1, <4>1 DEF MadeIsOpen, rs
      <4> QED BY <2>1, <4>1, <4>2
    <3>2. ASSUME NEW r \in DropInner(u) PROVE r = dropped /\ u \in gone
      BY <1>1, <2>1, <2>2, <3>2
    <3>3. CASE q \in Asked
      <4>1. PICK i \in DOMAIN rs : q = [num |-> rs[i].num, file |-> rs[i].file, cause |-> "cleanup"]
        BY <2>6, <3>1, <3>3
      <4>2. q.file \in lost /\ op[o].kind \in Makes
        BY <1>4, <2>1, <2>6, <3>1, <3>3
      <4>3. table[rs[i].num] = rs[i].file /\ rs[i].num \in Numbers
        BY <1>1, <4>2 DEF MadeIsOpen, rs
      <4>4. \A n \in Numbers : table[n] = rs[i].file => n = rs[i].num
        BY <2>1, <4>1, <4>2, <4>3 DEF Numbered
      <4>5. p \notin DropInner(u)
        BY <2>5, <2>6, <3>2, <4>2
      <4>6. PICK j \in DOMAIN rs : p = [num |-> rs[j].num, file |-> rs[j].file, cause |-> "cleanup"]
        BY <2>6, <3>1, <4>5
      <4>7. j = i
        BY <2>6, <4>1, <4>2, <4>6 DEF MadeIsOpen, rs
      <4> QED BY <4>1, <4>2, <4>3, <4>4, <4>6, <4>7
    <3>4. CASE q \in DropInner(u)
      <4>1. q = dropped /\ u \in gone /\ q.file = u
        BY <3>2, <3>4
      <4>2. Alive(u) /\ u \in Files
        BY <2>5, <4>1
      <4>3. p \notin Asked
        BY <2>5, <2>6, <3>1, <4>1, <4>2
      <4>4. p = dropped
        BY <2>6, <3>2, <4>3
      <4>5. q.cause = "drop" => fd[u].closer \notin {"sent", "done", "failed"}
        BY <4>1, <4>2 DEF Alone
      <4> QED BY <4>1, <4>2, <4>4, <4>5 DEF AliveIsOpen
    <3> QED BY <2>6, <3>3, <3>4
  <2>7. \A q \in closes' \ closes : q \in Asked \cup DropInner(u) /\ (q.file = None => q.cause = "connect")
    <3>1. \A q \in DropInner(u) : q.file # None
      BY <2>2
    <3>2. \A q \in Asked : q.file = None => q.cause = "connect"
      BY DescriptorsAssumption DEF MadeIsOpen
    <3> QED BY <2>3, <3>1, <3>2
  <2>8. \A q \in closes' \ closes :
          \/ q.file = None /\ q.cause = "connect"
          \/ /\ q.file \in gone \cup lost /\ q.cause \notin {"connect", "explicit"}
             /\ \A n \in Numbers : table[n] = q.file => n = q.num
             /\ q.cause \in {"drop", "cleanup"} =>
                  /\ table[q.num] = q.file
                  /\ \A p \in closes' \ closes : p.file = q.file => p = q
    BY <2>6, <2>7
  <2>9. \A x \in gone \cup lost :
          \/ x \in leaked' \/ \E q \in closes' : q.file = x /\ q.cause # "cancelled"
          \/ \A n \in Numbers : table[n] # x
    <3> TAKE x \in gone \cup lost
    <3>1. x # None /\ x \in Files
      BY DescriptorsAssumption
    <3>2. PICK q \in Asked \cup DropInner(u) : q.file = x /\ q.cause # "cancelled"
      <4>1. CASE x \in gone
        <5>1. x = u /\ Strong(u) = 1
          BY <2>1, <4>1
        <5>2. dropped \in DropInner(u) /\ dropped.file = u /\ dropped.cause # "cancelled"
          BY <2>2, <3>1, <5>1
        <5> QED BY <5>1, <5>2
      <4>2. CASE x \in lost
        BY <1>4, <2>1, <3>1, <4>2 DEF rs
      <4> QED BY <4>1, <4>2
    <3> QED BY <2>3, <3>1, <3>2
  <2>10. Passes(gone, lost, Taken)
    BY <2>4, <2>5, <2>8, <2>9 DEF Passes
  <2> QED BY <2>10, Passing
<1> QED BY <1>10, <1>11, <1>12, <1>13, <1>14

LEMMA CompletePlaces ==
  ASSUME TypeOK, TypeOK', Shaped, Placed, harm = "none", NEW o \in Ops, Complete(o)
  PROVE  Placed'
<1> DEFINE rs == op[o].results
           u == op[o].uses
           made == op[o].kind \in Makes /\ rs # <<>>
<1>1. /\ harm' = harm /\ table' = table /\ op' = [op EXCEPT ![o] = NoOp]
      /\ PushCloses(closes, DropInner(u)) /\ (op[o].kind = "incoming" => rs = <<>>)
      /\ fd' = IF made THEN [DropClone(fd, u) EXCEPT ![rs[1].file] = NewFd(rs[1].num)]
               ELSE DropClone(fd, u)
  BY DEF Complete
<1>2. DropClone(fd, u) \in [Files -> Fd]
  BY OpFacts, DropCloneTyped
<1>3. DOMAIN rs = 1..Len(rs) /\ Len(rs) \in Nat /\ (rs # <<>> <=> Len(rs) >= 1) /\ Len(rs) <= 1
  <2>1. /\ DOMAIN rs = 1..Len(rs) /\ Len(rs) \in Nat /\ (rs # <<>> <=> Len(rs) >= 1)
        /\ (op[o].kind # "incoming" => Len(rs) <= 1)
    BY OpFacts DEF Shaped
  <2> QED BY <1>1, <2>1
<1>4. made => rs[1].file \in Files /\ 1 \in DOMAIN rs
  BY <1>3 DEF Placed, MadeIsOpen
<1>5. PICK taken \in SUBSET Files, asked \in SUBSET Request :
        taken = {x \in Files : made /\ x = rs[1].file} /\ asked = {}
  OBVIOUS
<1>6. PushCloses(closes, asked \cup DropInner(u))
  <2>1. asked \cup DropInner(u) = DropInner(u)
    BY <1>5
  <2> QED BY <1>1, <2>1
<1>7. \A x \in taken : \E i \in DOMAIN rs :
        rs[i].file = x /\ fd'[x] = NewFd(rs[i].num) /\ op[o].kind \in Makes
  BY <1>1, <1>2, <1>4, <1>5
<1>8. \A x \in Files \ taken : fd'[x] = DropClone(fd, u)[x]
  BY <1>1, <1>2, <1>5
<1>9. \A i \in DOMAIN rs : op[o].kind \in Makes => rs[i].file \in taken
  <2> TAKE i \in DOMAIN rs
  <2> HAVE op[o].kind \in Makes
  <2>1. i = 1 /\ rs # <<>>
    BY <1>3
  <2> QED BY <1>4, <1>5, <2>1
<1>10. asked = {}
  BY <1>5
<1> HIDE DEF made
<1> QED BY <1>1, <1>6, <1>7, <1>8, <1>9, <1>10, OperationEnds

LEMMA DestroyPlaces ==
  ASSUME TypeOK, TypeOK', Shaped, Placed, harm = "none", NEW o \in Ops, Destroy(o)
  PROVE  Placed'
<1> DEFINE rs == op[o].results
           u == op[o].uses
<1>1. /\ harm' = harm /\ table' = table /\ op' = [op EXCEPT ![o] = NoOp]
      /\ PushCloses(closes, Cleanup(o) \cup DropInner(u)) /\ fd' = DropClone(fd, u)
  BY DEF Destroy
<1>2. PICK taken \in SUBSET Files, asked \in SUBSET Request : taken = {} /\ asked = Cleanup(o)
  BY RequestsTyped
<1>3. \A i \in DOMAIN rs : op[o].kind \in Makes => \E r \in asked : r.file = rs[i].file
  <2> TAKE i \in DOMAIN rs
  <2> HAVE op[o].kind \in Makes
  <2>1. [num |-> rs[i].num, file |-> rs[i].file,
         cause |-> IF op[o].kind \in Connects THEN "connect" ELSE "cleanup"] \in asked
    BY <1>2 DEF Cleanup
  <2> QED BY <2>1
<1>4. \A r \in asked :
        \/ r.file = None /\ r.cause = "connect"
        \/ /\ op[o].kind \in Makes /\ r.file \notin taken
           /\ \E i \in DOMAIN rs : r = [num |-> rs[i].num, file |-> rs[i].file, cause |-> "cleanup"]
  <2> TAKE r \in asked
  <2>1. PICK i \in DOMAIN rs :
          /\ op[o].kind \in Makes \cup Connects
          /\ r = [num |-> rs[i].num, file |-> rs[i].file,
                  cause |-> IF op[o].kind \in Connects THEN "connect" ELSE "cleanup"]
    BY <1>2 DEF Cleanup
  <2>2. CASE op[o].kind \in Connects
    <3>1. rs[i].file = None
      BY <2>2 DEF Shaped
    <3> QED BY <2>1, <2>2, <3>1
  <2>3. CASE op[o].kind \notin Connects
    BY <1>2, <2>1, <2>3
  <2> QED BY <2>2, <2>3
<1>5. PushCloses(closes, asked \cup DropInner(u))
  BY <1>1, <1>2
<1>6. taken = {} /\ \A x \in Files \ taken : fd'[x] = DropClone(fd, u)[x]
  BY <1>1, <1>2
<1> QED BY <1>1, <1>3, <1>4, <1>5, <1>6, OperationEnds

(* The latest result of a multishot is taken. *)
LEMMA UpdatePlaces ==
  ASSUME TypeOK, TypeOK', Shaped, Placed, harm = "none", NEW o \in Ops, Update(o)
  PROVE  Placed'
<1> USE DEF Placed
<1> DEFINE rs == op[o].results
           n == Len(rs)
           made == rs[n].file
           kept == SubSeq(rs, 1, n - 1)
<1>1. /\ op[o].kind = "incoming" /\ rs # <<>> /\ op' = [op EXCEPT ![o].results = kept]
      /\ fd' = [fd EXCEPT ![made] = NewFd(rs[n].num)]
      /\ UNCHANGED <<table, closes, leaked, harm>>
  BY DEF Update
<1>2. /\ rs \in Seq(Made) /\ n \in Nat /\ n >= 1 /\ DOMAIN rs = 1..n /\ n \in DOMAIN rs
      /\ rs[n].num \in Numbers
  BY <1>1, OpFacts
<1>3. op[o].kind \in Makes
  BY <1>1, Kinds
<1>4. /\ made \in Files /\ table[rs[n].num] = made /\ ~Alive(made)
      /\ \A p \in Ops : \A j \in DOMAIN op[p].results :
           op[p].results[j].file = made => p = o /\ j = n
  BY <1>2, <1>3 DEF MadeIsOpen
<1>5. DOMAIN kept = 1..(n - 1) /\ \A i \in 1..(n - 1) : kept[i] = rs[i]
  BY <1>2, SubSeqProperties
<1>6. op'[o].results = kept /\ op'[o].kind = op[o].kind /\ op'[o].uses = op[o].uses
      /\ \A p \in Ops \ {o} : op'[p] = op[p]
  BY <1>1 DEF TypeOK, Operation
<1>7. /\ fd'[made].num = rs[n].num /\ fd'[made].app = 1 /\ fd'[made].closer = "none"
      /\ ~fd'[made].tried /\ \A x \in Files \ {made} : fd'[x] = fd[x]
  BY <1>1, <1>2, <1>4, NewFdTyped DEF TypeOK
<1> HIDE DEF rs, n, made, kept
<1>8. \A p \in Ops : \A i \in DOMAIN op'[p].results :
        /\ i \in DOMAIN op[p].results /\ op'[p].results[i] = op[p].results[i]
        /\ op'[p].kind = op[p].kind /\ (p = o => i # n)
  <2> TAKE p \in Ops
  <2>1. CASE p = o
    <3>1. DOMAIN op'[p].results = 1..(n - 1) /\ op[p].results = rs /\ op'[p].results = kept
      BY <1>5, <1>6, <2>1 DEF rs
    <3> QED BY <1>2, <1>5, <1>6, <2>1, <3>1
  <2>2. CASE p # o
    BY <1>6, <2>2
  <2> QED BY <2>1, <2>2
<1>9. \A p \in Ops : \A i \in DOMAIN op[p].results :
        \/ p = o /\ i = n
        \/ i \in DOMAIN op'[p].results /\ op'[p].results[i] = op[p].results[i]
  <2> TAKE p \in Ops
  <2>1. CASE p = o
    <3>1. DOMAIN op'[p].results = 1..(n - 1) /\ DOMAIN op[p].results = 1..n /\ op[p].results = rs
          /\ op'[p].results = kept
      BY <1>2, <1>5, <1>6, <2>1 DEF rs
    <3>2. \A i \in 1..n : i = n \/ (i \in 1..(n - 1) /\ kept[i] = rs[i])
      BY <1>2, <1>5
    <3> TAKE i \in DOMAIN op[p].results
    <3>3. i = n \/ (i \in 1..(n - 1) /\ kept[i] = rs[i])
      BY <3>1, <3>2
    <3> QED BY <2>1, <3>1, <3>3
  <2>2. CASE p # o
    BY <1>6, <2>2
  <2> QED BY <2>1, <2>2
<1>10. rs[n] = op[o].results[n] /\ n \in DOMAIN op[o].results /\ op[o].results[n].file = made
  BY <1>2 DEF rs, made
<1>11. \A x \in Files : Users(x)' = Users(x)
  BY <1>6 DEF Users
<1>12. \A x \in Files : Accepted(x)' <=> Accepted(x) /\ x # made
  <2> TAKE x \in Files
  <2>1. ASSUME Accepted(x)' PROVE Accepted(x) /\ x # made
    <3>1. PICK p \in Ops : \E j \in DOMAIN op'[p].results : op'[p].results[j].file = x
      BY <2>1 DEF Accepted
    <3>2. PICK j \in DOMAIN op'[p].results : op'[p].results[j].file = x
      BY <3>1
    <3> QED BY <1>4, <1>8, <3>2 DEF Accepted
  <2>2. ASSUME Accepted(x), x # made PROVE Accepted(x)'
    <3>1. PICK p \in Ops : \E j \in DOMAIN op[p].results : op[p].results[j].file = x
      BY <2>2 DEF Accepted
    <3>2. PICK j \in DOMAIN op[p].results : op[p].results[j].file = x
      BY <3>1
    <3> QED BY <1>9, <1>10, <2>2, <3>2 DEF Accepted
  <2> QED BY <2>1, <2>2
<1>13. Accepted(made)
  BY <1>10 DEF Accepted
<1>14. \A x \in Files : Alive(x)' <=> Alive(x) \/ x = made
  <2> TAKE x \in Files
  <2>1. CASE x = made
    BY <1>7, <2>1 DEF Alive
  <2>2. CASE x # made
    BY <1>7, <1>11, <2>2 DEF Alive
  <2> QED BY <2>1, <2>2
<1>15. Numbered'
  BY <1>1 DEF Numbered
<1>16. Alone'
  <2>1. ASSUME NEW x \in Files, x # made
        PROVE  fd'[x] = fd[x] /\ Users(x)' = Users(x)
    BY <1>7, <1>11, <2>1
  <2> QED BY <1>7, <2>1 DEF Alone
<1>17. AliveIsOpen'
  <2> SUFFICES ASSUME NEW x \in Files, Alive(x)'
               PROVE  /\ fd'[x].closer \notin {"done", "failed"} => table[fd'[x].num] = x
                      /\ \A m \in Numbers : table[m] = x => m = fd'[x].num
                      /\ fd'[x].closer = "done" => \A m \in Numbers : table[m] # x
    BY <1>1 DEF AliveIsOpen
  <2>1. CASE x = made
    BY <1>2, <1>4, <1>7, <2>1 DEF Numbered
  <2>2. CASE x # made
    <3>1. Alive(x) /\ fd'[x] = fd[x]
      BY <1>7, <1>14, <2>2
    <3> QED BY <3>1 DEF AliveIsOpen
  <2> QED BY <2>1, <2>2
<1>18. MadeIsOpen'
  <2>1. \A p \in Ops : \A i \in DOMAIN op'[p].results :
          op'[p].kind \in Makes \/ op'[p].results[i].file \in Files =>
            /\ i \in DOMAIN op[p].results /\ op'[p].results[i] = op[p].results[i]
            /\ op[p].kind \in Makes
    <3> TAKE p \in Ops
    <3> TAKE i \in DOMAIN op'[p].results
    <3> HAVE op'[p].kind \in Makes \/ op'[p].results[i].file \in Files
    <3>1. i \in DOMAIN op[p].results /\ op'[p].results[i] = op[p].results[i] /\ op'[p].kind = op[p].kind
      BY <1>8
    <3>2. op[p].results # <<>>
      BY <3>1, OpFacts
    <3>3. op[p].kind \in Makes
      BY <3>1, <3>2, DescriptorsAssumption DEF Shaped
    <3> QED BY <3>1, <3>3
  <2> QED BY <1>1, <1>12, <1>14, <2>1, MadeKept
<1>19. AskedIsOver' /\ (harm' = "none" => NoneLeaked')
  <2>1. PICK none \in SUBSET Files, taken \in SUBSET Files : none = {} /\ taken = {made}
    BY <1>4
  <2>2. closes' = closes /\ leaked' = leaked /\ closes' \subseteq Request
    BY <1>1 DEF TypeOK
  <2>3. Passes(none, none, taken)
    BY <1>12, <1>13, <1>14, <2>1, <2>2 DEF Passes
  <2> QED BY <1>1, <2>3, Passing
<1> QED BY <1>15, <1>16, <1>17, <1>18, <1>19, <1>1

-----------------------------------------------------------------------------
(* The kernel opens a file that nothing refers to, under a free number.    *)

LEMMA OpeningPlaces ==
  ASSUME TypeOK, TypeOK', Shaped, Placed, harm = "none", NEW o \in Ops, KernelOpens(o)
  PROVE  Placed'
<1> USE DEF Placed
<1>1. op[o].kind \in Makes /\ fd' = fd /\ closes' = closes /\ harm' = harm
  BY DEF KernelOpens
<1>2. PICK n \in FreeNumbers, f \in Files :
        /\ Fresh(f) /\ table' = [table EXCEPT ![n] = f]
        /\ op' = [op EXCEPT ![o].results = Append(@, [num |-> n, file |-> f]),
                            ![o].stage = IF op[o].kind = "incoming" THEN @ ELSE "done"]
        /\ leaked' = leaked \ {f}
  BY DEF KernelOpens
<1> DEFINE rs == op[o].results
           new == [num |-> n, file |-> f]
           k == Len(rs) + 1
<1>3. n \in Numbers /\ table[n] = None /\ f # None
  BY DescriptorsAssumption DEF FreeNumbers
<1>4. table'[n] = f /\ \A m \in Numbers \ {n} : table'[m] = table[m]
  BY <1>2, <1>3 DEF TypeOK
<1>5. ~Alive(f) /\ (\A m \in Numbers : table[m] # f) /\ (\A r \in closes : r.file # f)
  BY <1>2 DEF Fresh
<1>6. ~Accepted(f)
  BY <1>5, AcceptedIsDead
<1>7. /\ op'[o].results = Append(rs, new) /\ op'[o].kind = op[o].kind /\ op'[o].uses = op[o].uses
      /\ \A p \in Ops \ {o} : op'[p] = op[p]
  BY <1>2 DEF TypeOK, Operation
<1>8. /\ Len(rs) \in Nat /\ DOMAIN rs = 1..Len(rs) /\ k \in DOMAIN op'[o].results
      /\ op'[o].results[k] = new /\ k \notin DOMAIN rs
      /\ \A i \in DOMAIN op'[o].results : i = k \/ i \in DOMAIN rs
      /\ \A i \in DOMAIN rs : i \in DOMAIN op'[o].results /\ op'[o].results[i] = rs[i]
  <2>1. rs \in Seq(Made) /\ Len(rs) \in Nat /\ DOMAIN rs = 1..Len(rs)
    BY OpFacts
  <2>2. new \in Made
    BY <1>3 DEF Made
  <2>3. /\ Len(Append(rs, new)) = Len(rs) + 1 /\ Append(rs, new)[Len(rs) + 1] = new
        /\ \A i \in 1..Len(rs) : Append(rs, new)[i] = rs[i]
        /\ Append(rs, new) \in Seq(Made)
    BY <2>1, <2>2, AppendProperties
  <2>4. DOMAIN Append(rs, new) = 1..(Len(rs) + 1)
    BY <2>3, LenProperties
  <2> HIDE DEF rs, new
  <2> QED BY <1>7, <2>1, <2>3, <2>4
<1> HIDE DEF rs, k
<1>9. \A x \in Files : Users(x)' = Users(x)
  BY <1>7 DEF Users
<1>10. \A x \in Files : Alive(x)' <=> Alive(x)
  BY <1>1, <1>9 DEF Alive
<1>11. \A p \in Ops : \A i \in DOMAIN op'[p].results :
         /\ op'[p].kind = op[p].kind
         /\ \/ p = o /\ i = k /\ op'[p].results[i] = new
            \/ i \in DOMAIN op[p].results /\ op'[p].results[i] = op[p].results[i]
  <2> TAKE p \in Ops
  <2>1. CASE p = o
    BY <1>7, <1>8, <2>1 DEF rs
  <2>2. CASE p # o
    BY <1>7, <2>2
  <2> QED BY <2>1, <2>2
<1>12. \A p \in Ops : \A i \in DOMAIN op[p].results :
         i \in DOMAIN op'[p].results /\ op'[p].results[i] = op[p].results[i]
  <2> TAKE p \in Ops
  <2>1. CASE p = o
    BY <1>8, <2>1 DEF rs
  <2>2. CASE p # o
    BY <1>7, <2>2
  <2> QED BY <2>1, <2>2
<1>13. \A x \in Files : Accepted(x)' <=> Accepted(x) \/ x = f
  <2> TAKE x \in Files
  <2>1. ASSUME Accepted(x)' PROVE Accepted(x) \/ x = f
    <3>1. PICK p \in Ops : \E j \in DOMAIN op'[p].results : op'[p].results[j].file = x
      BY <2>1 DEF Accepted
    <3>2. PICK j \in DOMAIN op'[p].results : op'[p].results[j].file = x
      BY <3>1
    <3> QED BY <1>11, <3>2 DEF Accepted
  <2>2. ASSUME Accepted(x) PROVE Accepted(x)'
    <3>1. PICK p \in Ops : \E j \in DOMAIN op[p].results : op[p].results[j].file = x
      BY <2>2 DEF Accepted
    <3>2. PICK j \in DOMAIN op[p].results : op[p].results[j].file = x
      BY <3>1
    <3> QED BY <1>12, <3>2 DEF Accepted
  <2>3. op'[o].results[k].file = f
    BY <1>8
  <2>4. Accepted(f)'
    BY <1>8, <2>3 DEF Accepted
  <2> QED BY <2>1, <2>2, <2>4
<1>14. \A m \in Numbers, x \in Files : table'[m] = x <=> (m = n /\ x = f) \/ (x # f /\ table[m] = x)
  BY <1>3, <1>4, <1>5, DescriptorsAssumption
<1>15. Numbered'
  <2> SUFFICES ASSUME NEW l \in Numbers, NEW m \in Numbers, table'[l] = table'[m], table'[l] \in Files
               PROVE  l = m
    BY DEF Numbered
  <2>1. CASE table'[l] = f
    BY <1>14, <2>1
  <2>2. CASE table'[l] # f
    BY <1>14, <2>2 DEF Numbered
  <2> QED BY <2>1, <2>2
<1>16. Alone'
  BY <1>1, <1>9 DEF Alone
<1>17. AliveIsOpen'
  <2> SUFFICES ASSUME NEW x \in Files, Alive(x)
               PROVE  /\ fd[x].closer \notin {"done", "failed"} => table'[fd[x].num] = x
                      /\ \A m \in Numbers : table'[m] = x => m = fd[x].num
                      /\ fd[x].closer = "done" => \A m \in Numbers : table'[m] # x
    BY <1>1, <1>10 DEF AliveIsOpen
  <2>1. x # f /\ fd[x].num \in Numbers
    BY <1>5, FdFacts
  <2> QED BY <1>14, <2>1 DEF AliveIsOpen
<1>18. MadeIsOpen'
  <2>1. ASSUME NEW p \in Ops, NEW i \in DOMAIN op'[p].results,
               \/ op'[p].kind \in Makes
               \/ op'[p].results[i].file \in Files
        PROVE  /\ op'[p].results[i].file \in Files /\ op'[p].results[i].num \in Numbers
               /\ table'[op'[p].results[i].num] = op'[p].results[i].file
               /\ op'[p].results[i].file = f \/ ~Alive(op'[p].results[i].file)
               /\ op[p].kind \in Makes
               /\ \/ p = o /\ i = k /\ op'[p].results[i].file = f
                  \/ /\ op'[p].results[i].file # f
                     /\ i \in DOMAIN op[p].results /\ op'[p].results[i] = op[p].results[i]
    <3>1. CASE p = o /\ i = k /\ op'[p].results[i] = new
      BY <1>1, <1>3, <1>4, <3>1
    <3>2. CASE i \in DOMAIN op[p].results /\ op'[p].results[i] = op[p].results[i]
      <4>1. op'[p].kind = op[p].kind
        BY <1>11
      <4>2. op[p].results # <<>> /\ op[p].results[i].num \in Numbers
        BY <3>2, OpFacts
      <4>3. op[p].kind \in Makes
        BY <2>1, <3>2, <4>1, <4>2, DescriptorsAssumption DEF Shaped
      <4>4. /\ op[p].results[i].file \in Files /\ ~Alive(op[p].results[i].file)
            /\ table[op[p].results[i].num] = op[p].results[i].file
        BY <3>2, <4>3 DEF MadeIsOpen
      <4>5. op[p].results[i].file # f
        BY <1>5, <4>2, <4>4
      <4> QED BY <1>14, <3>2, <4>2, <4>3, <4>4, <4>5
    <3> QED BY <1>11, <3>1, <3>2
  <2>2. ASSUME NEW p \in Ops, op'[p].kind \in Makes, NEW i \in DOMAIN op'[p].results
        PROVE  /\ op'[p].results[i].file \in Files
               /\ table'[op'[p].results[i].num] = op'[p].results[i].file
               /\ \A x \in Files : x = op'[p].results[i].file => ~Alive(x)'
               /\ \A q \in Ops : \A j \in DOMAIN op'[q].results :
                    op'[q].results[j].file = op'[p].results[i].file => q = p /\ j = i
    <3>1. /\ op'[p].results[i].file \in Files
          /\ table'[op'[p].results[i].num] = op'[p].results[i].file
      BY <2>1, <2>2
    <3>2. \A x \in Files : x = op'[p].results[i].file => ~Alive(x)'
      BY <1>5, <1>10, <2>1, <2>2
    <3>3. ASSUME NEW q \in Ops, NEW j \in DOMAIN op'[q].results,
                 op'[q].results[j].file = op'[p].results[i].file
          PROVE  q = p /\ j = i
      <4>1. op'[q].results[j].file \in Files
        BY <3>1, <3>3
      <4>2. CASE op'[p].results[i].file = f
        BY <2>1, <2>2, <3>3, <4>1, <4>2
      <4>3. CASE op'[p].results[i].file # f
        <5>1. /\ op[p].kind \in Makes /\ i \in DOMAIN op[p].results
              /\ op'[p].results[i] = op[p].results[i]
          BY <2>1, <2>2, <4>3
        <5>2. j \in DOMAIN op[q].results /\ op'[q].results[j] = op[q].results[j]
          BY <2>1, <3>3, <4>1, <4>3
        <5> QED BY <3>3, <5>1, <5>2 DEF MadeIsOpen
      <4> QED BY <4>2, <4>3
    <3> QED BY <3>1, <3>2, <3>3
  <2> QED BY <2>2 DEF MadeIsOpen
<1>19. AskedIsOver'
  <2> SUFFICES ASSUME NEW r \in closes, r.file # None
               PROVE  /\ ~Alive(r.file)' /\ ~Accepted(r.file)'
                      /\ r.cause \notin {"connect", "explicit"}
                      /\ \A m \in Numbers : table'[m] = r.file => m = r.num
                      /\ r.cause \in {"drop", "cleanup"} =>
                           table'[r.num] = r.file /\ \A q \in closes : q.file = r.file => q = r
    BY <1>1 DEF AskedIsOver
  <2>1. r.file \in Files /\ r.num \in Numbers /\ r.file # f
    BY <1>5 DEF TypeOK, Request
  <2>2. ~Alive(r.file)' /\ ~Accepted(r.file)'
    BY <1>10, <1>13, <2>1 DEF AskedIsOver
  <2> QED BY <1>14, <2>1, <2>2 DEF AskedIsOver
<1>20. NoneLeaked'
  <2> SUFFICES ASSUME NEW m \in Numbers, NEW x \in Files, table'[m] = x
               PROVE  \/ Alive(x)' \/ Accepted(x)' \/ x \in leaked'
                      \/ \E r \in closes' : r.file = x /\ r.cause # "cancelled"
    BY DEF NoneLeaked
  <2>1. CASE x = f
    BY <1>13, <2>1
  <2>2. CASE x # f
    <3>1. \/ Alive(x) \/ Accepted(x) \/ x \in leaked
          \/ \E r \in closes : r.file = x /\ r.cause # "cancelled"
      BY <1>14, <2>2 DEF NoneLeaked
    <3> QED BY <1>1, <1>2, <1>10, <1>13, <2>2, <3>1
  <2> QED BY <2>1, <2>2
<1> QED BY <1>15, <1>16, <1>17, <1>18, <1>19, <1>20

-----------------------------------------------------------------------------
(* The kernel closes a number that was meant, or none.                     *)

(* The result of a CloseFd, which failed or not.                           *)
LEMMA CloseFdPlaces ==
  ASSUME TypeOK, TypeOK', Shaped, Placed, harm = "none", NEW f \in Files, KernelCloses(f),
         harm' = "none"
  PROVE  Placed'
<1> USE DEF Placed
<1>1. op' = op /\ closes' = closes /\ leaked' = leaked /\ fd[f].closer = "sent"
  BY DEF KernelCloses
<1>2. PICK result \in {"done", "failed"} : fd' = [fd EXCEPT ![f].closer = result]
  BY DEF KernelCloses
<1>3. /\ fd'[f].num = fd[f].num /\ fd'[f].app = fd[f].app /\ fd'[f].tried = fd[f].tried
      /\ fd'[f].closer = result /\ \A x \in Files \ {f} : fd'[x] = fd[x]
  BY <1>2, FdFacts DEF Fd
<1>4. fd[f].app = 1 /\ fd[f].tried /\ Users(f) = {} /\ Alive(f)
  BY <1>1 DEF Alone, Alive
<1>5. table[fd[f].num] = f /\ fd[f].num \in Numbers
  BY <1>1, <1>4, FdFacts DEF AliveIsOpen
<1>6. \/ table' = table /\ result = "failed"
      \/ table' = [table EXCEPT ![fd[f].num] = None]
  <2>1. CASE fd' = [fd EXCEPT ![f].closer = "failed"] /\ table' = table
    <3>1. fd'[f].closer = "failed"
      BY <2>1, FdFacts DEF Fd
    <3> QED BY <1>3, <2>1, <3>1
  <2>2. CASE Release([num |-> fd[f].num, file |-> f, cause |-> "explicit"])
    BY <2>2 DEF Release
  <2> QED BY <2>1, <2>2 DEF KernelCloses
<1>7. \A n \in Numbers, x \in Files :
        /\ table'[n] = x => table[n] = x
        /\ x # f => (table'[n] = x <=> table[n] = x)
  BY <1>5, <1>6, DescriptorsAssumption DEF TypeOK
<1>8. result = "done" => \A n \in Numbers : table'[n] # f
  <2>1. \A n \in Numbers : table[n] = f => n = fd[f].num
    BY <1>4 DEF AliveIsOpen
  <2> QED BY <1>5, <1>6, <2>1, DescriptorsAssumption DEF TypeOK
<1>9. \A x \in Files : Users(x)' = Users(x) /\ (Accepted(x)' <=> Accepted(x))
  BY <1>1 DEF Users, Accepted
<1>10. \A x \in Files : Alive(x)' <=> Alive(x)
  BY <1>3, <1>9 DEF Alive
<1>11. Numbered'
  BY <1>7 DEF Numbered, TypeOK
<1>12. Alone'
  BY <1>1, <1>3, <1>4, <1>9 DEF Alone
<1>13. AliveIsOpen'
  <2> SUFFICES ASSUME NEW x \in Files, Alive(x)
               PROVE  /\ fd'[x].closer \notin {"done", "failed"} => table'[fd'[x].num] = x
                      /\ \A n \in Numbers : table'[n] = x => n = fd'[x].num
                      /\ fd'[x].closer = "done" => \A n \in Numbers : table'[n] # x
    BY <1>10 DEF AliveIsOpen
  <2>1. CASE x = f
    BY <1>3, <1>4, <1>7, <1>8, <2>1 DEF AliveIsOpen
  <2>2. CASE x # f
    BY <1>3, <1>7, <2>2, FdFacts DEF AliveIsOpen
  <2> QED BY <2>1, <2>2
<1>14. MadeIsOpen'
  <2>1. ASSUME NEW p \in Ops, op[p].kind \in Makes, NEW i \in DOMAIN op[p].results
        PROVE  /\ op[p].results[i].file \in Files
               /\ table'[op[p].results[i].num] = op[p].results[i].file
               /\ \A x \in Files : x = op[p].results[i].file => ~Alive(x)'
               /\ \A q \in Ops : \A j \in DOMAIN op[q].results :
                    op[q].results[j].file = op[p].results[i].file => q = p /\ j = i
    <3>1. op[p].results[i].num \in Numbers
      BY <2>1, OpFacts
    <3> QED BY <1>4, <1>7, <1>10, <2>1, <3>1 DEF MadeIsOpen
  <2> QED BY <1>1, <2>1 DEF MadeIsOpen
<1>15. AskedIsOver'
  <2> SUFFICES ASSUME NEW r \in closes, r.file # None
               PROVE  /\ ~Alive(r.file)' /\ ~Accepted(r.file)'
                      /\ r.cause \notin {"connect", "explicit"}
                      /\ \A m \in Numbers : table'[m] = r.file => m = r.num
                      /\ r.cause \in {"drop", "cleanup"} =>
                           table'[r.num] = r.file /\ \A q \in closes : q.file = r.file => q = r
    BY <1>1 DEF AskedIsOver
  <2>1. r.file \in Files /\ r.num \in Numbers /\ r.file # f
    BY <1>4 DEF TypeOK, Request, AskedIsOver
  <2>2. ~Alive(r.file)' /\ ~Accepted(r.file)'
    BY <1>9, <1>10, <2>1 DEF AskedIsOver
  <2> QED BY <1>7, <2>1, <2>2 DEF AskedIsOver
<1>16. NoneLeaked'
  <2> SUFFICES ASSUME NEW m \in Numbers, NEW x \in Files, table'[m] = x
               PROVE  \/ Alive(x)' \/ Accepted(x)' \/ x \in leaked'
                      \/ \E r \in closes' : r.file = x /\ r.cause # "cancelled"
    BY DEF NoneLeaked
  <2>1. \/ Alive(x) \/ Accepted(x) \/ x \in leaked
        \/ \E r \in closes : r.file = x /\ r.cause # "cancelled"
    BY <1>7 DEF NoneLeaked
  <2> QED BY <1>1, <1>9, <1>10, <2>1
<1> QED BY <1>11, <1>12, <1>13, <1>14, <1>15, <1>16

(* A request that nobody waits for is done, or cancelled.                  *)
LEMMA RequestPlaces ==
  ASSUME TypeOK, TypeOK', Shaped, Placed, harm = "none", NEW r \in closes,
         KernelReleases(r) \/ KernelCancels(r), harm' = "none"
  PROVE  Placed'
<1> USE DEF Placed
<1>1. op' = op /\ fd' = fd /\ closes' = closes \ {r} /\ leaked' = leaked
  BY DEF KernelReleases, KernelCancels
<1>2. r.num \in Numbers /\ r.file \in Files \cup {None} /\ r.cause \in Cause
  BY DEF TypeOK, Request
<1>3. \/ table' = table /\ r.cause = "cancelled"
      \/ table' = [table EXCEPT ![r.num] = None] /\ table[r.num] \in {None, r.file}
  BY <1>2 DEF KernelReleases, KernelCancels, Release, Cause
<1>4. \A n \in Numbers, x \in Files :
        /\ table'[n] = x => table[n] = x
        /\ x # r.file => (table'[n] = x <=> table[n] = x)
  BY <1>2, <1>3, DescriptorsAssumption DEF TypeOK
<1>5. \A x \in Files : (Users(x)' = Users(x)) /\ (Accepted(x)' <=> Accepted(x)) /\ (Alive(x)' <=> Alive(x))
  BY <1>1 DEF Users, Accepted, Alive
<1>6. r.file \in Files =>
        /\ ~Alive(r.file) /\ ~Accepted(r.file)
        /\ \A n \in Numbers : table[n] = r.file => n = r.num
  BY DescriptorsAssumption DEF AskedIsOver
<1>7. Numbered'
  BY <1>4 DEF Numbered, TypeOK
<1>8. Alone'
  BY <1>1, <1>5 DEF Alone
<1>9. AliveIsOpen'
  <2> SUFFICES ASSUME NEW x \in Files, Alive(x)
               PROVE  /\ fd[x].closer \notin {"done", "failed"} => table'[fd[x].num] = x
                      /\ \A n \in Numbers : table'[n] = x => n = fd[x].num
                      /\ fd[x].closer = "done" => \A n \in Numbers : table'[n] # x
    BY <1>1, <1>5 DEF AliveIsOpen
  <2>1. x # r.file /\ fd[x].num \in Numbers
    BY <1>6, FdFacts
  <2> QED BY <1>4, <2>1 DEF AliveIsOpen
<1>10. MadeIsOpen'
  <2>1. ASSUME NEW p \in Ops, op[p].kind \in Makes, NEW i \in DOMAIN op[p].results
        PROVE  /\ op[p].results[i].file \in Files
               /\ table'[op[p].results[i].num] = op[p].results[i].file
               /\ \A x \in Files : x = op[p].results[i].file => ~Alive(x)'
               /\ \A q \in Ops : \A j \in DOMAIN op[q].results :
                    op[q].results[j].file = op[p].results[i].file => q = p /\ j = i
    <3>1. op[p].results[i].num \in Numbers
      BY <2>1, OpFacts
    <3>2. op[p].results[i].file # r.file
      BY <1>6, <2>1 DEF MadeIsOpen, Accepted
    <3> QED BY <1>4, <1>5, <2>1, <3>1, <3>2 DEF MadeIsOpen
  <2> QED BY <1>1, <2>1 DEF MadeIsOpen
<1>11. AskedIsOver'
  <2> SUFFICES ASSUME NEW q \in closes, q # r, q.file # None
               PROVE  /\ ~Alive(q.file)' /\ ~Accepted(q.file)'
                      /\ q.cause \notin {"connect", "explicit"}
                      /\ \A m \in Numbers : table'[m] = q.file => m = q.num
                      /\ q.cause \in {"drop", "cleanup"} =>
                           table'[q.num] = q.file /\ \A p \in closes : p.file = q.file => p = q
    BY <1>1 DEF AskedIsOver
  <2>1. q.file \in Files /\ q.num \in Numbers
    BY DEF TypeOK, Request
  <2>2. ~Alive(q.file)' /\ ~Accepted(q.file)'
    BY <1>5, <2>1 DEF AskedIsOver
  <2>3. q.cause \in {"drop", "cleanup"} => r.file # q.file
    BY DEF AskedIsOver
  <2> QED BY <1>4, <2>1, <2>2, <2>3 DEF AskedIsOver
<1>12. NoneLeaked'
  <2> SUFFICES ASSUME NEW m \in Numbers, NEW x \in Files, table'[m] = x
               PROVE  \/ Alive(x)' \/ Accepted(x)' \/ x \in leaked'
                      \/ \E q \in closes' : q.file = x /\ q.cause # "cancelled"
    BY DEF NoneLeaked
  <2>1. table[m] = x
    BY <1>4
  <2>2. \/ Alive(x) \/ Accepted(x) \/ x \in leaked
        \/ \E q \in closes : q.file = x /\ q.cause # "cancelled"
    BY <2>1 DEF NoneLeaked
  <2>3. x = r.file => r.cause = "cancelled"
    <3> SUFFICES ASSUME x = r.file, r.cause # "cancelled" PROVE FALSE
      OBVIOUS
    <3>1. m = r.num
      BY <1>6, <2>1
    <3>2. table'[r.num] = None
      BY <1>2, <1>3 DEF TypeOK
    <3> QED BY <3>1, <3>2, DescriptorsAssumption
  <2> QED BY <1>1, <1>5, <2>2, <2>3
<1> QED BY <1>7, <1>8, <1>9, <1>10, <1>11, <1>12

-----------------------------------------------------------------------------
(* The shape of operations, and why files are closed.                      *)

LEMMA NextShaped == ASSUME TypeOK, Shaped, Next PROVE Shaped'
<1> DEFINE Good(p) ==
      /\ p.stage = "none" => p.uses = None
      /\ p.stage \in {"none", "new"} => p.results = <<>>
      /\ p.stage = "sent" /\ p.kind # "incoming" => p.results = <<>>
      /\ p.kind # "incoming" => Len(p.results) <= 1
      /\ p.kind \notin Makes \cup Connects => p.results = <<>>
      /\ p.kind \in Connects => \A i \in DOMAIN p.results : p.results[i].file = None
<1>1. \A o \in Ops : Good(op[o])
  BY DEF Shaped
<1>2. \A rs : rs = <<>> => Len(rs) = 0 /\ DOMAIN rs = {}
  OBVIOUS
<1>3. Good(NoOp)
  BY <1>2, NoOpTyped
<1>4. ASSUME NEW k \in Kind, NEW f \in Files \cup {None} PROVE Good(NewOp(k, f))
  BY <1>2, NewOpTyped
<1>5. ASSUME NEW o \in Ops, \A p \in Ops \ {o} : op'[p] = op[p], Good(op'[o]) PROVE Shaped'
  <2>1. \A p \in Ops : Good(op'[p])
    BY <1>1, <1>5
  <2> QED BY <2>1 DEF Shaped
<1>6. ASSUME NEW o \in Ops, NEW x, op' = [op EXCEPT ![o] = x]
      PROVE  op'[o] = x /\ \A p \in Ops \ {o} : op'[p] = op[p]
  BY <1>6 DEF TypeOK
<1>7. ASSUME NEW o \in Ops,
             \/ Open(o) \/ Complete(o) \/ Destroy(o)
             \/ \E k \in Uses, f \in Files : Start(o, k, f)
      PROVE  Shaped'
  <2>1. PICK x : op' = [op EXCEPT ![o] = x] /\ Good(x)
    <3>1. CASE Open(o)
      BY <1>4, <3>1, Kinds DEF Open
    <3>2. CASE Complete(o) \/ Destroy(o)
      BY <1>3, <3>2 DEF Complete, Destroy
    <3>3. ASSUME NEW k \in Uses, NEW f \in Files, Start(o, k, f)
          PROVE  op' = [op EXCEPT ![o] = NewOp(k, f)] /\ Good(NewOp(k, f))
      BY <1>4, <3>3, Kinds DEF Start
    <3> HIDE DEF Good
    <3> QED BY <1>7, <3>1, <3>2, <3>3
  <2> HIDE DEF Good
  <2> QED BY <1>5, <1>6, <2>1
<1>8. ASSUME NEW o \in Ops, Push(o) \/ DropSent(o) \/ KernelEnds(o) PROVE Shaped'
  <2>1. \A p \in Ops \ {o} : op'[p] = op[p]
    BY <1>8 DEF Push, DropSent, KernelEnds, TypeOK
  <2>2. CASE Push(o) \/ DropSent(o)
    <3>1. /\ op'[o].kind = op[o].kind /\ op'[o].uses = op[o].uses /\ op'[o].results = op[o].results
          /\ \/ op'[o].stage = "sent" /\ op[o].stage = "new"
             \/ op'[o].stage = op[o].stage
      BY <2>2 DEF Push, DropSent, TypeOK, Operation
    <3> QED BY <1>1, <1>5, <2>1, <3>1
  <2>3. CASE op[o].stage = "sent" /\ op' = [op EXCEPT ![o].stage = "done"]
    <3>1. /\ op'[o].kind = op[o].kind /\ op'[o].uses = op[o].uses /\ op'[o].results = op[o].results
          /\ op'[o].stage = "done"
      BY <2>3 DEF TypeOK, Operation
    <3> QED BY <1>1, <1>5, <2>1, <3>1
  <2>4. CASE /\ op[o].kind \in Connects
             /\ op' = [op EXCEPT ![o].stage = "done", ![o].results = <<[num |-> 0, file |-> None]>>]
    <3>1. /\ op'[o].kind = op[o].kind /\ op'[o].results = <<[num |-> 0, file |-> None]>>
          /\ op'[o].stage = "done"
      BY <2>4 DEF TypeOK, Operation
    <3>2. Len(op'[o].results) = 1 /\ \A i \in DOMAIN op'[o].results : op'[o].results[i].file = None
      BY <3>1
    <3>3. op'[o].kind \in Connects
      BY <2>4, <3>1
    <3>4. Good(op'[o])
      BY <3>1, <3>2, <3>3
    <3> HIDE DEF Good
    <3> QED BY <1>5, <2>1, <3>4
  <2> QED BY <1>8, <2>2, <2>3, <2>4 DEF KernelEnds
<1>9. ASSUME NEW o \in Ops, Update(o) PROVE Shaped'
  <2>1. op[o].kind = "incoming" /\ op[o].results # <<>> /\ \A p \in Ops \ {o} : op'[p] = op[p]
    BY <1>9 DEF Update, TypeOK
  <2>2. op'[o].kind = "incoming" /\ op'[o].uses = op[o].uses /\ op'[o].stage = op[o].stage
    BY <1>9, <2>1 DEF Update, TypeOK, Operation
  <2> QED BY <1>1, <1>5, <2>1, <2>2, Kinds
<1>10. ASSUME NEW o \in Ops, KernelOpens(o) PROVE Shaped'
  <2>1. op[o].stage = "sent" /\ op[o].kind \in Makes
    BY <1>10 DEF KernelOpens
  <2>2. PICK n \in FreeNumbers, f \in Files :
          op' = [op EXCEPT ![o].results = Append(@, [num |-> n, file |-> f]),
                           ![o].stage = IF op[o].kind = "incoming" THEN @ ELSE "done"]
    BY <1>10 DEF KernelOpens
  <2>3. /\ op'[o].kind = op[o].kind /\ \A p \in Ops \ {o} : op'[p] = op[p]
        /\ op'[o].results = Append(op[o].results, [num |-> n, file |-> f])
        /\ op'[o].stage = IF op[o].kind = "incoming" THEN "sent" ELSE "done"
    BY <2>1, <2>2 DEF TypeOK, Operation
  <2>4. op[o].kind # "incoming" => Len(op'[o].results) = 1
    <3>1. op[o].kind # "incoming" => op[o].results = <<>>
      BY <1>1, <2>1
    <3> QED BY <2>3, <3>1
  <2> QED BY <1>5, <2>1, <2>3, <2>4, Kinds
<1>11. ASSUME op' = op PROVE Shaped'
  BY <1>11 DEF Shaped
<1>12. ASSUME NEW f \in Files,
              \/ Split(f) \/ DropHandle(f) \/ BeginClose(f) \/ Closing(f) \/ DropClose(f)
              \/ KernelCloses(f)
       PROVE  op' = op
  BY <1>12 DEF Split, DropHandle, BeginClose, Closing, PollClose, PushClose, FinishClose,
       FailClose, DropClose, KernelCloses
<1>13. ASSUME NEW r \in closes, KernelReleases(r) \/ KernelCancels(r) PROVE op' = op
  BY <1>13 DEF KernelReleases, KernelCancels
<1> HIDE DEF Good
<1> QED BY <1>7, <1>8, <1>9, <1>10, <1>11, <1>12, <1>13 DEF Next, Application

(* A file that was not meant is closed for three reasons only.             *)
LEMMA NextClosesItsOwn ==
  ASSUME TypeOK, Placed, harm = "none", Next PROVE ClosesItsOwn'
<1>1. ASSUME NEW f \in Files, KernelCloses(f) PROVE harm' = "none"
  <2>1. fd[f].closer = "sent" /\ Alive(f)
    BY <1>1, FdFacts DEF KernelCloses, Placed, Alone, Alive
  <2>2. table[fd[f].num] = f
    BY <2>1 DEF Placed, AliveIsOpen
  <2> QED BY <1>1, <2>2 DEF KernelCloses, Release
<1>2. ASSUME NEW r \in closes, KernelReleases(r)
      PROVE  harm' \in {"none", "cancelled", "again", "connect"}
  <2>1. r.cause \in Cause
    BY DEF TypeOK, Request
  <2>2. r.cause # "explicit" /\ (r.cause \in {"drop", "cleanup"} => table[r.num] = r.file)
    BY DescriptorsAssumption DEF Placed, AskedIsOver
  <2> QED BY <1>2, <2>1, <2>2 DEF KernelReleases, Release, Cause
<1>3. ASSUME NEW r \in closes, KernelCancels(r) PROVE harm' = harm
  BY <1>3 DEF KernelCancels
<1>4. ASSUME NEW o \in Ops,
             \/ Open(o) \/ Push(o) \/ Complete(o) \/ Update(o) \/ DropSent(o)
             \/ Destroy(o) \/ KernelOpens(o) \/ KernelEnds(o)
      PROVE  harm' = harm
  BY <1>4 DEF Open, Push, Complete, Update, DropSent, Destroy, KernelOpens, KernelEnds
<1>5. ASSUME NEW f \in Files, Application(f) \/ Closing(f) \/ DropClose(f) PROVE harm' = harm
  BY <1>5 DEF Application, Start, Split, DropHandle, BeginClose, Closing, PollClose, PushClose,
       FinishClose, FailClose, DropClose
<1> QED BY <1>1, <1>2, <1>3, <1>4, <1>5 DEF Next, ClosesItsOwn

-----------------------------------------------------------------------------
(* The theorems.                                                           *)

LEMMA FdInvInit == ASSUME Init PROVE FdInv
<1>1. /\ \A n \in Numbers : table[n] \notin Files
      /\ \A f \in Files : fd[f] = NoFd /\ Users(f) = {} /\ ~Alive(f)
      /\ \A o \in Ops : op[o] = NoOp
      /\ closes = {} /\ leaked = {} /\ harm = "none"
  BY NoOpTyped, DescriptorsAssumption DEF Init, Users, Alive, NoFd
<1>2. TypeOK
  BY NoOpTyped, NoFdTyped DEF Init, TypeOK
<1>3. \A o \in Ops : DOMAIN op[o].results = {}
  BY <1>1, NoOpTyped
<1>4. Shaped
  <2>1. \A rs : rs = <<>> => Len(rs) = 0
    OBVIOUS
  <2> QED BY <1>1, <1>3, <2>1, NoOpTyped DEF Shaped
<1>5. ClosesItsOwn
  BY <1>1 DEF ClosesItsOwn
<1>6. Placed
  BY <1>1, <1>3 DEF Placed, Numbered, Alone, AliveIsOpen, AskedIsOver, MadeIsOpen, NoneLeaked, NoFd
<1> QED BY <1>2, <1>4, <1>5, <1>6 DEF FdInv

LEMMA FdInvKept == ASSUME FdInv, [Next]_vars PROVE FdInv'
<1>1. CASE UNCHANGED vars
  <2>1. TypeOK' /\ Shaped' /\ ClosesItsOwn'
    BY <1>1 DEF FdInv, vars, TypeOK, Shaped, ClosesItsOwn
  <2>2. harm' = "none" => Placed'
    BY <1>1 DEF FdInv, vars, Placed, Numbered, Alone, AliveIsOpen, AskedIsOver, MadeIsOpen,
         NoneLeaked, Alive, Accepted, Users
  <2> QED BY <2>1, <2>2 DEF FdInv
<1>2. CASE Next
  <2>1. harm = "none" /\ TypeOK /\ Shaped /\ Placed
    BY <1>2 DEF FdInv, Next
  <2>2. TypeOK' /\ Shaped' /\ ClosesItsOwn'
    <3>1. Alone
      BY <2>1 DEF Placed
    <3> QED BY <1>2, <2>1, <3>1, NextTyped, NextShaped, NextClosesItsOwn
  <2>3. ASSUME harm' = "none" PROVE Placed'
    <3>1. ASSUME NEW o \in Ops,
                 \/ Open(o) \/ Push(o) \/ Complete(o) \/ Update(o) \/ DropSent(o)
                 \/ Destroy(o) \/ KernelOpens(o) \/ KernelEnds(o)
          PROVE  Placed'
      BY <2>1, <2>2, <3>1, OperationPlaces, CompletePlaces, UpdatePlaces, DestroyPlaces, OpeningPlaces
    <3>2. ASSUME NEW f \in Files, Application(f) \/ Closing(f) \/ DropClose(f) \/ KernelCloses(f)
          PROVE  Placed'
      <4>1. CASE \E o \in Ops, k \in Uses : Start(o, k, f)
        BY <2>1, <2>2, <4>1, OperationPlaces
      <4>2. CASE Split(f) \/ BeginClose(f) \/ PollClose(f) \/ PushClose(f)
        BY <2>1, <2>2, <4>2, ClosingPlaces
      <4>3. CASE DropHandle(f) \/ FinishClose(f) \/ FailClose(f) \/ DropClose(f)
        BY <2>1, <2>2, <4>3, HandlePlaces
      <4>4. CASE KernelCloses(f)
        BY <2>1, <2>2, <2>3, <4>4, CloseFdPlaces
      <4> QED BY <3>2, <4>1, <4>2, <4>3, <4>4 DEF Application, Closing
    <3>3. ASSUME NEW r \in closes, KernelReleases(r) \/ KernelCancels(r) PROVE Placed'
      BY <2>1, <2>2, <2>3, <3>3, RequestPlaces
    <3> QED BY <1>2, <3>1, <3>2, <3>3 DEF Next
  <2> QED BY <2>2, <2>3 DEF FdInv
<1> QED BY <1>1, <1>2

LEMMA FdInvAlways == Spec => []FdInv
<1>1. Init => FdInv
  BY FdInvInit
<1>2. FdInv /\ [Next]_vars => FdInv'
  BY FdInvKept
<1> QED BY <1>1, <1>2, PTL DEF Spec

(* No descriptor is closed while an operation or a handle uses it, until   *)
(* one of the three known mistakes closes a file that was not meant, and   *)
(* nothing else ever does: NornFd::close and Drop for Inner of fd.rs.      *)
THEOREM UsedStaysOpen == Spec => []Inv
<1>1. ASSUME FdInv PROVE Inv
  <2>1. ASSUME harm = "none", NEW f \in Files, Users(f) # {} \/ Free(f) PROVE table[fd[f].num] = f
    <3>1. Placed
      BY <1>1, <2>1 DEF FdInv
    <3>2. Alive(f) /\ fd[f].closer \notin {"done", "failed"}
      BY <2>1, <3>1 DEF Alive, Free, Placed, Alone
    <3> QED BY <3>1, <3>2 DEF Placed, AliveIsOpen
  <2> QED BY <1>1, <2>1 DEF Inv, UsedIsOpen, FdInv
<1>2. FdInv => Inv
  BY <1>1
<1> QED BY <1>2, FdInvAlways, PTL

(* A file that is open is owned, or made and not taken yet, or to be       *)
(* closed, or its request could not be pushed: Operation::cleanup of every *)
(* operation that makes a descriptor, and the drop of its owners.          *)
THEOREM NothingLeaks == Spec => []NoneLeaked
<1>1. FdInv => NoneLeaked
  BY DEF FdInv, Placed, NoneLeaked
<1> QED BY <1>1, FdInvAlways, PTL

=============================================================================
