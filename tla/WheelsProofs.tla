---------------------------- MODULE WheelsProofs ----------------------------
(***************************************************************************)
(* Proofs about the timer driver: the laws of the arithmetic of WheelMath, *)
(* that what expires next comes before all else, that the invariants of    *)
(* Wheels hold, and that the wheels implement the flat set of sleeps of    *)
(* FlatTimers, for sleeps of less than a rotation (ShortSleeps in Wheels); *)
(* and that the bit operations of the code are that arithmetic.            *)
(***************************************************************************)
EXTENDS Wheels, WheelBits, WellFoundedInduction, NaturalsInduction, TLAPS

-----------------------------------------------------------------------------
(* Powers.  A law of a function defined by recursion is proved from the    *)
(* least number for which it fails.                                        *)

(* A set of numbers has a least one, where it has any. *)
LEMMA LeastNumber ==
  ASSUME NEW T \in SUBSET Nat, T # {}
  PROVE  \E m \in T : \A k \in T : m <= k
<1>1. PICK m \in T : \A k \in T : ~ (<<k, m>> \in OpToRel(<, Nat))
  BY NatLessThanWellFounded, WFMin, Zenon
<1>2. \A k \in T : ~(k < m)
  BY <1>1 DEF OpToRel
<1> QED BY <1>2

(* The powers of a base up to the n-th. *)
Powers(base, n, g) == g = [l \in 0..n |-> IF l = 0 THEN 1 ELSE base * g[l - 1]]

(* What the entries of such a table are. *)
LEMMA PowersAt ==
  ASSUME NEW base, NEW n \in Nat, NEW g, Powers(base, n, g), NEW l \in 0..n
  PROVE  g[l] = IF l = 0 THEN 1 ELSE base * g[l - 1]
<1> DEFINE h == [k \in 0..n |-> IF k = 0 THEN 1 ELSE base * g[k - 1]]
<1>1. h[l] = IF l = 0 THEN 1 ELSE base * g[l - 1]
  OBVIOUS
<1>2. g = h
  BY Zenon DEF Powers
<1> QED BY <1>1, <1>2, Zenon

(* There is a table of any length. *)
LEMMA PowersExist == ASSUME NEW base PROVE \A n \in Nat : \E g : Powers(base, n, g)
<1> DEFINE T == {n \in Nat : ~ \E g : Powers(base, n, g)}
<1>1. SUFFICES ASSUME T # {} PROVE FALSE
  OBVIOUS
<1>2. PICK m \in T : \A k \in T : m <= k
  BY <1>1, LeastNumber
<1>3. CASE m = 0
  <2> DEFINE g == [l \in 0..0 |-> 1]
  <2>1. Powers(base, 0, g)
    BY DEF Powers
  <2> QED BY <2>1, <1>2, <1>3
<1>4. CASE m # 0
  <2>1. m - 1 \in Nat /\ m - 1 \notin T
    BY <1>2, <1>4
  <2>2. PICK g : Powers(base, m - 1, g)
    BY <2>1
  <2> DEFINE h == [l \in 0..m |-> IF l = 0 THEN 1 ELSE base * g[l - 1]]
  <2>3. \A l \in 0..(m - 1) : h[l] = g[l]
    <3>1. \A l \in 0..(m - 1) : h[l] = IF l = 0 THEN 1 ELSE base * g[l - 1]
      BY <2>1
    <3>2. \A l \in 0..(m - 1) : g[l] = IF l = 0 THEN 1 ELSE base * g[l - 1]
      BY <2>1, <2>2, PowersAt
    <3> QED BY <3>1, <3>2
  <2>4. Powers(base, m, h)
    <3>1. \A l \in 0..m : (IF l = 0 THEN 1 ELSE base * g[l - 1])
                        = (IF l = 0 THEN 1 ELSE base * h[l - 1])
      BY <2>3, <2>1
    <3> QED BY <3>1 DEF Powers
  <2> QED BY <2>4, <1>2
<1> QED BY <1>3, <1>4

(* Two tables agree as far as both go. *)
LEMMA PowersUnique ==
  ASSUME NEW base, NEW n \in Nat, NEW m \in Nat, NEW f, NEW g, Powers(base, n, f), Powers(base, m, g)
  PROVE  \A l \in Nat : l <= n /\ l <= m => f[l] = g[l]
<1> DEFINE T == {l \in Nat : l <= n /\ l <= m /\ f[l] # g[l]}
<1>1. SUFFICES ASSUME T # {} PROVE FALSE
  OBVIOUS
<1>2. PICK l \in T : \A k \in T : l <= k
  BY <1>1, LeastNumber
<1>3. /\ f[l] = (IF l = 0 THEN 1 ELSE base * f[l - 1])
      /\ g[l] = (IF l = 0 THEN 1 ELSE base * g[l - 1])
  <2>1. l \in 0..n /\ l \in 0..m
    OBVIOUS
  <2> QED BY <2>1, PowersAt
<1>4. l # 0 => f[l - 1] = g[l - 1]
  BY <1>2
<1> QED BY <1>3, <1>4

(* Power is the function that its recursive definition describes. *)
LEMMA PowerLaw ==
  ASSUME NEW base
  PROVE  Power(base)[0] = 1 /\ \A l \in Nat : Power(base)[l + 1] = base * Power(base)[l]
<1> DEFINE G(n) == CHOOSE g : Powers(base, n, g)
           P == [l \in Nat |-> G(l)[l]]
<1>1. \A n \in Nat : Powers(base, n, G(n))
  BY PowersExist
<1>2. \A l \in Nat : l # 0 => l - 1 \in Nat /\ G(l)[l - 1] = G(l - 1)[l - 1]
  <2> HIDE DEF G
  <2> SUFFICES ASSUME NEW l \in Nat, l # 0 PROVE l - 1 \in Nat /\ G(l)[l - 1] = G(l - 1)[l - 1]
    OBVIOUS
  <2>1. l - 1 \in Nat /\ l - 1 <= l - 1 /\ l - 1 <= l
    OBVIOUS
  <2> QED BY <1>1, <2>1, PowersUnique
<1>3. \A l \in Nat : P[l] = IF l = 0 THEN 1 ELSE base * P[l - 1]
  <2> HIDE DEF G
  <2>1. \A l \in Nat : G(l)[l] = IF l = 0 THEN 1 ELSE base * G(l)[l - 1]
    BY <1>1, PowersAt
  <2> QED BY <1>2, <2>1
<1>4. P = [l \in Nat |-> IF l = 0 THEN 1 ELSE base * P[l - 1]]
  <2> HIDE DEF G
  <2>1. P = [l \in Nat |-> P[l]]
    OBVIOUS
  <2> QED BY <1>3, <2>1
<1>5. Power(base) = [l \in Nat |-> IF l = 0 THEN 1 ELSE base * Power(base)[l - 1]]
  <2> HIDE DEF P
  <2> QED BY <1>4, Zenon DEF Power
<1>6. \A l \in Nat : Power(base)[l] = IF l = 0 THEN 1 ELSE base * Power(base)[l - 1]
  <2> DEFINE h == [l \in Nat |-> IF l = 0 THEN 1 ELSE base * Power(base)[l - 1]]
  <2>1. \A l \in Nat : h[l] = IF l = 0 THEN 1 ELSE base * Power(base)[l - 1]
    OBVIOUS
  <2>2. Power(base) = h BY <1>5, Zenon
  <2> HIDE DEF h
  <2> QED BY <2>1, <2>2, Zenon
<1> QED BY <1>6

(* The powers of a positive number are positive. *)
LEMMA PowerPositive ==
  ASSUME NEW base \in Nat, base > 0
  PROVE  \A l \in Nat : Power(base)[l] \in Nat /\ Power(base)[l] > 0
<1> DEFINE T == {l \in Nat : ~(Power(base)[l] \in Nat /\ Power(base)[l] > 0)}
<1>1. ASSUME T # {} PROVE FALSE
  <2>1. PICK m \in T : \A k \in T : m <= k
    BY <1>1, LeastNumber
  <2>2. m # 0
    BY <2>1, PowerLaw
  <2>3. m - 1 \in Nat /\ Power(base)[m - 1] \in Nat /\ Power(base)[m - 1] > 0
    BY <2>1, <2>2
  <2>4. Power(base)[m] = base * Power(base)[m - 1]
    BY <2>3, PowerLaw
  <2>5. \A a, b \in Nat : a > 0 /\ b > 0 => a * b \in Nat /\ a * b > 0
    OBVIOUS
  <2> QED BY <2>1, <2>3, <2>4, <2>5
<1> QED BY <1>1

(* The ranges of slots: 1 on the first level, Slots times that of the      *)
(* level below on any other.                                               *)
LEMMA SlotRanges ==
  /\ SlotRange(0) = 1
  /\ \A l \in Nat : SlotRange(l) \in Nat /\ SlotRange(l) > 0
  /\ \A l \in Nat : SlotRange(l + 1) = LevelRange(l)
<1>1. Slots \in Nat /\ Slots > 0
  BY WheelMathAssumption
<1> QED BY <1>1, PowerLaw, PowerPositive DEF SlotRange, LevelRange

-----------------------------------------------------------------------------
(* Quotients.                                                              *)

(* A number is what its quotient and its remainder say. *)
LEMMA Division ==
  ASSUME NEW n \in Nat, NEW d \in Nat, d > 0
  PROVE  /\ n \div d \in Nat
         /\ n % d \in 0..(d - 1)
         /\ n = d * (n \div d) + (n % d)
OBVIOUS

(* A product is at most a number when its factor is at most the quotient. *)
LEMMA QuotientAtLeast ==
  ASSUME NEW n \in Nat, NEW d \in Nat, d > 0, NEW b \in Nat
  PROVE  d * b <= n <=> b <= n \div d
<1> DEFINE q == n \div d
           r == n % d
<1>1. q \in Nat /\ r \in 0..(d - 1) /\ n = d * q + r
  BY Division
<1> HIDE DEF q, r
<1>2. ASSUME b <= q PROVE d * b <= n
  <2>1. PICK e \in Nat : q = b + e
    <3>1. q - b \in Nat /\ q = b + (q - b)
      BY <1>1, <1>2
    <3> QED BY <3>1
  <2>2. d * q = d * b + d * e /\ d * e \in Nat /\ d * b \in Nat
    BY <2>1
  <2> QED BY <1>1, <2>2
<1>3. ASSUME b > q PROVE d * b > n
  <2>1. PICK e \in Nat : b = q + 1 + e
    <3>1. b - q - 1 \in Nat /\ b = q + 1 + (b - q - 1)
      BY <1>1, <1>3
    <3> QED BY <3>1
  <2>2. d * b = d * q + d + d * e /\ d * e \in Nat /\ d * q \in Nat
    BY <2>1, <1>1
  <2> QED BY <1>1, <2>2
<1>4. d * b \in Nat
  OBVIOUS
<1> QED BY <1>1, <1>2, <1>3, <1>4 DEF q

(* Two quotients one after the other are one. *)
LEMMA QuotientOfQuotient ==
  ASSUME NEW n \in Nat, NEW d \in Nat, d > 0, NEW e \in Nat, e > 0
  PROVE  (n \div d) \div e = n \div (e * d)
<1> DEFINE a == (n \div d) \div e
           b == n \div (e * d)
<1>1. e * d \in Nat /\ e * d > 0
  OBVIOUS
<1>2. n \div d \in Nat /\ a \in Nat /\ b \in Nat
  BY <1>1, Division
<1>3. ASSUME NEW c \in Nat PROVE c <= a <=> c <= b
  <2>1. c <= a <=> e * c <= n \div d
    BY <1>2, QuotientAtLeast
  <2>2. e * c \in Nat
    OBVIOUS
  <2>3. e * c <= n \div d <=> d * (e * c) <= n
    BY <2>2, QuotientAtLeast
  <2>4. (e * d) * c <= n <=> c <= b
    BY <1>1, QuotientAtLeast
  <2>5. d * (e * c) = (e * d) * c
    OBVIOUS
  <2> QED BY <2>1, <2>3, <2>4, <2>5
<1>4. a <= b /\ b <= a
  BY <1>2, <1>3
<1> HIDE DEF a, b
<1>5. a = b
  BY <1>2, <1>4
<1> QED BY <1>5 DEF a, b

-----------------------------------------------------------------------------
(* The digits of ticks.                                                    *)

(* A tick without its last l digits. *)
Upper(n, l) == n \div SlotRange(l)

(* It is a number; all the digits are the tick. *)
LEMMA UpperType ==
  ASSUME NEW n \in Nat, NEW l \in Nat
  PROVE  Upper(n, l) \in Nat /\ Upper(n, 0) = n
<1>1. SlotRange(l) \in Nat /\ SlotRange(l) > 0 /\ SlotRange(0) = 1
  BY SlotRanges
<1>2. n \div 1 = n
  OBVIOUS
<1>3. \A d \in Nat : d > 0 => n \div d \in Nat
  BY Division
<1> QED BY <1>1, <1>2, <1>3 DEF Upper

(* The last digit of what is left is the slot. *)
LEMMA UpperNext ==
  ASSUME NEW n \in Nat, NEW l \in Nat
  PROVE  /\ Upper(n, l) = Slots * Upper(n, l + 1) + SlotFor(n, l)
         /\ SlotFor(n, l) \in Slot
         /\ Upper(n, l + 1) = n \div LevelRange(l)
<1>1. SlotRange(l) \in Nat /\ SlotRange(l) > 0 /\ SlotRange(l + 1) = Slots * SlotRange(l)
  BY SlotRanges DEF LevelRange
<1>2. Slots \in Nat /\ Slots > 0
  BY WheelMathAssumption
<1>3. Upper(n, l) \div Slots = Upper(n, l + 1)
  BY <1>1, <1>2, QuotientOfQuotient DEF Upper
<1>4. Upper(n, l) \in Nat
  BY UpperType
<1>5. /\ Upper(n, l) = Slots * (Upper(n, l) \div Slots) + (Upper(n, l) % Slots)
      /\ Upper(n, l) % Slots \in 0..(Slots - 1)
  BY <1>2, <1>4, Division
<1>6. SlotFor(n, l) = Upper(n, l) % Slots
  BY DEF SlotFor, Upper
<1>7. Upper(n, l + 1) = n \div LevelRange(l)
  BY <1>1 DEF Upper, LevelRange
<1> QED BY <1>3, <1>5, <1>6, <1>7 DEF Slot

(* Where a slot of a level starts. *)
LEMMA UpperAtLeast ==
  ASSUME NEW n \in Nat, NEW l \in Nat, NEW b \in Nat
  PROVE  SlotRange(l) * b <= n <=> b <= Upper(n, l)
BY SlotRanges, QuotientAtLeast DEF Upper

(* A later tick has no smaller digits. *)
LEMMA UpperMonotone ==
  ASSUME NEW m \in Nat, NEW n \in Nat, m <= n, NEW l \in Nat
  PROVE  Upper(m, l) <= Upper(n, l)
<1>1. Upper(m, l) \in Nat
  BY UpperType
<1>2. SlotRange(l) * Upper(m, l) <= m
  BY <1>1, UpperAtLeast
<1>3. SlotRange(l) * Upper(m, l) \in Nat
  BY <1>1, SlotRanges
<1>4. SlotRange(l) * Upper(m, l) <= n
  BY <1>2, <1>3
<1> QED BY <1>1, <1>4, UpperAtLeast

(* Ticks whose digits agree from a level on agree above it too. *)
LEMMA SameAbove ==
  ASSUME NEW m \in Nat, NEW n \in Nat, NEW j \in Nat, NEW l \in Nat, j <= l,
         Upper(m, j) = Upper(n, j)
  PROVE  Upper(m, l) = Upper(n, l)
<1> DEFINE T == {i \in Nat : j <= i /\ Upper(m, i) # Upper(n, i)}
<1>1. SUFFICES ASSUME T # {} PROVE FALSE
  OBVIOUS
<1>2. PICK i \in T : \A k \in T : i <= k
  BY <1>1, LeastNumber
<1>3. i # j /\ i - 1 \in Nat /\ j <= i - 1 /\ i = (i - 1) + 1
  BY <1>2
<1>4. Upper(m, i - 1) = Upper(n, i - 1)
  <2>1. i - 1 \notin T
    BY <1>2, <1>3
  <2> QED BY <2>1, <1>3
<1>5. SlotRange(i - 1) \in Nat /\ SlotRange(i - 1) > 0 /\ SlotRange(i) = Slots * SlotRange(i - 1)
  <2>1. SlotRange((i - 1) + 1) = Slots * SlotRange(i - 1)
    BY <1>3, SlotRanges DEF LevelRange
  <2> QED BY <1>3, <2>1, SlotRanges
<1>6. Slots \in Nat /\ Slots > 0
  BY WheelMathAssumption
<1>7. /\ Upper(m, i) = Upper(m, i - 1) \div Slots
      /\ Upper(n, i) = Upper(n, i - 1) \div Slots
  BY <1>5, <1>6, QuotientOfQuotient DEF Upper
<1> QED BY <1>2, <1>4, <1>7

-----------------------------------------------------------------------------
(* Where a tick lies.                                                      *)

(* Level l has the highest digit in which the ticks differ, the last level *)
(* whatever lies above.                                                    *)
Highest(now, when, l) ==
  /\ Upper(now, l) < Upper(when, l)
  /\ l # Levels - 1 => Upper(now, l + 1) = Upper(when, l + 1)

(* WheelFor finds that level. *)
LEMMA WheelForHighest ==
  ASSUME NEW now \in Nat, NEW when \in Nat, now < when
  PROVE  WheelFor(now, when) \in Level /\ Highest(now, when, WheelFor(now, when))
<1> DEFINE same == {l \in 0..(Levels - 1) :
                     now \div LevelRange(l) = when \div LevelRange(l)}
           w == WheelFor(now, when)
<1>1. Level \subseteq Nat /\ Levels \in Nat /\ Levels > 0 /\ Levels - 1 \in Level
  BY WheelMathAssumption DEF Level
<1>2. w = IF same = {} THEN Levels - 1 ELSE CHOOSE l \in same : \A k \in same : l <= k
  BY Zenon DEF WheelFor
<1>3. same \subseteq Level /\ \A l \in Level : l \in same <=> Upper(now, l + 1) = Upper(when, l + 1)
  <2>1. \A l \in Level : /\ Upper(now, l + 1) = now \div LevelRange(l)
                         /\ Upper(when, l + 1) = when \div LevelRange(l)
    BY <1>1, UpperNext
  <2> QED BY <2>1 DEF Level
<1> HIDE DEF same
<1>4. same # {} => w \in same /\ \A k \in same : w <= k
  <2>1. same # {} => \E l \in same : \A k \in same : l <= k
    BY <1>3, <1>1, LeastNumber
  <2> HIDE DEF w
  <2> QED BY <1>2, <2>1, Zenon
<1> HIDE DEF w
<1>5. w \in Level
  BY <1>3, <1>1, <1>2, <1>4
<1>6. w # Levels - 1 => Upper(now, w + 1) = Upper(when, w + 1)
  BY <1>3, <1>2, <1>4
<1>7. Upper(now, w) # Upper(when, w)
  <2>1. CASE w = 0
    BY <2>1, UpperType
  <2>2. CASE w # 0
    <3>1. w - 1 \in Level /\ w - 1 \in Nat /\ (w - 1) + 1 = w
      BY <1>1, <1>5, <2>2 DEF Level
    <3>2. w - 1 \notin same
      <4>1. CASE same = {}
        BY <4>1
      <4>2. CASE same # {}
        <5>1. ~(w <= w - 1)
          BY <3>1
        <5> QED BY <1>4, <4>2, <5>1
      <4> QED BY <4>1, <4>2
    <3> QED BY <1>3, <3>1, <3>2
  <2> QED BY <2>1, <2>2
<1>8. Upper(now, w) <= Upper(when, w) /\ Upper(now, w) \in Nat /\ Upper(when, w) \in Nat
  <2>1. w \in Nat /\ now <= when
    BY <1>1, <1>5
  <2>2. Upper(now, w) <= Upper(when, w)
    BY <2>1, UpperMonotone
  <2> QED BY <2>1, <2>2, UpperType
<1>9. Upper(now, w) < Upper(when, w)
  BY <1>7, <1>8
<1> QED BY <1>5, <1>6, <1>9 DEF Highest, w

(* There is only one such level. *)
LEMMA HighestUnique ==
  ASSUME NEW now \in Nat, NEW when \in Nat, NEW l \in Level, NEW k \in Level,
         Highest(now, when, l), Highest(now, when, k)
  PROVE  l = k
<1>1. ASSUME NEW i \in Level, NEW j \in Level, Highest(now, when, i),
             Highest(now, when, j)
      PROVE  ~(i < j)
  <2>1. SUFFICES ASSUME i < j PROVE FALSE
    OBVIOUS
  <2>2. i \in Nat /\ j \in Nat /\ i + 1 \in Nat /\ i + 1 <= j /\ i # Levels - 1
    BY <2>1, WheelMathAssumption DEF Level
  <2>3. Upper(now, i + 1) = Upper(when, i + 1)
    BY <1>1, <2>2 DEF Highest
  <2>4. Upper(now, j) = Upper(when, j)
    BY <2>2, <2>3, SameAbove
  <2>5. Upper(now, j) \in Nat /\ Upper(now, j) < Upper(when, j)
    BY <1>1, <2>2, UpperType DEF Highest
  <2> QED BY <2>4, <2>5
<1>2. l \in Nat /\ k \in Nat
  BY WheelMathAssumption DEF Level
<1> QED BY <1>1, <1>2

(* A level is the one of an entry exactly when it is the highest one in    *)
(* which the deadline and the present differ.                              *)
LEMMA WheelForIs ==
  ASSUME NEW now \in Nat, NEW when \in Nat, now < when, NEW l \in Level
  PROVE  Highest(now, when, l) <=> WheelFor(now, when) = l
BY WheelForHighest, HighestUnique

(* An entry stays where it is as long as its slot does not begin. *)
LEMMA StillPlaced ==
  ASSUME NEW now \in Nat, NEW when \in Nat, now < when, NEW x \in Nat, now <= x,
         x < SlotRange(WheelFor(now, when)) * Upper(when, WheelFor(now, when))
  PROVE  x < when /\ Place(x, when) = Place(now, when)
<1> DEFINE w == WheelFor(now, when)
<1>1. w \in Level /\ w \in Nat /\ w + 1 \in Nat /\ Highest(now, when, w)
  BY WheelForHighest, WheelMathAssumption DEF Level
<1>2. x < SlotRange(w) * Upper(when, w)
  OBVIOUS
<1> HIDE DEF w
<1>3. Upper(when, w) \in Nat /\ Upper(x, w) \in Nat
  BY <1>1, UpperType
<1>4. SlotRange(w) * Upper(when, w) <= when
  BY <1>1, <1>3, UpperAtLeast
<1>5. SlotRange(w) * Upper(when, w) \in Nat
  BY <1>1, <1>3, SlotRanges
<1>6. x < when
  BY <1>2, <1>4, <1>5
<1>7. Upper(x, w) < Upper(when, w)
  <2>1. ~(SlotRange(w) * Upper(when, w) <= x)
    BY <1>2, <1>5
  <2>2. ~(Upper(when, w) <= Upper(x, w))
    BY <2>1, <1>1, <1>3, UpperAtLeast
  <2> QED BY <2>2, <1>3
<1>8. w # Levels - 1 => Upper(x, w + 1) = Upper(when, w + 1)
  <2>1. Upper(now, w + 1) <= Upper(x, w + 1) /\ Upper(x, w + 1) <= Upper(when, w + 1)
    BY <1>1, <1>6, UpperMonotone
  <2>2. Upper(x, w + 1) \in Nat /\ Upper(when, w + 1) \in Nat
    BY <1>1, UpperType
  <2> QED BY <1>1, <2>1, <2>2 DEF Highest
<1>9. WheelFor(x, when) = w
  <2>1. Highest(x, when, w)
    BY <1>7, <1>8 DEF Highest
  <2> QED BY <1>1, <1>6, <2>1, WheelForIs
<1> QED BY <1>6, <1>9 DEF Place, w

(* A deadline ahead of a tick, within the reach of the wheels. *)
Within(now, when) == now < when /\ when <= now + Horizon

(* How many slots ahead a slot lies, as NextSlot counts them. *)
Ahead(s, l, now) == (s + Slots - SlotFor(now, l)) % Slots

(* The last level tells apart whatever is within reach. *)
LEMMA FewAhead ==
  ASSUME NEW now \in Nat, NEW when \in Nat, Within(now, when), NEW l \in Level,
         Highest(now, when, l)
  PROVE  Upper(when, l) - Upper(now, l) \in 1..(Slots - 1)
<1>1. l \in Nat /\ l + 1 \in Nat /\ Slots \in Nat /\ Slots > 1
  BY WheelMathAssumption DEF Level
<1>2. Upper(now, l) \in Nat /\ Upper(when, l) \in Nat /\ Upper(now, l) < Upper(when, l)
  BY <1>1, UpperType DEF Highest
<1>3. CASE l # Levels - 1
  <2>1. Upper(now, l + 1) = Upper(when, l + 1) /\ Upper(now, l + 1) \in Nat
    BY <1>1, <1>3, UpperType DEF Highest
  <2>2. /\ Upper(now, l) = Slots * Upper(now, l + 1) + SlotFor(now, l)
        /\ Upper(when, l) = Slots * Upper(when, l + 1) + SlotFor(when, l)
        /\ SlotFor(now, l) \in Slot /\ SlotFor(when, l) \in Slot
    BY <1>1, UpperNext
  <2>3. Slots * Upper(now, l + 1) \in Nat
    BY <1>1, <2>1
  <2> QED BY <1>1, <1>2, <2>1, <2>2, <2>3 DEF Slot
<1>4. CASE l = Levels - 1
  <2> DEFINE r == SlotRange(l)
             u == Upper(now, l)
  <2>1. r \in Nat /\ r > 0 /\ when <= now + (Slots - 1) * r
    BY <1>1, <1>4, SlotRanges DEF Within, Horizon
  <2>2. ~(u + Slots <= Upper(when, l))
    <3>1. SUFFICES ASSUME u + Slots <= Upper(when, l) PROVE FALSE
      OBVIOUS
    <3>2. u + Slots \in Nat /\ u + 1 \in Nat
      BY <1>1, <1>2
    <3>3. r * (u + Slots) <= when
      BY <1>1, <3>1, <3>2, UpperAtLeast
    <3>4. r * (u + Slots) = r * (u + 1) + (Slots - 1) * r
      BY <1>1, <1>2, <2>1
    <3>5. r * (u + 1) \in Nat /\ (Slots - 1) * r \in Nat
      BY <1>1, <1>2, <2>1
    <3> HIDE DEF r, u
    <3>6. r * (u + 1) <= now
      BY <2>1, <3>3, <3>4, <3>5
    <3>7. u + 1 <= u
      BY <1>1, <3>2, <3>6, UpperAtLeast DEF r, u
    <3> QED BY <1>2, <3>7 DEF u
  <2> QED BY <1>1, <1>2, <2>2
<1> QED BY <1>3, <1>4

(* Ticks that are less than a rotation of a level apart: how their digits   *)
(* on that level relate, and that NextSlot counts the slots between them.   *)
LEMMA DigitsApart ==
  ASSUME NEW now \in Nat, NEW when \in Nat, NEW l \in Nat,
         Upper(when, l) - Upper(now, l) \in 1..(Slots - 1)
  PROVE  /\ \/ Upper(when, l + 1) = Upper(now, l + 1) /\ SlotFor(now, l) < SlotFor(when, l)
            \/ Upper(when, l + 1) = Upper(now, l + 1) + 1 /\ SlotFor(when, l) < SlotFor(now, l)
         /\ Ahead(SlotFor(when, l), l, now) = Upper(when, l) - Upper(now, l)
<1>1. PICK a \in Nat, b \in Nat, c \in Nat, d \in Nat, s \in Slot, r \in Slot :
        /\ a = Upper(when, l) /\ b = Upper(now, l)
        /\ c = Upper(when, l + 1) /\ d = Upper(now, l + 1)
        /\ s = SlotFor(when, l) /\ r = SlotFor(now, l)
  <2>1. l + 1 \in Nat
    OBVIOUS
  <2> QED BY <2>1, UpperType, UpperNext
<1>2. a = Slots * c + s /\ b = Slots * d + r /\ a - b \in 1..(Slots - 1)
  BY <1>1, UpperNext
<1>3. Slots \in Nat /\ Slots > 1 /\ s \in 0..(Slots - 1) /\ r \in 0..(Slots - 1)
  BY WheelMathAssumption DEF Slot
<1>4. c = d \/ c = d + 1
  <2>1. ~(c < d)
    <3>1. ASSUME c < d PROVE FALSE
      <4>1. PICK e \in Nat : d = c + 1 + e
        <5>1. d - c - 1 \in Nat /\ d = c + 1 + (d - c - 1)
          BY <3>1
        <5> QED BY <5>1
      <4>2. Slots * d = Slots * c + Slots + Slots * e
        BY <1>3, <4>1
      <4>3. Slots * c \in Nat /\ Slots * e \in Nat
        BY <1>3, <4>1
      <4> QED BY <1>3, <1>2, <4>2, <4>3
    <3> QED BY <3>1
  <2>2. ~(c > d + 1)
    <3>1. ASSUME c > d + 1 PROVE FALSE
      <4>1. PICK e \in Nat : c = d + 2 + e
        <5>1. c - d - 2 \in Nat /\ c = d + 2 + (c - d - 2)
          BY <3>1
        <5> QED BY <5>1
      <4>2. Slots * c = Slots * d + 2 * Slots + Slots * e
        BY <1>3, <4>1
      <4>3. Slots * d \in Nat /\ Slots * e \in Nat
        BY <1>3, <4>1
      <4> QED BY <1>3, <1>2, <4>2, <4>3
    <3> QED BY <3>1
  <2> QED BY <2>1, <2>2
<1>5. Slots * d \in Nat /\ Slots * (d + 1) = Slots * d + Slots
  BY <1>3
<1>6. ASSUME c = d PROVE r < s /\ (s + Slots - r) % Slots = a - b
  <2>1. a - b = s - r /\ s - r \in 1..(Slots - 1)
    BY <1>3, <1>2, <1>5, <1>6
  <2>2. \A x \in 0..(Slots - 1) : (x + Slots) % Slots = x
    BY <1>3
  <2>3. s + Slots - r = (s - r) + Slots
    BY <1>3
  <2> QED BY <1>3, <1>6, <2>1, <2>2, <2>3
<1>7. ASSUME c = d + 1 PROVE s < r /\ (s + Slots - r) % Slots = a - b
  <2>1. a - b = s + Slots - r /\ s + Slots - r \in 1..(Slots - 1)
    BY <1>3, <1>2, <1>5, <1>7
  <2>2. \A x \in 0..(Slots - 1) : x % Slots = x
    BY <1>3
  <2> QED BY <1>3, <1>7, <2>1, <2>2
<1>8. /\ (c = d /\ r < s) \/ (c = d + 1 /\ s < r)
      /\ (s + Slots - r) % Slots = a - b
  BY <1>4, <1>6, <1>7
<1> QED BY <1>1, <1>8 DEF Ahead

(* The tick at which the slot of a deadline begins. *)
Begin(when, l) == SlotRange(l) * Upper(when, l)

(* SlotDeadline computes it, and it lies ahead, at most at the deadline.   *)
LEMMA SlotBegins ==
  ASSUME NEW now \in Nat, NEW when \in Nat, Within(now, when), NEW l \in Level,
         Highest(now, when, l), NEW s, s = SlotFor(when, l)
  PROVE  /\ s \in Slot
         /\ SlotDeadline(l, s, now) = Begin(when, l)
         /\ SlotStart(l, s, now) <= now => l = Levels - 1
         /\ Begin(when, l) \in Nat /\ now < Begin(when, l) /\ Begin(when, l) <= when
         /\ l = 0 => Begin(when, l) = when
         /\ Ahead(s, l, now) = Upper(when, l) - Upper(now, l)
<1> DEFINE r == SlotRange(l)
           a == Upper(when, l)
           b == Upper(now, l)
           c == Upper(when, l + 1)
           d == Upper(now, l + 1)
           q == SlotFor(now, l)
<1>1. l \in Nat /\ l + 1 \in Nat /\ Slots \in Nat /\ Slots > 1
  BY WheelMathAssumption DEF Level
<1>2. r \in Nat /\ r > 0 /\ LevelRange(l) = Slots * r /\ LevelRange(l) \in Nat /\ LevelRange(l) > 0
  <2>1. r \in Nat /\ r > 0 /\ LevelRange(l) = Slots * r
    BY <1>1, SlotRanges DEF LevelRange
  <2>2. LevelRange(l) = SlotRange(l + 1)
    BY <1>1, SlotRanges
  <2> QED BY <1>1, <2>1, <2>2, SlotRanges
<1>3. a \in Nat /\ b \in Nat /\ c \in Nat /\ d \in Nat /\ b < a
  BY <1>1, UpperType DEF Highest
<1>4. a = Slots * c + s /\ b = Slots * d + q /\ s \in Slot /\ q \in Slot
  BY <1>1, UpperNext
<1>5. a - b \in 1..(Slots - 1)
  BY FewAhead
<1>6. l # Levels - 1 => c = d
  BY DEF Highest
<1>7. now - (now % LevelRange(l)) = (Slots * r) * d
  <2>1. d = now \div LevelRange(l)
    BY <1>1, UpperNext
  <2>2. /\ now = LevelRange(l) * (now \div LevelRange(l)) + (now % LevelRange(l))
        /\ now % LevelRange(l) \in 0..(LevelRange(l) - 1)
    BY <1>2, Division
  <2>3. (Slots * r) * d \in Nat
    BY <1>1, <1>2, <1>3
  <2> HIDE DEF d
  <2>4. now = (Slots * r) * d + (now % LevelRange(l))
    BY <1>2, <2>1, <2>2
  <2>5. now % LevelRange(l) \in Nat
    BY <1>2, <2>2
  <2> QED BY <2>3, <2>4, <2>5
<1>8. r * a <= when /\ r * a > now /\ r * a \in Nat
  <2>1. r * a <= when
    BY <1>1, <1>3, UpperAtLeast
  <2>2. ~(r * a <= now)
    <3>1. r * a <= now <=> a <= b
      BY <1>1, <1>3, UpperAtLeast
    <3> QED BY <1>3, <3>1
  <2>3. r * a \in Nat
    BY <1>2, <1>3
  <2> HIDE DEF r, a
  <2> QED BY <2>1, <2>2, <2>3
<1>9. l = 0 => r * a = when
  BY SlotRanges, UpperType
<1>10. Ahead(s, l, now) = a - b
  BY <1>1, <1>5, DigitsApart
<1>11. (c = d /\ q < s) \/ (c = d + 1 /\ s < q)
  BY <1>1, <1>5, DigitsApart
<1>12. SlotStart(l, s, now) = (Slots * r) * d + s * r
  BY <1>7 DEF SlotStart
<1> HIDE DEF a, b, c, d, q, r
<1>13. CASE c = d
  <2>1. SlotStart(l, s, now) = r * a
    <3>1. s \in Nat
      BY <1>1, <1>4 DEF Slot
    <3> QED BY <1>1, <1>2, <1>3, <1>4, <1>12, <1>13, <3>1
  <2>2. ~(SlotStart(l, s, now) <= now)
    BY <1>8, <2>1
  <2>3. SlotDeadline(l, s, now) = r * a
    BY <2>1, <2>2 DEF SlotDeadline
  <2> QED BY <1>4, <1>8, <1>9, <1>10, <2>2, <2>3 DEF Begin, a, b, r
<1>14. CASE c = d + 1 /\ s < q
  <2>1. s \in Nat /\ q \in Nat
    BY <1>1, <1>4 DEF Slot
  <2>2. SlotStart(l, s, now) = r * (Slots * d + s)
    BY <1>1, <1>2, <1>3, <1>12, <2>1
  <2>3. SlotStart(l, s, now) + LevelRange(l) = r * a
    <3>1. Slots * c = Slots * d + Slots
      BY <1>1, <1>3, <1>14
    <3>2. a = Slots * d + s + Slots
      <4>1. Slots * d \in Nat
        BY <1>1, <1>3
      <4> QED BY <1>1, <1>4, <2>1, <3>1, <4>1
    <3>3. r * (Slots * d + s + Slots) = r * (Slots * d + s) + Slots * r
      BY <1>1, <1>2, <1>3, <2>1
    <3> QED BY <1>2, <2>2, <3>2, <3>3
  <2>4. SlotStart(l, s, now) <= now
    <3>1. Slots * d \in Nat
      BY <1>1, <1>3
    <3>2. Slots * d + s <= b /\ Slots * d + s \in Nat
      BY <1>4, <1>14, <2>1, <3>1
    <3> QED BY <1>1, <2>2, <3>2, UpperAtLeast DEF b, r
  <2>5. SlotDeadline(l, s, now) = r * a
    BY <2>3, <2>4 DEF SlotDeadline
  <2>6. l = Levels - 1
    BY <1>3, <1>6, <1>14
  <2> QED BY <1>4, <1>8, <1>9, <1>10, <2>5, <2>6 DEF Begin, a, b, r
<1> QED BY <1>11, <1>13, <1>14

-----------------------------------------------------------------------------
(* What expires next.                                                      *)

(* Every linked entry lies within reach, where its deadline says. *)
Wheeled(where, due, now) ==
  \A t \in Timers : where[t] # Nowhere =>
    Within(now, due[t]) /\ where[t] = Place(now, due[t])

(* The tick at which the slot of an entry begins. *)
Turn(now, when) == Begin(when, WheelFor(now, when))

(* The level and the slot of an entry, and when that slot begins. *)
LEMMA PlaceIs ==
  ASSUME NEW now \in Nat, NEW when \in Nat, Within(now, when)
  PROVE  \E l \in Level, s \in Slot :
           /\ l = WheelFor(now, when) /\ s = SlotFor(when, l)
           /\ Place(now, when) = <<l, s>>
           /\ Highest(now, when, l)
           /\ SlotDeadline(l, s, now) = Turn(now, when)
           /\ SlotStart(l, s, now) <= now => l = Levels - 1
           /\ Turn(now, when) \in Nat /\ now < Turn(now, when) /\ Turn(now, when) <= when
           /\ l = 0 => Turn(now, when) = when
           /\ Ahead(s, l, now) = Upper(when, l) - Upper(now, l)
<1> DEFINE l == WheelFor(now, when)
<1>1. now < when
  BY DEF Within
<1>2. l \in Level /\ Highest(now, when, l)
  BY <1>1, WheelForHighest
<1>3. Place(now, when) = <<l, SlotFor(when, l)>> /\ Turn(now, when) = Begin(when, l)
  BY DEF Place, Turn
<1> HIDE DEF l
<1> QED BY <1>2, <1>3, SlotBegins DEF l

(* On one level, the slot that lies fewer slots ahead begins first. *)
LEMMA NearerIsSooner ==
  ASSUME NEW l \in Nat, NEW a \in Nat, NEW b \in Nat, Upper(a, l) <= Upper(b, l)
  PROVE  /\ Begin(a, l) <= Begin(b, l)
         /\ SlotFor(a, l) # SlotFor(b, l) => Begin(a, l) < Begin(b, l)
<1> DEFINE r == SlotRange(l)
           x == Upper(a, l)
           y == Upper(b, l)
<1>1. r \in Nat /\ r > 0 /\ x \in Nat /\ y \in Nat /\ x <= y
  BY SlotRanges, UpperType
<1>2. SlotFor(a, l) # SlotFor(b, l) => x # y
  BY DEF SlotFor, Upper
<1> HIDE DEF r, x, y
<1>3. r * x <= r * y /\ (x # y => r * x < r * y)
  <2>1. PICK e \in Nat : y = x + e
    <3>1. y - x \in Nat /\ y = x + (y - x)
      BY <1>1
    <3> QED BY <3>1
  <2>2. r * y = r * x + r * e /\ r * x \in Nat /\ r * e \in Nat
    BY <1>1, <2>1
  <2>3. e > 0 => r * e > 0
    BY <1>1
  <2> QED BY <2>1, <2>2, <2>3, <1>1
<1> QED BY <1>2, <1>3 DEF Begin, r, x, y

(* On a higher level than that of another entry, a slot begins after that  *)
(* entry's deadline.                                                       *)
LEMMA HigherIsLater ==
  ASSUME NEW now \in Nat, NEW a \in Nat, NEW b \in Nat, NEW l \in Level, NEW k \in Level,
         l < k, Highest(now, a, l), Highest(now, b, k)
  PROVE  a < Begin(b, k)
<1>1. l \in Nat /\ k \in Nat /\ l + 1 \in Nat /\ l + 1 <= k /\ l # Levels - 1
  BY WheelMathAssumption DEF Level
<1>2. Upper(now, l + 1) = Upper(a, l + 1)
  BY <1>1 DEF Highest
<1>3. Upper(now, k) = Upper(a, k)
  BY <1>1, <1>2, SameAbove
<1>4. Upper(a, k) \in Nat /\ Upper(b, k) \in Nat /\ Upper(a, k) < Upper(b, k)
  BY <1>1, <1>3, UpperType DEF Highest
<1>5. ~(SlotRange(k) * Upper(b, k) <= a)
  <2>1. ~(Upper(b, k) <= Upper(a, k))
    BY <1>4
  <2> QED BY <1>1, <1>4, <2>1, UpperAtLeast
<1>6. SlotRange(k) * Upper(b, k) \in Nat
  BY <1>1, <1>4, SlotRanges
<1> QED BY <1>5, <1>6 DEF Begin

(* NextSlot is the occupied slot that lies the fewest slots ahead. *)
LEMMA NextSlotIs ==
  ASSUME NEW l \in Level, NEW now \in Nat, NEW occupied \in SUBSET Slot, occupied # {}
  PROVE  /\ NextSlot(occupied, l, now) \in occupied
         /\ \A r \in occupied : Ahead(NextSlot(occupied, l, now), l, now) <= Ahead(r, l, now)
<1>1. \A s \in occupied : Ahead(s, l, now) \in Nat
  <2>1. l \in Nat /\ Slots \in Nat /\ Slots > 0
    BY WheelMathAssumption DEF Level
  <2>2. SlotFor(now, l) \in Slot
    BY <2>1, UpperNext
  <2>3. \A s \in Slot : s + Slots - SlotFor(now, l) \in Nat
    BY <2>1, <2>2 DEF Slot
  <2>4. \A n \in Nat : n % Slots \in Nat
    BY <2>1
  <2> QED BY <2>3, <2>4 DEF Ahead
<1> DEFINE T == {Ahead(s, l, now) : s \in occupied}
<1>2. T \in SUBSET Nat /\ T # {}
  BY <1>1
<1>3. PICK m \in T : \A k \in T : m <= k
  BY <1>2, LeastNumber
<1>4. \E s \in occupied : \A r \in occupied : Ahead(s, l, now) <= Ahead(r, l, now)
  BY <1>3
<1>5. NextSlot(occupied, l, now)
        = CHOOSE s \in occupied : \A r \in occupied : Ahead(s, l, now) <= Ahead(r, l, now)
  BY DEF NextSlot, Ahead
<1> QED BY <1>4, <1>5, Zenon

(* The entry that NextExpiration finds: its level is the lowest one that   *)
(* has an entry, its slot the first of them from the present on.           *)
LEMMA NextIs ==
  ASSUME NEW where, NEW now \in Nat, HasNext(where), NEW next,
         next = NextExpiration(where, now)
  PROVE  /\ next.level \in Level
         /\ next.slot \in Occupied(where, next.level)
         /\ \A k \in Level : Occupied(where, k) # {} => next.level <= k
         /\ \A r \in Occupied(where, next.level) :
              Ahead(next.slot, next.level, now) <= Ahead(r, next.level, now)
         /\ next.deadline = SlotDeadline(next.level, next.slot, now)
<1> DEFINE T == {l \in Level : Occupied(where, l) # {}}
           l == CHOOSE l \in Level : /\ Occupied(where, l) # {}
                                     /\ \A k \in Level : Occupied(where, k) # {} => l <= k
           s == NextSlot(Occupied(where, l), l, now)
<1>1. \E i \in Level : /\ Occupied(where, i) # {}
                       /\ \A k \in Level : Occupied(where, k) # {} => i <= k
  <2>1. T \in SUBSET Nat /\ T # {}
    BY WheelMathAssumption DEF HasNext, Level
  <2>2. PICK m \in T : \A k \in T : m <= k
    BY <2>1, LeastNumber
  <2> QED BY <2>2
<1>2. /\ l \in Level /\ Occupied(where, l) # {}
      /\ \A k \in Level : Occupied(where, k) # {} => l <= k
  BY <1>1, Zenon
<1>3. next = [level |-> l, slot |-> s, deadline |-> SlotDeadline(l, s, now)]
  BY Zenon DEF NextExpiration
<1> HIDE DEF l
<1>4. Occupied(where, l) \in SUBSET Slot
  BY DEF Occupied
<1>5. s \in Occupied(where, l) /\ \A r \in Occupied(where, l) : Ahead(s, l, now) <= Ahead(r, l, now)
  BY <1>2, <1>4, NextSlotIs
<1> HIDE DEF s
<1>6. next.level = l /\ next.slot = s /\ next.deadline = SlotDeadline(l, s, now)
  BY <1>3
<1> QED BY <1>2, <1>5, <1>6

(* What NextExpiration promises, and the rounds of Wheels::advance rely    *)
(* on: the slot it names turns next, and no slot of any entry before; its  *)
(* assertion holds.                                                        *)
THEOREM NextIsFirst ==
  ASSUME NEW where, NEW due \in [Timers -> Nat], NEW now \in Nat,
         Wheeled(where, due, now), HasNext(where),
         NEW next, next = NextExpiration(where, now)
  PROVE  /\ next.deadline \in Nat /\ now < next.deadline
         /\ NextExpirationOk(where, now)
         /\ \A t \in Timers : where[t] # Nowhere =>
              /\ next.deadline <= Turn(now, due[t])
              /\ where[t] # <<next.level, next.slot>> => next.deadline < Turn(now, due[t])
              /\ where[t] = <<next.level, next.slot>> /\ next.level = 0 =>
                   next.deadline = due[t]
<1> DEFINE l == next.level
           s == next.slot
<1>1. /\ l \in Level /\ s \in Occupied(where, l)
      /\ \A k \in Level : Occupied(where, k) # {} => l <= k
      /\ \A r \in Occupied(where, l) : Ahead(s, l, now) <= Ahead(r, l, now)
      /\ next.deadline = SlotDeadline(l, s, now)
  BY NextIs
<1>2. PICK u \in Timers : where[u] = <<l, s>> /\ s \in Slot
  BY <1>1 DEF Occupied
<1> HIDE DEF l, s
<1>3. l \in Nat
  BY <1>1, WheelMathAssumption DEF Level
<1>4. ASSUME NEW t \in Timers, where[t] # Nowhere, NEW k \in Level, NEW r \in Slot,
             where[t] = <<k, r>>
      PROVE  /\ k = WheelFor(now, due[t]) /\ r = SlotFor(due[t], k)
             /\ Highest(now, due[t], k) /\ Turn(now, due[t]) = Begin(due[t], k)
             /\ SlotDeadline(k, r, now) = Turn(now, due[t])
             /\ SlotStart(k, r, now) <= now => k = Levels - 1
             /\ Turn(now, due[t]) \in Nat /\ now < Turn(now, due[t]) /\ Turn(now, due[t]) <= due[t]
             /\ k = 0 => Turn(now, due[t]) = due[t]
             /\ Ahead(r, k, now) = Upper(due[t], k) - Upper(now, k)
  <2>1. Within(now, due[t]) /\ where[t] = Place(now, due[t]) /\ due[t] \in Nat
    BY <1>4 DEF Wheeled
  <2>2. Turn(now, due[t]) = Begin(due[t], WheelFor(now, due[t]))
    BY DEF Turn
  <2> QED BY <1>4, <2>1, <2>2, PlaceIs
<1>5. where[u] # Nowhere
  BY <1>2 DEF Nowhere
<1>6. /\ s = SlotFor(due[u], l) /\ Highest(now, due[u], l)
      /\ Turn(now, due[u]) = Begin(due[u], l) /\ next.deadline = Turn(now, due[u])
      /\ SlotStart(l, s, now) <= now => l = Levels - 1
      /\ next.deadline \in Nat /\ now < next.deadline /\ next.deadline <= due[u]
      /\ Ahead(s, l, now) = Upper(due[u], l) - Upper(now, l)
  BY <1>1, <1>2, <1>4, <1>5
<1>7. NextExpirationOk(where, now)
  BY <1>6 DEF NextExpirationOk, l, s
<1>8. ASSUME NEW t \in Timers, where[t] # Nowhere
      PROVE  /\ next.deadline <= Turn(now, due[t])
             /\ where[t] # <<l, s>> => next.deadline < Turn(now, due[t])
             /\ where[t] = <<l, s>> /\ l = 0 => next.deadline = due[t]
  <2>1. PICK k \in Level, r \in Slot : where[t] = <<k, r>>
    <3>1. Within(now, due[t]) /\ where[t] = Place(now, due[t]) /\ due[t] \in Nat
      BY <1>8 DEF Wheeled
    <3> QED BY <3>1, PlaceIs
  <2>2. /\ r = SlotFor(due[t], k) /\ Highest(now, due[t], k)
        /\ Turn(now, due[t]) = Begin(due[t], k) /\ Turn(now, due[t]) \in Nat
        /\ SlotDeadline(k, r, now) = Turn(now, due[t])
        /\ k = 0 => Turn(now, due[t]) = due[t]
        /\ Ahead(r, k, now) = Upper(due[t], k) - Upper(now, k)
    BY <1>4, <1>8, <2>1
  <2>3. k \in Nat /\ r \in Occupied(where, k) /\ l <= k
    <3>1. k \in Nat
      BY WheelMathAssumption DEF Level
    <3>2. r \in Occupied(where, k)
      BY <2>1 DEF Occupied
    <3> QED BY <1>1, <3>1, <3>2
  <2>4. due[t] \in Nat /\ due[u] \in Nat
    OBVIOUS
  <2>5. CASE k = l
    <3>1. Upper(due[u], l) <= Upper(due[t], l)
      <4>1. Ahead(s, l, now) <= Ahead(r, l, now)
        BY <1>1, <2>3, <2>5
      <4>2. Upper(due[u], l) \in Nat /\ Upper(due[t], l) \in Nat /\ Upper(now, l) \in Nat
        BY <1>3, <2>4, UpperType
      <4> QED BY <1>6, <2>2, <2>5, <4>1, <4>2
    <3>2. /\ Begin(due[u], l) <= Begin(due[t], l)
          /\ SlotFor(due[u], l) # SlotFor(due[t], l) => Begin(due[u], l) < Begin(due[t], l)
      BY <1>3, <2>4, <3>1, NearerIsSooner
    <3>3. where[t] # <<l, s>> => SlotFor(due[u], l) # SlotFor(due[t], l)
      BY <1>6, <2>1, <2>2, <2>5
    <3>4. where[t] = <<l, s>> => r = s
      BY <2>1
    <3> QED BY <1>1, <1>6, <2>2, <2>5, <3>2, <3>3, <3>4
  <2>6. CASE k # l
    <3>1. l < k
      BY <1>3, <2>3, <2>6
    <3>2. due[u] < Turn(now, due[t])
      BY <1>1, <1>6, <2>2, <2>4, <3>1, HigherIsLater
    <3>3. next.deadline < Turn(now, due[t])
      BY <1>6, <2>2, <2>4, <3>2
    <3>4. where[t] # <<l, s>>
      BY <2>1, <2>6
    <3> QED BY <1>6, <2>2, <3>3, <3>4
  <2> QED BY <2>5, <2>6
<1> QED BY <1>6, <1>7, <1>8 DEF l, s

(* An entry stays where it is until its slot turns. *)
LEMMA PlacedUntilTurn ==
  ASSUME NEW now \in Nat, NEW when \in Nat, Within(now, when), NEW x \in Nat, now <= x,
         x < Turn(now, when)
  PROVE  Within(x, when) /\ Place(x, when) = Place(now, when)
<1>1. x < when /\ Place(x, when) = Place(now, when)
  BY StillPlaced DEF Turn, Begin, Within
<1>2. Horizon \in Nat
  <2>1. Levels - 1 \in Nat /\ Slots - 1 \in Nat
    BY WheelMathAssumption
  <2>2. SlotRange(Levels - 1) \in Nat
    BY <2>1, SlotRanges
  <2> QED BY <2>1, <2>2 DEF Horizon
<1> QED BY <1>1, <1>2 DEF Within

-----------------------------------------------------------------------------
(* The inductive invariant.                                                *)

(* A sleep knows its duration, and before its first poll no deadline. *)
SleepInv ==
  \A t \in Timers : /\ state[t] = "Unregistered" => deadline[t] = 0
                    /\ state[t] # "None" => duration[t] \in Durations

(* Linked are the registered entries, but for those to be put back. *)
Listed == \A t \in Timers : Linked(t) <=> state[t] = "Registered" /\ t \notin pending

(* What is put back lies ahead of the tick that the wheels turn to. *)
PendingInv ==
  /\ at # "advance" => pending = {}
  /\ \A t \in pending : state[t] = "Registered" /\ Within(tick, deadline[t])

(* The wheels never run ahead of the clock. *)
ClockInv ==
  IF at = "advance" THEN elapsed <= tick /\ tick = time \div Unit
  ELSE elapsed <= time \div Unit

IInv ==
  /\ TypeOK /\ NoCrash /\ SleepInv /\ SleepsNoLonger
  /\ at # "misused" => Wheeled(place, deadline, elapsed) /\ Listed /\ PendingInv /\ ClockInv

(* Laws of the units. *)
LEMMA Units ==
  /\ Unit \in Nat /\ Unit > 0 /\ Durations \subseteq Nat
  /\ Horizon \in Nat
  /\ \A n \in Nat : n \div Unit \in Nat /\ n \div Unit <= (n + 1) \div Unit
  /\ \A n, k \in Nat : (n + k * Unit) \div Unit = (n \div Unit) + k
<1>1. Unit \in Nat /\ Unit > 0 /\ Durations \subseteq Nat
  BY WheelsAssumption
<1>2. Horizon \in Nat
  <2>1. Levels - 1 \in Nat /\ Slots - 1 \in Nat
    BY WheelMathAssumption
  <2>2. SlotRange(Levels - 1) \in Nat
    BY <2>1, SlotRanges
  <2> QED BY <2>1, <2>2 DEF Horizon
<1>3. ASSUME NEW n \in Nat PROVE n \div Unit \in Nat /\ n \div Unit <= (n + 1) \div Unit
  <2>1. n \div Unit \in Nat /\ n = Unit * (n \div Unit) + (n % Unit) /\ n % Unit \in 0..(Unit - 1)
    BY <1>1, Division
  <2>2. Unit * (n \div Unit) \in Nat
    BY <1>1, <2>1
  <2>3. Unit * (n \div Unit) <= n + 1
    BY <1>1, <2>1, <2>2
  <2> QED BY <1>1, <2>1, <2>3, QuotientAtLeast
<1>4. ASSUME NEW n \in Nat, NEW k \in Nat PROVE (n + k * Unit) \div Unit = (n \div Unit) + k
  <2> DEFINE q == n \div Unit
             r == n % Unit
  <2>1. q \in Nat /\ n = Unit * q + r /\ r \in 0..(Unit - 1)
    BY <1>1, Division
  <2> HIDE DEF q, r
  <2>2. n + k * Unit = Unit * (q + k) + r /\ q + k \in Nat
    BY <1>1, <2>1
  <2>3. \A b \in Nat, s \in 0..(Unit - 1) : (Unit * b + s) \div Unit = b
    BY <1>1
  <2> QED BY <2>1, <2>2, <2>3 DEF q
<1> QED BY <1>1, <1>2, <1>3, <1>4

(* The place of an entry within reach is a level and a slot. *)
LEMMA PlaceType ==
  ASSUME NEW now \in Nat, NEW when \in Nat, Within(now, when)
  PROVE  Place(now, when) \in Level \X Slot /\ Place(now, when) # Nowhere
<1>1. PICK l \in Level, s \in Slot : Place(now, when) = <<l, s>>
  BY PlaceIs
<1> QED BY <1>1 DEF Nowhere

(* The invariant holds at first. *)
LEMMA InitIInv == Init => IInv
<1> SUFFICES ASSUME Init PROVE IInv
  OBVIOUS
<1>1. TypeOK
  BY DEF Init, TypeOK, At, ParkMode, NoPark, Nowhere
<1>2. ClockInv
  <2>1. 0 \div Unit \in Nat
    BY Units
  <2> QED BY <2>1 DEF Init, ClockInv
<1>3. NoCrash /\ SleepInv /\ SleepsNoLonger /\ Listed /\ PendingInv
  BY DEF Init, NoCrash, SleepInv, SleepsNoLonger, Listed, PendingInv, Linked
<1>4. Wheeled(place, deadline, elapsed)
  BY DEF Init, Wheeled
<1> QED BY <1>1, <1>2, <1>3, <1>4 DEF IInv

(* A sleep that starts anew. *)
LEMMA SleepStep ==
  ASSUME IInv, NEW t \in Timers, NEW d \in Durations, Sleep(t, d)
  PROVE  IInv'
<1>1. at \in {"run", "stopped"} /\ at' = at /\ state[t] = "None"
  BY DEF Sleep, Free
<1>2. /\ \A u \in Timers : state'[u] = IF u = t THEN "Unregistered" ELSE state[u]
      /\ \A u \in Timers : duration'[u] = IF u = t THEN d ELSE duration[u]
      /\ \A u \in Timers : deadline'[u] = IF u = t THEN 0 ELSE deadline[u]
      /\ place' = place /\ elapsed' = elapsed /\ pending' = pending /\ tick' = tick
      /\ time' = time
  BY DEF Sleep, IInv, TypeOK, parking
<1>3. TypeOK'
  <2>1. d \in Nat
    BY Units
  <2> QED BY <1>1, <2>1 DEF Sleep, IInv, TypeOK, parking
<1>4. Listed' /\ SleepInv' /\ PendingInv'
  BY <1>1, <1>2 DEF IInv, Listed, SleepInv, PendingInv, Linked
<1>5. Wheeled(place, deadline, elapsed)'
  <2>1. place[t] = Nowhere
    BY <1>1 DEF IInv, Listed, Linked
  <2> QED BY <1>1, <1>2, <2>1 DEF IInv, Wheeled
<1>6. ClockInv' /\ NoCrash' /\ SleepsNoLonger'
  BY <1>1, <1>2 DEF IInv, ClockInv, NoCrash, SleepsNoLonger
<1> QED BY <1>3, <1>4, <1>5, <1>6 DEF IInv

(* A sleep that is polled for the first time: it is in reach. *)
LEMMA PollStep ==
  ASSUME IInv, ShortSleeps, NEW t \in Timers, Poll(t)
  PROVE  IInv'
<1> DEFINE x == elapsed + duration[t] \div Unit
           gone == duration[t] = 0 \/ shutdown \/ x <= elapsed
<1>1. at \in {"run", "stopped"} /\ at' = at /\ state[t] = "Unregistered"
  BY DEF Poll, Free
<1>2. /\ x \in Nat /\ deadline[t] = 0 /\ elapsed \in Nat
      /\ x <= elapsed \/ Within(elapsed, x)
  <2>1. duration[t] \in Durations /\ duration[t] \in Nat /\ elapsed \in Nat
    BY <1>1, Units DEF IInv, SleepInv, TypeOK
  <2>2. duration[t] \div Unit \in Nat /\ duration[t] \div Unit <= Horizon /\ Horizon \in Nat
    BY <2>1, Units DEF ShortSleeps
  <2>3. deadline[t] = 0
    BY <1>1 DEF IInv, SleepInv
  <2> QED BY <2>1, <2>2, <2>3 DEF Within
<1>3. /\ \A u \in Timers : state'[u] = IF u = t THEN (IF gone THEN "Fired" ELSE "Registered")
                                       ELSE state[u]
      /\ \A u \in Timers : deadline'[u] = IF u = t THEN (IF duration[t] = 0 THEN 0 ELSE x)
                                          ELSE deadline[u]
      /\ \A u \in Timers : place'[u] = IF u = t /\ ~gone THEN Place(elapsed, x) ELSE place[u]
      /\ duration' = duration /\ elapsed' = elapsed /\ pending' = pending /\ tick' = tick
      /\ time' = time
  <2>1. /\ deadline' = [deadline EXCEPT ![t] = IF duration[t] = 0 THEN @ ELSE x]
        /\ IF gone THEN state' = [state EXCEPT ![t] = "Fired"] /\ UNCHANGED place
           ELSE /\ state' = [state EXCEPT ![t] = "Registered"]
                /\ place' = [place EXCEPT ![t] = Place(elapsed, x)]
        /\ UNCHANGED <<time, duration, complete, elapsed, shutdown, at, parking>>
    BY Zenon DEF Poll
  <2> HIDE DEF x, gone
  <2> QED BY <1>2, <2>1 DEF IInv, TypeOK, parking
<1>4. TypeOK'
  <2>1. /\ shutdown' = shutdown /\ complete' = complete /\ fired' = fired
        /\ mode' = mode /\ until' = until
    BY DEF Poll, parking
  <2>2. state' \in [Timers -> {"None", "Unregistered", "Registered", "Fired"}]
    BY <1>3 DEF IInv, TypeOK, Poll
  <2>3. deadline' \in [Timers -> Nat]
    BY <1>2, <1>3 DEF IInv, TypeOK, Poll
  <2>4. place' \in [Timers -> {Nowhere} \cup (Level \X Slot)]
    BY <1>2, <1>3, PlaceType DEF IInv, TypeOK, Poll
  <2> QED BY <1>1, <1>3, <2>1, <2>2, <2>3, <2>4 DEF IInv, TypeOK
<1>5. place[t] = Nowhere
  BY <1>1 DEF IInv, Listed, Linked
<1> HIDE DEF x, gone
<1>6. ~gone => Within(elapsed, x) /\ duration[t] # 0 /\ Place(elapsed, x) # Nowhere
  BY <1>2, PlaceType DEF gone
<1>7. Listed' /\ SleepInv' /\ PendingInv'
  BY <1>1, <1>3, <1>5, <1>6 DEF IInv, Listed, SleepInv, PendingInv, Linked
<1>8. Wheeled(place, deadline, elapsed)'
  BY <1>1, <1>3, <1>5, <1>6 DEF IInv, Wheeled
<1>9. ClockInv' /\ NoCrash' /\ SleepsNoLonger'
  BY <1>1, <1>3 DEF IInv, ClockInv, NoCrash, SleepsNoLonger
<1> QED BY <1>4, <1>7, <1>8, <1>9 DEF IInv

(* A sleep that is dropped: its list is the one it is looked for in. *)
LEMMA DropStep ==
  ASSUME IInv, NEW t \in Timers, Drop(t)
  PROVE  /\ IInv'
         /\ state' = [state EXCEPT ![t] = "None"] /\ deadline' = [deadline EXCEPT ![t] = 0]
         /\ at' = at
<1>1. at \in {"run", "stopped"}
  BY DEF Drop, Free
<1>2. ~(state[t] = "Registered" /\ ~Removable(t))
  <2>1. SUFFICES ASSUME state[t] = "Registered" PROVE Removable(t)
    OBVIOUS
  <2>2. Linked(t)
    BY <1>1, <2>1 DEF IInv, Listed, PendingInv
  <2> QED BY <1>1, <2>2 DEF IInv, Wheeled, Linked, Removable
<1>3. /\ state' = [state EXCEPT ![t] = "None"] /\ deadline' = [deadline EXCEPT ![t] = 0]
      /\ place' = [place EXCEPT ![t] = Nowhere]
      /\ UNCHANGED <<duration, complete, at>>
      /\ UNCHANGED <<time, elapsed, shutdown, parking>>
  BY <1>2, Zenon DEF Drop
<1>4. /\ \A u \in Timers : state'[u] = IF u = t THEN "None" ELSE state[u]
      /\ \A u \in Timers : deadline'[u] = IF u = t THEN 0 ELSE deadline[u]
      /\ \A u \in Timers : place'[u] = IF u = t THEN Nowhere ELSE place[u]
      /\ duration' = duration /\ elapsed' = elapsed /\ pending' = pending /\ tick' = tick
      /\ time' = time /\ at' = at
  BY <1>3 DEF IInv, TypeOK, parking
<1>5. TypeOK'
  BY <1>3 DEF IInv, TypeOK, parking
<1>6. Listed' /\ SleepInv' /\ PendingInv'
  BY <1>1, <1>4 DEF IInv, Listed, SleepInv, PendingInv, Linked
<1>7. Wheeled(place, deadline, elapsed)'
  BY <1>1, <1>4 DEF IInv, Wheeled
<1>8. ClockInv' /\ NoCrash' /\ SleepsNoLonger'
  BY <1>1, <1>4 DEF IInv, ClockInv, NoCrash, SleepsNoLonger
<1> QED BY <1>3, <1>5, <1>6, <1>7, <1>8 DEF IInv

(* A sleep that is reset, unless it is registered: that ends the run. *)
LEMMA ResetStep ==
  ASSUME IInv, NEW t \in Timers, Reset(t)
  PROVE  IInv'
<1>1. at \in {"run", "stopped"}
  BY DEF Reset, Free
<1>2. CASE state[t] = "Registered"
  <2>1. /\ at' = "misused" /\ place' = [place EXCEPT ![t] = Nowhere]
        /\ UNCHANGED <<deadline, complete>>
        /\ UNCHANGED <<time, state, duration, elapsed, shutdown, parking>>
    BY <1>2, Zenon DEF Reset
  <2>2. TypeOK'
    BY <2>1 DEF IInv, TypeOK, parking, At
  <2>3. SleepInv' /\ NoCrash' /\ SleepsNoLonger'
    BY <2>1 DEF IInv, SleepInv, NoCrash, SleepsNoLonger
  <2> QED BY <2>1, <2>2, <2>3 DEF IInv
<1>3. CASE state[t] # "Registered"
  <2>1. /\ place' = [place EXCEPT ![t] = Nowhere] /\ deadline' = [deadline EXCEPT ![t] = 0]
        /\ complete' = [complete EXCEPT ![t] = "Ok"] /\ UNCHANGED at
        /\ UNCHANGED <<time, state, duration, elapsed, shutdown, parking>>
    BY <1>3, Zenon DEF Reset
  <2>2. /\ \A u \in Timers : deadline'[u] = IF u = t THEN 0 ELSE deadline[u]
        /\ \A u \in Timers : place'[u] = IF u = t THEN Nowhere ELSE place[u]
        /\ state' = state /\ duration' = duration /\ elapsed' = elapsed /\ pending' = pending
        /\ tick' = tick /\ time' = time /\ at' = at
    BY <2>1 DEF IInv, TypeOK, parking
  <2>3. TypeOK'
    BY <2>1 DEF IInv, TypeOK, parking
  <2>4. Listed' /\ SleepInv' /\ PendingInv'
    BY <1>1, <1>3, <2>2 DEF IInv, Listed, SleepInv, PendingInv, Linked
  <2>5. Wheeled(place, deadline, elapsed)'
    BY <1>1, <2>2 DEF IInv, Wheeled
  <2>6. ClockInv' /\ NoCrash' /\ SleepsNoLonger'
    BY <1>1, <2>2 DEF IInv, ClockInv, NoCrash, SleepsNoLonger
  <2> QED BY <2>3, <2>4, <2>5, <2>6 DEF IInv
<1> QED BY <1>2, <1>3

(* A completion that is handed out. *)
LEMMA PollFiredStep ==
  ASSUME IInv, NEW t \in Timers, PollFired(t)
  PROVE  IInv'
<1>1. /\ complete' = [complete EXCEPT ![t] = "Ok"]
      /\ time' = time /\ state' = state /\ duration' = duration /\ deadline' = deadline
      /\ place' = place /\ elapsed' = elapsed /\ shutdown' = shutdown /\ at' = at
      /\ tick' = tick /\ pending' = pending /\ fired' = fired /\ mode' = mode /\ until' = until
  BY DEF PollFired, parking
<1>2. TypeOK'
  BY <1>1 DEF IInv, TypeOK
<1>3. Listed' = Listed /\ SleepInv' = SleepInv /\ PendingInv' = PendingInv
  BY <1>1 DEF Listed, SleepInv, PendingInv, Linked
<1>4. ClockInv' = ClockInv /\ NoCrash' = NoCrash /\ SleepsNoLonger' = SleepsNoLonger
  BY <1>1 DEF ClockInv, NoCrash, SleepsNoLonger
<1>5. Wheeled(place, deadline, elapsed)' = Wheeled(place, deadline, elapsed)
  BY <1>1 DEF Wheeled
<1> QED BY <1>1, <1>2, <1>3, <1>4, <1>5 DEF IInv

(* The clock goes on. *)
LEMMA TickStep ==
  ASSUME IInv, Tick
  PROVE  IInv'
<1>1. /\ at \in {"run", "asleep"} /\ time' = time + 1
      /\ state' = state /\ duration' = duration /\ deadline' = deadline /\ complete' = complete
      /\ place' = place /\ elapsed' = elapsed /\ shutdown' = shutdown /\ at' = at
      /\ tick' = tick /\ pending' = pending /\ fired' = fired /\ mode' = mode /\ until' = until
  BY DEF Tick, entries, parking
<1>2. TypeOK'
  BY <1>1 DEF IInv, TypeOK
<1>3. Listed' = Listed /\ SleepInv' = SleepInv /\ PendingInv' = PendingInv
  BY <1>1 DEF Listed, SleepInv, PendingInv, Linked
<1>4. NoCrash' = NoCrash /\ SleepsNoLonger' = SleepsNoLonger
  BY <1>1 DEF NoCrash, SleepsNoLonger
<1>5. Wheeled(place, deadline, elapsed)' = Wheeled(place, deadline, elapsed)
  BY <1>1 DEF Wheeled
<1>6. ClockInv'
  <2>1. elapsed <= time \div Unit /\ elapsed \in Nat /\ time \in Nat
    BY <1>1 DEF IInv, ClockInv, TypeOK
  <2>2. /\ time \div Unit \in Nat /\ (time + 1) \div Unit \in Nat
        /\ time \div Unit <= (time + 1) \div Unit
    <3>1. time + 1 \in Nat
      BY <2>1
    <3> QED BY <2>1, <3>1, Units
  <2>3. elapsed <= (time + 1) \div Unit
    BY <2>1, <2>2
  <2> QED BY <1>1, <2>3 DEF ClockInv
<1> QED BY <1>1, <1>2, <1>3, <1>4, <1>5, <1>6 DEF IInv

(* A park reads the clock. *)
LEMMA ParkStep ==
  ASSUME IInv, NEW m \in CallerMode, Park(m)
  PROVE  IInv'
<1>1. /\ at = "run" /\ at' = "advance" /\ tick' = time \div Unit /\ mode' = m
      /\ state' = state /\ duration' = duration /\ deadline' = deadline /\ complete' = complete
      /\ place' = place /\ elapsed' = elapsed /\ shutdown' = shutdown /\ time' = time
      /\ pending' = pending /\ fired' = fired /\ until' = until
  BY DEF Park, entries
<1>2. time \in Nat /\ time \div Unit \in Nat
  BY Units DEF IInv, TypeOK
<1>3. TypeOK'
  <2>1. m \in ParkMode
    BY DEF CallerMode, ParkMode, NoPark, NextCompletion, Timeout
  <2> QED BY <1>1, <1>2, <2>1 DEF IInv, TypeOK, At
<1>4. Listed' = Listed /\ SleepInv' = SleepInv
  BY <1>1 DEF Listed, SleepInv, Linked
<1>5. PendingInv'
  BY <1>1 DEF IInv, PendingInv
<1>6. ClockInv' /\ NoCrash' /\ SleepsNoLonger'
  BY <1>1 DEF IInv, ClockInv, NoCrash, SleepsNoLonger
<1>7. Wheeled(place, deadline, elapsed)' = Wheeled(place, deadline, elapsed)
  BY <1>1 DEF Wheeled
<1> QED BY <1>1, <1>3, <1>4, <1>5, <1>6, <1>7 DEF IInv

(* The layer below returns. *)
LEMMA WakeupStep ==
  ASSUME IInv, Wakeup
  PROVE  IInv'
<1>1. /\ at = "asleep" /\ at' = "run" /\ mode' = NoPark /\ until' = 0
      /\ state' = state /\ duration' = duration /\ deadline' = deadline /\ complete' = complete
      /\ place' = place /\ elapsed' = elapsed /\ shutdown' = shutdown /\ time' = time
      /\ tick' = tick /\ pending' = pending /\ fired' = fired
  BY DEF Wakeup, entries
<1>2. TypeOK'
  BY <1>1 DEF IInv, TypeOK, At, ParkMode, NoPark
<1>3. Listed' = Listed /\ SleepInv' = SleepInv
  BY <1>1 DEF Listed, SleepInv, Linked
<1>4. PendingInv' /\ ClockInv' /\ NoCrash' /\ SleepsNoLonger'
  BY <1>1 DEF IInv, PendingInv, ClockInv, NoCrash, SleepsNoLonger
<1>5. Wheeled(place, deadline, elapsed)' = Wheeled(place, deadline, elapsed)
  BY <1>1 DEF Wheeled
<1> QED BY <1>1, <1>2, <1>3, <1>4, <1>5 DEF IInv

(* The driver shuts down. *)
LEMMA ShutdownStep ==
  ASSUME IInv, Shutdown
  PROVE  IInv'
<1> DEFINE left == {t \in Timers : Linked(t)}
<1>1. /\ at = "run" /\ at' = "stopped" /\ shutdown' = TRUE
      /\ state' = [t \in Timers |-> IF t \in left THEN "Fired" ELSE state[t]]
      /\ complete' = [t \in Timers |-> IF t \in left THEN "Err" ELSE complete[t]]
      /\ place' = [t \in Timers |-> Nowhere]
      /\ UNCHANGED <<time, duration, deadline, elapsed, parking>>
  BY Zenon DEF Shutdown
<1>2. /\ \A u \in Timers : state'[u] = IF Linked(u) THEN "Fired" ELSE state[u]
      /\ \A u \in Timers : place'[u] = Nowhere
  BY <1>1
<1>3. TypeOK'
  BY <1>1 DEF IInv, TypeOK, At, parking
<1>4. Listed' /\ SleepInv'
  <2>1. \A u \in Timers : Linked(u) <=> state[u] = "Registered"
    BY <1>1 DEF IInv, Listed, PendingInv
  <2> QED BY <1>1, <1>2, <2>1 DEF IInv, Listed, SleepInv, Linked
<1>5. PendingInv'
  BY <1>1 DEF IInv, PendingInv, parking
<1>6. ClockInv' /\ NoCrash' /\ SleepsNoLonger'
  BY <1>1 DEF IInv, ClockInv, NoCrash, SleepsNoLonger, parking
<1>7. Wheeled(place, deadline, elapsed)'
  BY <1>2 DEF Wheeled
<1> QED BY <1>1, <1>3, <1>4, <1>5, <1>6, <1>7 DEF IInv

(* A round of Wheels::advance: the slot that turns fires or is to be put   *)
(* back, nothing fires early, and every other entry stays where it is.     *)
LEMMA ExpireStep ==
  ASSUME IInv, Expire
  PROVE  /\ IInv'
         /\ at' = at
         /\ \A t \in Timers : state'[t] # state[t] =>
              state[t] = "Registered" /\ deadline[t] <= tick /\ state'[t] = "Fired"
<1> DEFINE next == NextExpiration(place, elapsed)
           slot == {t \in Timers : place[t] = <<next.level, next.slot>>}
           early == {t \in slot : deadline[t] > tick}
<1>1. /\ at = "advance" /\ HasNext(place) /\ next.deadline <= tick
      /\ state' = [t \in Timers |-> IF t \in slot \ early THEN "Fired" ELSE state[t]]
      /\ complete' = [t \in Timers |-> IF t \in slot \ early THEN "Ok" ELSE complete[t]]
      /\ place' = [t \in Timers |-> IF t \in slot THEN Nowhere ELSE place[t]]
      /\ pending' = pending \cup early
      /\ fired' = (fired \/ slot # early)
      /\ elapsed' = next.deadline
      /\ at' = IF NextExpirationOk(place, elapsed) /\ (early # {} => next.level # 0)
               THEN at ELSE "crashed"
      /\ UNCHANGED <<time, duration, deadline, shutdown, tick, mode, until>>
  BY Zenon DEF Expire
<1>2. /\ Wheeled(place, deadline, elapsed) /\ Listed /\ PendingInv /\ ClockInv
      /\ deadline \in [Timers -> Nat] /\ elapsed \in Nat /\ tick \in Nat
  BY <1>1 DEF IInv, TypeOK
<1>3. /\ next.deadline \in Nat /\ elapsed < next.deadline
      /\ NextExpirationOk(place, elapsed)
      /\ \A t \in Timers : place[t] # Nowhere =>
           /\ place[t] # <<next.level, next.slot>> => next.deadline < Turn(elapsed, deadline[t])
           /\ place[t] = <<next.level, next.slot>> /\ next.level = 0 =>
                next.deadline = deadline[t]
  BY <1>1, <1>2, NextIsFirst
<1> DEFINE e == next.deadline
<1>4. \A t \in slot : place[t] # Nowhere
  BY DEF Nowhere
<1>5. at' = at
  <2>1. ASSUME next.level = 0, NEW t \in early PROVE FALSE
    <3>1. deadline[t] = next.deadline /\ deadline[t] > tick
      BY <1>3, <1>4, <2>1
    <3> HIDE DEF next
    <3> QED BY <1>1, <1>2, <1>3, <3>1
  <2> HIDE DEF next, early
  <2> QED BY <1>1, <1>3, <2>1
<1>6. \A t \in Timers : /\ t \in slot <=> place[t] = <<next.level, next.slot>>
                        /\ t \in early <=> t \in slot /\ deadline[t] > tick
  OBVIOUS
<1> HIDE DEF slot, early, next, e
<1>7. /\ \A t \in Timers : state'[t] = IF t \in slot \ early THEN "Fired" ELSE state[t]
      /\ \A t \in Timers : place'[t] = IF t \in slot THEN Nowhere ELSE place[t]
      /\ \A t \in Timers : complete'[t] = IF t \in slot \ early THEN "Ok" ELSE complete[t]
      /\ pending' = pending \cup early /\ elapsed' = e /\ e \in Nat /\ e <= tick
      /\ tick' = tick /\ deadline' = deadline /\ time' = time /\ duration' = duration
  BY <1>1, <1>3 DEF e
<1>8. \A t \in slot : state[t] = "Registered" /\ t \notin pending /\ t \in Timers
  <2>1. slot \subseteq Timers
    BY DEF slot
  <2> QED BY <1>2, <1>4, <2>1 DEF Listed, Linked
<1>9. early \subseteq slot
  BY DEF early
<1>10. TypeOK'
  <2>1. fired' \in BOOLEAN
    BY <1>1
  <2>2. pending' \subseteq Timers
    BY <1>7, <1>8, <1>9 DEF IInv, TypeOK
  <2>3. /\ state' \in [Timers -> {"None", "Unregistered", "Registered", "Fired"}]
        /\ complete' \in [Timers -> {"Ok", "Err"}]
        /\ place' \in [Timers -> {Nowhere} \cup (Level \X Slot)]
    BY <1>1 DEF IInv, TypeOK
  <2> QED BY <1>1, <1>5, <1>7, <2>1, <2>2, <2>3 DEF IInv, TypeOK
<1>11. \A t \in early : Within(tick, deadline[t])
  <2> SUFFICES ASSUME NEW t \in early PROVE Within(tick, deadline[t])
    OBVIOUS
  <2>1. t \in Timers /\ t \in slot /\ deadline[t] > tick /\ deadline[t] \in Nat
    BY <1>2, <1>6, <1>8, <1>9
  <2>2. Within(elapsed, deadline[t]) /\ elapsed <= tick
    BY <1>1, <1>2, <1>4, <2>1 DEF Wheeled, ClockInv
  <2> QED BY <1>2, <2>1, <2>2, Units DEF Within
<1>12. Listed' /\ SleepInv' /\ PendingInv'
  <2>1. Listed'
    BY <1>2, <1>7, <1>8, <1>9 DEF Listed, Linked
  <2>2. SleepInv'
    BY <1>7, <1>8, <1>9 DEF IInv, SleepInv
  <2>3. \A t \in pending' : state'[t] = "Registered" /\ Within(tick, deadline[t])
    <3> SUFFICES ASSUME NEW t \in pending'
                 PROVE  state'[t] = "Registered" /\ Within(tick, deadline[t])
      OBVIOUS
    <3>1. CASE t \in early
      BY <1>7, <1>8, <1>9, <1>11, <3>1
    <3>2. CASE t \in pending
      <4>1. t \in Timers /\ t \notin slot /\ state[t] = "Registered" /\ Within(tick, deadline[t])
        BY <1>2, <1>8, <3>2 DEF IInv, TypeOK, PendingInv
      <4> QED BY <1>7, <4>1
    <3> QED BY <1>7, <3>1, <3>2
  <2> QED BY <1>1, <1>5, <1>7, <2>1, <2>2, <2>3 DEF PendingInv
<1>13. Wheeled(place', deadline, e)
  <2> SUFFICES ASSUME NEW t \in Timers, place'[t] # Nowhere
               PROVE  Within(e, deadline[t]) /\ place'[t] = Place(e, deadline[t])
    BY DEF Wheeled
  <2>1. t \notin slot /\ place'[t] = place[t] /\ place[t] # Nowhere
    BY <1>7
  <2>2. /\ Within(elapsed, deadline[t]) /\ place[t] = Place(elapsed, deadline[t])
        /\ deadline[t] \in Nat /\ e < Turn(elapsed, deadline[t]) /\ elapsed <= e
    BY <1>2, <1>3, <1>6, <2>1 DEF Wheeled, e
  <2> QED BY <1>2, <1>7, <2>1, <2>2, PlacedUntilTurn
<1>14. Wheeled(place, deadline, elapsed)'
  BY <1>7, <1>13
<1>15. ClockInv' /\ NoCrash' /\ SleepsNoLonger'
  BY <1>1, <1>2, <1>5, <1>7 DEF ClockInv, NoCrash, SleepsNoLonger
<1>16. \A t \in Timers : state'[t] # state[t] =>
         state[t] = "Registered" /\ deadline[t] <= tick /\ state'[t] = "Fired"
  BY <1>2, <1>6, <1>7, <1>8
<1> QED BY <1>5, <1>10, <1>12, <1>14, <1>15, <1>16 DEF IInv

(* The mode that goes down: it limits a sleep to what expires next. *)
LEMMA LimitIs ==
  ASSUME NEW m \in ParkMode, NEW where, NEW now, tick \in Nat,
         HasNext(where) => NextExpiration(where, now).deadline \in Nat
                           /\ NextExpiration(where, now).deadline > tick
  PROVE  /\ Limit(m, where, now) \in ParkMode
         /\ HasNext(where) =>
              /\ Limit(m, where, now).kind = "Timeout"
              /\ tick + Limit(m, where, now).ticks <= NextExpiration(where, now).deadline
<1>1. CASE ~HasNext(where)
  BY <1>1 DEF Limit
<1>2. CASE HasNext(where)
  <2> DEFINE next == NextExpiration(where, now).deadline
             delta == IF next > tick THEN next - tick ELSE 0
  <2>1. Limit(m, where, now)
          = IF m.kind = "Timeout" /\ m.ticks <= delta THEN m ELSE Timeout(delta)
    BY <1>2 DEF Limit
  <2>2. next \in Nat /\ delta \in Nat /\ tick + delta = next
    BY <1>2
  <2> HIDE DEF next, delta
  <2>3. m.ticks \in Nat
    BY DEF ParkMode
  <2>4. CASE m.kind = "Timeout" /\ m.ticks <= delta
    <3>1. tick + m.ticks <= next
      BY <2>2, <2>3, <2>4
    <3> QED BY <2>1, <2>4, <3>1 DEF next
  <2>5. CASE ~(m.kind = "Timeout" /\ m.ticks <= delta)
    <3>1. Limit(m, where, now) = [kind |-> "Timeout", ticks |-> delta]
      BY <2>1, <2>5 DEF Timeout
    <3> QED BY <2>2, <3>1 DEF next, ParkMode
  <2> QED BY <2>4, <2>5
<1> QED BY <1>1, <1>2

(* The end of Wheels::advance: nothing that was due is left, what was to   *)
(* be put back is where it belongs at the new tick, and so is all that was *)
(* not touched; the sleep of the layer below ends with what expires next.  *)
LEMMA EndAdvanceStep ==
  ASSUME IInv, EndAdvance
  PROVE  /\ IInv'
         /\ \A t \in Timers : state[t] = "Registered" => tick < deadline[t]
<1> DEFINE next == NextExpiration(place, elapsed)
           base == IF fired THEN NoPark ELSE mode
           since == IF pending = {} THEN elapsed ELSE tick
<1>1. /\ at = "advance"
      /\ HasNext(place) => next.deadline > tick
      /\ place' = [t \in Timers |-> IF t \in pending THEN PutBack(t) ELSE place[t]]
      /\ elapsed' = tick /\ pending' = {} /\ fired' = FALSE /\ tick' = 0
      /\ mode' = Limit(base, place', since)
      /\ until' = IF mode'.kind = "Timeout" THEN time + mode'.ticks * Unit ELSE 0
      /\ at' = IF ~NextExpirationOk(place, elapsed) THEN "crashed"
               ELSE IF mode'.kind = "NoPark" THEN "run" ELSE "asleep"
      /\ UNCHANGED <<time, state, duration, deadline, complete, shutdown>>
  BY Zenon DEF EndAdvance
<1>2. /\ Wheeled(place, deadline, elapsed) /\ Listed /\ PendingInv /\ ClockInv
      /\ deadline \in [Timers -> Nat] /\ elapsed \in Nat /\ tick \in Nat /\ time \in Nat
      /\ elapsed <= tick /\ tick = time \div Unit /\ pending \subseteq Timers
  BY <1>1 DEF IInv, TypeOK, ClockInv
<1>3. \A t \in Timers : place[t] # Nowhere => HasNext(place)
  <2> SUFFICES ASSUME NEW t \in Timers, place[t] # Nowhere PROVE HasNext(place)
    OBVIOUS
  <2>1. PICK l \in Level, s \in Slot : place[t] = <<l, s>>
    BY DEF IInv, TypeOK
  <2> QED BY <2>1 DEF HasNext, Occupied
<1>4. HasNext(place) =>
        /\ NextExpirationOk(place, elapsed) /\ next.deadline \in Nat
        /\ \A t \in Timers : place[t] # Nowhere => next.deadline <= Turn(elapsed, deadline[t])
  BY <1>2, NextIsFirst
<1>5. NextExpirationOk(place, elapsed)
  BY <1>4 DEF NextExpirationOk
<1> HIDE DEF next
<1>6. \A t \in Timers : /\ t \in pending => place'[t] = Place(tick, deadline[t])
                        /\ t \notin pending => place'[t] = place[t]
  BY <1>1 DEF PutBack
<1>7. ASSUME NEW t \in Timers, state[t] = "Registered"
      PROVE  Within(tick, deadline[t]) /\ place'[t] = Place(tick, deadline[t])
  <2>1. CASE t \in pending
    BY <1>2, <1>6, <2>1 DEF PendingInv
  <2>2. CASE t \notin pending
    <3>1. place[t] # Nowhere /\ place'[t] = place[t]
      BY <1>2, <1>6, <1>7, <2>2 DEF Listed, Linked
    <3>2. Within(elapsed, deadline[t]) /\ place[t] = Place(elapsed, deadline[t])
      BY <1>2, <3>1 DEF Wheeled
    <3>3. tick < next.deadline /\ next.deadline <= Turn(elapsed, deadline[t])
          /\ next.deadline \in Nat
      BY <1>1, <1>3, <1>4, <3>1
    <3>4. deadline[t] \in Nat /\ Turn(elapsed, deadline[t]) \in Nat
      BY <1>2, <3>2, PlaceIs
    <3>5. tick < Turn(elapsed, deadline[t])
      BY <1>2, <3>3, <3>4
    <3> QED BY <1>2, <3>1, <3>2, <3>4, <3>5, PlacedUntilTurn
  <2> QED BY <2>1, <2>2
<1>8. \A t \in Timers : place'[t] # Nowhere <=> state[t] = "Registered"
  <2> SUFFICES ASSUME NEW t \in Timers PROVE place'[t] # Nowhere <=> state[t] = "Registered"
    OBVIOUS
  <2>1. CASE state[t] = "Registered"
    <3>1. place'[t] # Nowhere
      BY <1>2, <1>7, <2>1, PlaceType
    <3> QED BY <2>1, <3>1
  <2>2. CASE state[t] # "Registered"
    BY <1>2, <1>6, <2>2 DEF Listed, Linked, PendingInv
  <2> QED BY <2>1, <2>2
<1>9. Wheeled(place', deadline, tick)
  BY <1>7, <1>8 DEF Wheeled
<1>10. \A t \in Timers : state[t] = "Registered" => tick < deadline[t]
  BY <1>7 DEF Within
<1> DEFINE first == NextExpiration(place', since)
<1>11. HasNext(place') =>
         /\ first.deadline \in Nat /\ first.deadline > tick
         /\ \A t \in Timers : state[t] = "Registered" => first.deadline <= deadline[t]
  <2> SUFFICES ASSUME HasNext(place')
               PROVE  /\ first.deadline \in Nat /\ first.deadline > tick
                      /\ \A t \in Timers : state[t] = "Registered" =>
                           first.deadline <= deadline[t]
    OBVIOUS
  <2>1. Wheeled(place', deadline, since) /\ since \in Nat /\ since <= tick
    <3>1. CASE pending = {}
      <4>1. place' = place
        BY <1>1, <3>1 DEF IInv, TypeOK
      <4> QED BY <1>2, <3>1, <4>1
    <3>2. CASE pending # {}
      BY <1>2, <1>9, <3>2
    <3> QED BY <3>1, <3>2
  <2> HIDE DEF since
  <2>2. /\ first.deadline \in Nat /\ since < first.deadline
        /\ \A t \in Timers : place'[t] # Nowhere => first.deadline <= Turn(since, deadline[t])
    BY <1>2, <2>1, NextIsFirst
  <2>3. first.deadline > tick
    <3>1. CASE pending = {}
      <4>1. place' = place
        BY <1>1, <3>1 DEF IInv, TypeOK
      <4>2. first = next
        BY <3>1, <4>1 DEF next, since
      <4> HIDE DEF first
      <4> QED BY <1>1, <4>1, <4>2
    <3>2. CASE pending # {}
      BY <2>2, <3>2 DEF since
    <3> QED BY <3>1, <3>2
  <2>4. ASSUME NEW t \in Timers, state[t] = "Registered" PROVE first.deadline <= deadline[t]
    <3>1. place'[t] # Nowhere /\ Within(since, deadline[t]) /\ deadline[t] \in Nat
      BY <1>2, <1>8, <2>1, <2>4 DEF Wheeled
    <3>2. Turn(since, deadline[t]) \in Nat /\ Turn(since, deadline[t]) <= deadline[t]
      BY <2>1, <3>1, PlaceIs
    <3>3. first.deadline <= Turn(since, deadline[t])
      BY <2>2, <3>1
    <3> HIDE DEF first
    <3> QED BY <2>2, <3>1, <3>2, <3>3
  <2> QED BY <2>2, <2>3, <2>4
<1>12. /\ mode' \in ParkMode
       /\ HasNext(place') => mode'.kind = "Timeout" /\ tick + mode'.ticks <= first.deadline
  <2>1. base \in ParkMode
    BY DEF IInv, TypeOK, ParkMode, NoPark
  <2> HIDE DEF base, since
  <2> QED BY <1>1, <1>2, <1>11, <2>1, LimitIs
<1> HIDE DEF first, since, base
<1>13. mode'.ticks \in Nat
  BY <1>12 DEF ParkMode
<1>14. TypeOK'
  <2>1. place' \in [Timers -> {Nowhere} \cup (Level \X Slot)]
    <3>1. \A t \in Timers : place'[t] \in {Nowhere} \cup (Level \X Slot)
      BY <1>2, <1>7, <1>8, PlaceType
    <3> QED BY <1>1, <3>1
  <2>2. until' \in Nat
    <3>1. mode'.ticks * Unit \in Nat
      BY <1>13, Units
    <3> QED BY <1>1, <1>2, <3>1
  <2>3. at' \in At
    BY <1>1, <1>5 DEF At
  <2> QED BY <1>1, <1>2, <1>12, <2>1, <2>2, <2>3 DEF IInv, TypeOK
<1>15. Listed' /\ SleepInv' /\ PendingInv'
  <2>1. Listed'
    BY <1>1, <1>8 DEF Listed, Linked
  <2>2. SleepInv'
    BY <1>1 DEF IInv, SleepInv
  <2>3. PendingInv'
    BY <1>1 DEF PendingInv
  <2> QED BY <2>1, <2>2, <2>3
<1>16. Wheeled(place, deadline, elapsed)'
  BY <1>1, <1>9
<1>17. ClockInv' /\ NoCrash'
  <2>1. at' = "run" \/ at' = "asleep"
    BY <1>1, <1>5
  <2> QED BY <1>1, <1>2, <2>1 DEF ClockInv, NoCrash
<1>18. SleepsNoLonger'
  <2> SUFFICES ASSUME NEW t \in Timers, state[t] = "Registered"
               PROVE  mode'.kind = "Timeout" /\ until' \div Unit <= deadline[t]
    BY <1>1 DEF SleepsNoLonger
  <2>1. HasNext(place')
    <3>1. PICK l \in Level, s \in Slot : place'[t] = <<l, s>>
      BY <1>8, <1>14 DEF TypeOK
    <3> QED BY <3>1 DEF HasNext, Occupied
  <2>2. mode'.kind = "Timeout" /\ tick + mode'.ticks <= first.deadline
        /\ first.deadline \in Nat /\ first.deadline <= deadline[t]
    BY <1>11, <1>12, <2>1
  <2>3. until' \div Unit = tick + mode'.ticks
    <3>1. until' = time + mode'.ticks * Unit
      BY <1>1, <2>2
    <3> QED BY <1>2, <1>13, <3>1, Units
  <2> QED BY <1>2, <1>13, <2>2, <2>3
<1> QED BY <1>10, <1>14, <1>15, <1>16, <1>17, <1>18 DEF IInv

(* Every step keeps the invariant. *)
LEMMA NextIInv == ASSUME IInv, ShortSleeps, [Next]_vars PROVE IInv'
<1>1. CASE UNCHANGED vars
  <2>1. /\ time' = time /\ state' = state /\ duration' = duration /\ deadline' = deadline
        /\ complete' = complete /\ place' = place /\ elapsed' = elapsed
        /\ shutdown' = shutdown /\ at' = at /\ tick' = tick /\ pending' = pending
        /\ fired' = fired /\ mode' = mode /\ until' = until
    BY <1>1 DEF vars, entries, parking
  <2>2. TypeOK'
    BY <2>1 DEF IInv, TypeOK
  <2>3. Listed' = Listed /\ SleepInv' = SleepInv /\ PendingInv' = PendingInv
    BY <2>1 DEF Listed, SleepInv, PendingInv, Linked
  <2>4. ClockInv' = ClockInv /\ NoCrash' = NoCrash /\ SleepsNoLonger' = SleepsNoLonger
    BY <2>1 DEF ClockInv, NoCrash, SleepsNoLonger
  <2>5. Wheeled(place, deadline, elapsed)' = Wheeled(place, deadline, elapsed)
    BY <2>1 DEF Wheeled
  <2> QED BY <2>1, <2>2, <2>3, <2>4, <2>5 DEF IInv
<1>2. ASSUME NEW t \in Timers, NEW d \in Durations, Sleep(t, d) PROVE IInv'
  BY <1>2, SleepStep
<1>3. ASSUME NEW t \in Timers, Poll(t) PROVE IInv'
  BY <1>3, PollStep
<1>4. ASSUME NEW t \in Timers, PollFired(t) PROVE IInv'
  BY <1>4, PollFiredStep
<1>5. ASSUME NEW t \in Timers, Drop(t) PROVE IInv'
  BY <1>5, DropStep
<1>6. ASSUME NEW t \in Timers, Reset(t) PROVE IInv'
  BY <1>6, ResetStep
<1>7. ASSUME NEW m \in CallerMode, Park(m) PROVE IInv'
  BY <1>7, ParkStep
<1>8. CASE Expire
  BY <1>8, ExpireStep
<1>9. CASE EndAdvance
  BY <1>9, EndAdvanceStep
<1>10. CASE Wakeup
  BY <1>10, WakeupStep
<1>11. CASE Shutdown
  BY <1>11, ShutdownStep
<1>12. CASE Tick
  BY <1>12, TickStep
<1> QED BY <1>1, <1>2, <1>3, <1>4, <1>5, <1>6, <1>7, <1>8, <1>9, <1>10, <1>11, <1>12
        DEF Next, Driver

(* The properties follow from it. *)
LEMMA IInvImpliesInv == IInv => Inv
<1> SUFFICES ASSUME IInv PROVE Inv
  OBVIOUS
<1>1. PlacedByDeadline
  BY DEF IInv, PlacedByDeadline, Wheeled, Listed, Linked, Removable
<1>2. NoneOverdue
  <2> SUFFICES ASSUME at \in {"run", "asleep"}, NEW t \in Timers, Linked(t)
               PROVE  deadline[t] > elapsed
    BY DEF NoneOverdue
  <2>1. elapsed < deadline[t] /\ elapsed \in Nat /\ deadline[t] \in Nat
    BY DEF IInv, Wheeled, Within, TypeOK, Linked
  <2> QED BY <2>1
<1> QED BY <1>1, <1>2 DEF IInv, Inv

(* The inductive invariant holds of every behaviour. *)
LEMMA SpecIInv == ASSUME ShortSleeps PROVE Spec => []IInv
<1>1. IInv /\ [Next]_vars => IInv'
  BY NextIInv
<1> QED BY <1>1, InitIInv, PTL DEF Spec

(* Whatever the levels, the slots and the sleeps of less than a rotation:  *)
(* no assertion of the wheels fails and no entry is removed from a list    *)
(* that it is not in, every registered entry is where its deadline and the *)
(* elapsed time say, none is overdue between two parks, and the layer      *)
(* below is never told to sleep past the tick of one.                      *)
THEOREM WheelsInvariant == ASSUME ShortSleeps PROVE Spec => []Inv
<1> QED BY SpecIInv, IInvImpliesInv, PTL

(* Every round of the loop of Wheels::advance turns the wheels, and never  *)
(* past the tick they turn to: so there are at most as many rounds as      *)
(* ticks, and a park does not loop forever on a slot that lies behind.     *)
THEOREM EveryRoundTurns ==
  ASSUME ShortSleeps
  PROVE  Spec => [][at = "advance" /\ at' = "advance" =>
                      elapsed < elapsed' /\ elapsed' <= tick /\ tick' = tick]_vars
<1>1. ASSUME IInv, Next, at = "advance", at' = "advance"
      PROVE  elapsed < elapsed' /\ elapsed' <= tick /\ tick' = tick
  <2>1. ASSUME NEW t \in Timers,
               \/ \E d \in Durations : Sleep(t, d)
               \/ Poll(t) \/ PollFired(t) \/ Drop(t) \/ Reset(t)
        PROVE  FALSE
    BY <1>1, <2>1 DEF Sleep, Poll, PollFired, Drop, Reset, Free
  <2>2. ~(Wakeup \/ Shutdown \/ Tick \/ EndAdvance)
    <3>1. ~Wakeup /\ ~Shutdown /\ ~Tick
      BY <1>1 DEF Wakeup, Shutdown, Tick
    <3>2. ASSUME EndAdvance PROVE FALSE
      BY <1>1, <3>2 DEF EndAdvance
    <3> QED BY <3>1, <3>2
  <2>3. ASSUME NEW m \in CallerMode, Park(m) PROVE FALSE
    BY <1>1, <2>3 DEF Park
  <2>4. Expire
    BY <1>1, <2>1, <2>2, <2>3 DEF Next, Driver
  <2>5. /\ HasNext(place) /\ NextExpiration(place, elapsed).deadline <= tick
        /\ elapsed' = NextExpiration(place, elapsed).deadline /\ tick' = tick
    BY <2>4, Zenon DEF Expire
  <2>6. elapsed < NextExpiration(place, elapsed).deadline
    <3>1. /\ Wheeled(place, deadline, elapsed) /\ deadline \in [Timers -> Nat]
          /\ elapsed \in Nat
      BY <1>1 DEF IInv, TypeOK
    <3> QED BY <2>5, <3>1, NextIsFirst
  <2> QED BY <2>5, <2>6
<1>2. IInv /\ [Next]_vars =>
        [at = "advance" /\ at' = "advance" =>
           elapsed < elapsed' /\ elapsed' <= tick /\ tick' = tick]_vars
  BY <1>1
<1> QED BY <1>2, SpecIInv, PTL DEF Spec

-----------------------------------------------------------------------------
(* What holds of sleeps of any length.                                     *)

(* The highest differing digit is one of a level, whatever the ticks. *)
LEMMA AnyPlace ==
  ASSUME NEW now \in Nat, NEW when \in Nat
  PROVE  Place(now, when) \in Level \X Slot
<1> DEFINE same == {l \in 0..(Levels - 1) :
                     now \div LevelRange(l) = when \div LevelRange(l)}
           w == WheelFor(now, when)
<1>1. Level \subseteq Nat /\ Levels - 1 \in Level
  BY WheelMathAssumption DEF Level
<1>2. w = IF same = {} THEN Levels - 1 ELSE CHOOSE l \in same : \A k \in same : l <= k
  BY Zenon DEF WheelFor
<1>3. same \subseteq Level
  BY DEF Level
<1> HIDE DEF same
<1>4. same # {} => \E l \in same : \A k \in same : l <= k
  BY <1>1, <1>3, LeastNumber
<1>5. same # {} => w \in same
  <2> HIDE DEF w
  <2> QED BY <1>2, <1>4, Zenon
<1> HIDE DEF w
<1>6. w \in Level
  BY <1>1, <1>2, <1>3, <1>5
<1>7. SlotFor(when, w) \in Slot
  BY <1>1, <1>6, UpperNext
<1> QED BY <1>6, <1>7 DEF Place, w

(* What expires next has a tick, even when it is not next. *)
LEMMA AnyNext ==
  ASSUME NEW where, NEW now \in Nat, HasNext(where)
  PROVE  NextExpiration(where, now).deadline \in Nat
<1> DEFINE next == NextExpiration(where, now)
           l == next.level
           s == next.slot
           r == LevelRange(l)
<1>1. l \in Level /\ s \in Occupied(where, l) /\ next.deadline = SlotDeadline(l, s, now)
  BY NextIs
<1> HIDE DEF l, s, next
<1>2. l \in Nat /\ s \in Nat
  BY <1>1, WheelMathAssumption DEF Level, Slot, Occupied
<1>3. r \in Nat /\ r > 0 /\ SlotRange(l) \in Nat
  <2>1. r = SlotRange(l + 1) /\ l + 1 \in Nat
    BY <1>2, SlotRanges
  <2> QED BY <1>2, <2>1, SlotRanges
<1>4. now - (now % r) \in Nat
  <2>1. now \div r \in Nat /\ now % r \in 0..(r - 1) /\ now = r * (now \div r) + (now % r)
    BY <1>3, Division
  <2>2. \A a, b \in Nat : a * b \in Nat
    OBVIOUS
  <2>3. r * (now \div r) \in Nat
    BY <1>3, <2>1, <2>2
  <2> QED BY <2>1, <2>3
<1>5. s * SlotRange(l) \in Nat
  BY <1>2, <1>3
<1>6. SlotStart(l, s, now) \in Nat
  BY <1>4, <1>5 DEF SlotStart
<1>7. SlotDeadline(l, s, now) \in Nat
  BY <1>3, <1>6 DEF SlotDeadline
<1> QED BY <1>1, <1>7 DEF next

(* The types, and the tick of a park, which reads the clock once. *)
Typed == TypeOK /\ (at = "advance" => tick = time \div Unit)

(* They are kept by every step. *)
LEMMA NextTyped == ASSUME Typed, [Next]_vars PROVE Typed'
<1> USE DEF Typed
<1>1. CASE UNCHANGED vars
  BY <1>1 DEF vars, entries, parking, TypeOK
<1>2. ASSUME NEW t \in Timers, NEW d \in Durations, Sleep(t, d) PROVE Typed'
  <2>1. d \in Nat
    BY Units
  <2> QED BY <1>2, <2>1 DEF Sleep, Free, TypeOK, parking
<1>3. ASSUME NEW t \in Timers, Poll(t) PROVE Typed'
  <2> DEFINE x == elapsed + duration[t] \div Unit
             gone == duration[t] = 0 \/ shutdown \/ x <= elapsed
  <2>1. /\ Free
        /\ deadline' = [deadline EXCEPT ![t] = IF duration[t] = 0 THEN @ ELSE x]
        /\ IF gone THEN state' = [state EXCEPT ![t] = "Fired"] /\ UNCHANGED place
           ELSE /\ state' = [state EXCEPT ![t] = "Registered"]
                /\ place' = [place EXCEPT ![t] = Place(elapsed, x)]
        /\ UNCHANGED <<time, duration, complete, elapsed, shutdown, at, parking>>
    BY <1>3, Zenon DEF Poll
  <2>2. x \in Nat
    <3>1. duration[t] \div Unit \in Nat
      BY Units DEF TypeOK
    <3> QED BY <3>1 DEF TypeOK
  <2>3. Place(elapsed, x) \in Level \X Slot
    BY <2>2, AnyPlace DEF TypeOK
  <2> HIDE DEF x, gone
  <2>4. state' \in [Timers -> {"None", "Unregistered", "Registered", "Fired"}]
    BY <2>1 DEF TypeOK
  <2>5. deadline' \in [Timers -> Nat]
    BY <2>1, <2>2 DEF TypeOK
  <2>6. place' \in [Timers -> {Nowhere} \cup (Level \X Slot)]
    BY <2>1, <2>3 DEF TypeOK
  <2> QED BY <2>1, <2>4, <2>5, <2>6 DEF TypeOK, parking
<1>4. ASSUME NEW t \in Timers, PollFired(t) PROVE Typed'
  BY <1>4 DEF PollFired, TypeOK, parking
<1>5. ASSUME NEW t \in Timers, Drop(t) PROVE Typed'
  <2>1. CASE state[t] = "Registered" /\ ~Removable(t)
    BY <1>5, <2>1 DEF Drop, TypeOK, At, entries, parking
  <2>2. CASE ~(state[t] = "Registered" /\ ~Removable(t))
    <3>1. /\ state' = [state EXCEPT ![t] = "None"] /\ deadline' = [deadline EXCEPT ![t] = 0]
          /\ place' = [place EXCEPT ![t] = Nowhere]
          /\ UNCHANGED <<duration, complete, at>>
          /\ UNCHANGED <<time, elapsed, shutdown, parking>>
      BY <1>5, <2>2, Zenon DEF Drop
    <3> QED BY <3>1 DEF TypeOK, parking
  <2> QED BY <2>1, <2>2
<1>6. ASSUME NEW t \in Timers, Reset(t) PROVE Typed'
  BY <1>6 DEF Reset, TypeOK, At, parking
<1>7. ASSUME NEW m \in CallerMode, Park(m) PROVE Typed'
  <2>1. time \div Unit \in Nat
    BY Units DEF TypeOK
  <2>2. m \in ParkMode
    BY DEF CallerMode, ParkMode, NoPark, NextCompletion, Timeout
  <2> QED BY <1>7, <2>1, <2>2 DEF Park, TypeOK, At, entries
<1>8. CASE Expire
  <2> DEFINE next == NextExpiration(place, elapsed)
             slot == {t \in Timers : place[t] = <<next.level, next.slot>>}
             early == {t \in slot : deadline[t] > tick}
  <2>1. /\ at = "advance" /\ HasNext(place)
        /\ state' = [t \in Timers |-> IF t \in slot \ early THEN "Fired" ELSE state[t]]
        /\ complete' = [t \in Timers |-> IF t \in slot \ early THEN "Ok" ELSE complete[t]]
        /\ place' = [t \in Timers |-> IF t \in slot THEN Nowhere ELSE place[t]]
        /\ pending' = pending \cup early
        /\ fired' = (fired \/ slot # early)
        /\ elapsed' = next.deadline
        /\ at' \in {at, "crashed"}
        /\ UNCHANGED <<time, duration, deadline, shutdown, tick, mode, until>>
    BY <1>8, Zenon DEF Expire
  <2>2. next.deadline \in Nat
    BY <2>1, AnyNext DEF TypeOK
  <2>3. early \subseteq Timers
    OBVIOUS
  <2> HIDE DEF next, slot, early
  <2>4. fired' \in BOOLEAN
    BY <2>1
  <2>5. /\ state' \in [Timers -> {"None", "Unregistered", "Registered", "Fired"}]
        /\ complete' \in [Timers -> {"Ok", "Err"}]
        /\ place' \in [Timers -> {Nowhere} \cup (Level \X Slot)]
    BY <2>1 DEF TypeOK
  <2> QED BY <2>1, <2>2, <2>3, <2>4, <2>5 DEF TypeOK, At
<1>9. CASE EndAdvance
  <2> DEFINE base == IF fired THEN NoPark ELSE mode
             since == IF pending = {} THEN elapsed ELSE tick
  <2>1. /\ place' = [t \in Timers |-> IF t \in pending THEN Place(tick, deadline[t])
                                      ELSE place[t]]
        /\ elapsed' = tick /\ pending' = {} /\ fired' = FALSE /\ tick' = 0
        /\ mode' = Limit(base, place', since)
        /\ until' = IF mode'.kind = "Timeout" THEN time + mode'.ticks * Unit ELSE 0
        /\ at' \in {"crashed", "run", "asleep"}
        /\ UNCHANGED <<time, state, duration, deadline, complete, shutdown>>
    BY <1>9, Zenon DEF EndAdvance, PutBack
  <2>2. base \in ParkMode /\ since \in Nat
    BY DEF TypeOK, ParkMode, NoPark
  <2> HIDE DEF base, since
  <2>3. mode' \in ParkMode
    <3>1. CASE ~HasNext(place')
      BY <2>1, <2>2, <3>1 DEF Limit
    <3>2. CASE HasNext(place')
      <4> DEFINE n == NextExpiration(place', since).deadline
                 delta == IF n > tick THEN n - tick ELSE 0
      <4>1. n \in Nat /\ tick \in Nat
        BY <2>2, <3>2, AnyNext DEF TypeOK
      <4>2. mode' = IF base.kind = "Timeout" /\ base.ticks <= delta THEN base
                    ELSE Timeout(delta)
        BY <2>1, <3>2 DEF Limit
      <4> HIDE DEF n
      <4>3. delta \in Nat
        BY <4>1
      <4> HIDE DEF delta
      <4> QED BY <2>2, <4>2, <4>3 DEF Timeout, ParkMode
    <3> QED BY <3>1, <3>2
  <2>4. until' \in Nat
    <3>1. mode'.ticks * Unit \in Nat
      BY <2>3, Units DEF ParkMode
    <3> QED BY <2>1, <3>1 DEF TypeOK
  <2>5. place' \in [Timers -> {Nowhere} \cup (Level \X Slot)]
    <3>1. \A t \in Timers : Place(tick, deadline[t]) \in Level \X Slot
      BY AnyPlace DEF TypeOK
    <3> QED BY <2>1, <3>1 DEF TypeOK
  <2> QED BY <2>1, <2>3, <2>4, <2>5 DEF TypeOK, At
<1>10. CASE Wakeup
  BY <1>10 DEF Wakeup, TypeOK, At, ParkMode, NoPark, entries
<1>11. CASE Shutdown
  BY <1>11 DEF Shutdown, TypeOK, At, parking
<1>12. CASE Tick
  BY <1>12 DEF Tick, TypeOK, entries, parking
<1> QED BY <1>1, <1>2, <1>3, <1>4, <1>5, <1>6, <1>7, <1>8, <1>9, <1>10, <1>11, <1>12
        DEF Next, Driver

(* However long sleeps are: a sleep that waits ends by itself only when    *)
(* the clock has come to the tick of its deadline, and otherwise only      *)
(* because the driver shuts down.                                          *)
THEOREM NoneEndsEarly ==
  Spec => [][\A t \in Timers : state[t] = "Registered" /\ state'[t] = "Fired" =>
               shutdown' \/ deadline[t] <= time \div Unit]_vars
<1>1. Init => Typed
  BY InitIInv DEF Init, IInv, Typed
<1>2. ASSUME Typed, Next, NEW t \in Timers, state[t] = "Registered", state'[t] = "Fired"
      PROVE  shutdown' \/ deadline[t] <= time \div Unit
  <2>1. /\ state \in [Timers -> {"None", "Unregistered", "Registered", "Fired"}]
        /\ deadline[t] \in Nat /\ tick \in Nat /\ state'[t] # state[t]
        /\ at = "advance" => tick = time \div Unit
    BY <1>2 DEF Typed, TypeOK
  <2>2. ASSUME NEW u \in Timers,
               \/ \E d \in Durations : Sleep(u, d)
               \/ Poll(u) \/ PollFired(u) \/ Drop(u) \/ Reset(u)
        PROVE  FALSE
    <3>1. ASSUME NEW d \in Durations, Sleep(u, d) PROVE FALSE
      BY <1>2, <2>1, <3>1 DEF Sleep
    <3>2. ASSUME Poll(u) PROVE FALSE
      <4>1. state[u] = "Unregistered" /\ \E x : state' = [state EXCEPT ![u] = x]
        BY <3>2, Zenon DEF Poll
      <4> QED BY <1>2, <2>1, <4>1
    <3>3. ASSUME PollFired(u) PROVE FALSE
      BY <2>1, <3>3 DEF PollFired
    <3>4. ASSUME Drop(u) PROVE FALSE
      BY <1>2, <2>1, <3>4 DEF Drop, entries
    <3>5. ASSUME Reset(u) PROVE FALSE
      BY <2>1, <3>5 DEF Reset
    <3> QED BY <2>2, <3>1, <3>2, <3>3, <3>4, <3>5
  <2>3. ASSUME NEW m \in CallerMode, Park(m) PROVE FALSE
    BY <2>1, <2>3 DEF Park, entries
  <2>4. ~EndAdvance /\ ~Wakeup /\ ~Tick
    <3>1. ~EndAdvance
      BY <2>1 DEF EndAdvance
    <3> QED BY <2>1, <3>1 DEF Wakeup, Tick, entries
  <2>5. CASE Expire
    <3> DEFINE next == NextExpiration(place, elapsed)
               slot == {u \in Timers : place[u] = <<next.level, next.slot>>}
               early == {u \in slot : deadline[u] > tick}
    <3>1. /\ at = "advance"
          /\ state' = [u \in Timers |-> IF u \in slot \ early THEN "Fired" ELSE state[u]]
      BY <2>5, Zenon DEF Expire
    <3>2. t \in slot => (t \notin early <=> ~(deadline[t] > tick))
      OBVIOUS
    <3> HIDE DEF next, slot, early
    <3>3. t \in slot /\ t \notin early
      BY <2>1, <3>1
    <3> QED BY <2>1, <3>1, <3>2, <3>3
  <2>6. CASE Shutdown
    BY <2>6 DEF Shutdown
  <2> QED BY <1>2, <2>2, <2>3, <2>4, <2>5, <2>6 DEF Next, Driver
<1>3. Typed /\ [Next]_vars =>
        [\A t \in Timers : state[t] = "Registered" /\ state'[t] = "Fired" =>
           shutdown' \/ deadline[t] <= time \div Unit]_vars
  BY <1>2
<1>4. Typed /\ [Next]_vars => Typed'
  BY NextTyped
<1> QED BY <1>1, <1>3, <1>4, PTL DEF Spec

-----------------------------------------------------------------------------
(* The wheels and the flat set of sleeps.                                  *)

(* What an entry's state is to the flat set. *)
Status(x) == IF x = "Registered" THEN "waiting" ELSE IF x = "Fired" THEN "done" ELSE "idle"

Statuses == [t \in Timers |-> IF state[t] = "Registered" THEN "waiting"
                              ELSE IF state[t] = "Fired" THEN "done" ELSE "idle"]

(* The tick that the driver knows. *)
Known == IF at = "advance" THEN tick ELSE elapsed

Simulates == F!FNext \/ UNCHANGED F!fvars

(* The status of every sleep, before and after a step. *)
LEMMA StatusesAre ==
  /\ \A t \in Timers : Statuses[t] = Status(state[t])
  /\ \A t \in Timers : Statuses'[t] = Status(state'[t])
BY DEF Statuses, Status

(* A step that the flat set does not see. *)
LEMMA UnseenStep ==
  ASSUME Statuses' = Statuses, deadline' = deadline, Known' = Known,
         at = "advance" <=> at' = "advance", shutdown' = shutdown
  PROVE  Simulates
BY DEF Simulates, F!fvars, Statuses, Known

(* A new sleep, a dropped one: nothing waits for it. *)
LEMMA CancelSimulates ==
  ASSUME NEW t \in Timers, deadline' = [deadline EXCEPT ![t] = 0],
         Statuses' = [Statuses EXCEPT ![t] = "idle"],
         Known' = Known, at = "advance" <=> at' = "advance", shutdown' = shutdown
  PROVE  Simulates
<1>1. F!Cancel(t)
  BY DEF F!Cancel, Statuses, Known
<1> QED BY <1>1 DEF Simulates, F!FNext

(* The first poll starts a sleep, or ends it at once. *)
LEMMA PollSimulates ==
  ASSUME IInv, ShortSleeps, NEW t \in Timers, Poll(t)
  PROVE  Simulates
<1> DEFINE x == elapsed + duration[t] \div Unit
           gone == duration[t] = 0 \/ shutdown \/ x <= elapsed
           y == IF duration[t] = 0 THEN deadline[t] ELSE x
<1>1. /\ at \in {"run", "stopped"} /\ at' = at /\ state[t] = "Unregistered"
      /\ deadline' = [deadline EXCEPT ![t] = y]
      /\ state' = [state EXCEPT ![t] = IF gone THEN "Fired" ELSE "Registered"]
      /\ elapsed' = elapsed /\ shutdown' = shutdown /\ tick' = tick
  <2>1. /\ at \in {"run", "stopped"} /\ state[t] = "Unregistered"
        /\ deadline' = [deadline EXCEPT ![t] = IF duration[t] = 0 THEN @ ELSE x]
        /\ gone => state' = [state EXCEPT ![t] = "Fired"]
        /\ ~gone => state' = [state EXCEPT ![t] = "Registered"]
        /\ UNCHANGED <<time, duration, complete, elapsed, shutdown, at, parking>>
    BY Zenon DEF Poll, Free
  <2> HIDE DEF x, gone
  <2> QED BY <2>1 DEF IInv, TypeOK, parking
<1>2. deadline \in [Timers -> Nat] /\ elapsed \in Nat /\ deadline[t] = 0 /\ x \in Nat
  <2>1. deadline[t] = 0
    BY <1>1 DEF IInv, SleepInv
  <2>2. duration[t] \div Unit \in Nat
    BY Units DEF IInv, TypeOK
  <2> QED BY <2>1, <2>2 DEF IInv, TypeOK
<1>3. gone <=> y <= elapsed \/ shutdown
  BY <1>2
<1> HIDE DEF gone, x, y
<1>4. deadline'[t] = y
  BY <1>1, <1>2
<1>5. /\ Statuses[t] = "idle"
      /\ gone => Statuses' = [Statuses EXCEPT ![t] = "done"]
      /\ ~gone => Statuses' = [Statuses EXCEPT ![t] = "waiting"]
  BY <1>1 DEF Statuses, IInv, TypeOK
<1>6. Known = elapsed /\ Known' = elapsed
  BY <1>1 DEF Known
<1>7. F!Due(t)' <=> y <= elapsed
  BY <1>4, <1>6 DEF F!Due, Known
<1>8. F!Start(t)
  <2>1. deadline' = [deadline EXCEPT ![t] = deadline'[t]]
    BY <1>1, <1>4
  <2>2. UNCHANGED <<Known, at = "advance", shutdown>>
    BY <1>1, <1>6
  <2>3. CASE gone
    <3>1. Statuses' = [Statuses EXCEPT ![t] = "done"] /\ (F!Due(t)' \/ shutdown)
      BY <1>3, <1>5, <1>7, <2>3
    <3> QED BY <1>1, <1>5, <2>1, <2>2, <3>1 DEF F!Start, Statuses, Known
  <2>4. CASE ~gone
    <3>1. Statuses' = [Statuses EXCEPT ![t] = "waiting"] /\ ~F!Due(t)' /\ ~shutdown
      BY <1>3, <1>5, <1>7, <2>4
    <3> QED BY <1>1, <1>5, <2>1, <2>2, <3>1 DEF F!Start, Statuses, Known
  <2> QED BY <2>3, <2>4
<1> QED BY <1>8 DEF Simulates, F!FNext

(* A reset forgets the deadline of a sleep that ended. *)
LEMMA ResetSimulates ==
  ASSUME IInv, NEW t \in Timers, Reset(t)
  PROVE  Simulates
<1>1. /\ at \in {"run", "stopped"} /\ at' \in {at, "misused"} /\ state' = state
      /\ elapsed' = elapsed /\ shutdown' = shutdown /\ state[t] # "None"
      /\ state[t] = "Registered" => deadline' = deadline
      /\ state[t] # "Registered" => deadline' = [deadline EXCEPT ![t] = 0]
  BY DEF Reset, Free
<1>2. Known' = Known /\ Statuses' = Statuses /\ (at = "advance" <=> at' = "advance")
  BY <1>1 DEF Known, Statuses
<1>3. CASE state[t] = "Fired"
  <2>1. Statuses[t] = "done"
    BY <1>3 DEF Statuses
  <2>2. F!Forget(t)
    BY <1>1, <1>2, <1>3, <2>1 DEF F!Forget, Statuses, Known
  <2> QED BY <2>2 DEF Simulates, F!FNext
<1>4. CASE state[t] # "Fired"
  <2>1. deadline' = deadline
    <3>1. state[t] = "Registered" \/ deadline[t] = 0
      BY <1>1, <1>4 DEF IInv, TypeOK, SleepInv
    <3> QED BY <1>1, <3>1 DEF IInv, TypeOK
  <2> QED BY <1>1, <1>2, <2>1, UnseenStep
<1> QED BY <1>3, <1>4

(* A park serves the timers: the tick that the driver knows does not       *)
(* decrease.                                                               *)
LEMMA ParkSimulates ==
  ASSUME IInv, NEW m \in CallerMode, Park(m)
  PROVE  Simulates
<1>1. /\ at = "run" /\ at' = "advance" /\ tick' = time \div Unit
      /\ state' = state /\ deadline' = deadline /\ elapsed' = elapsed /\ shutdown' = shutdown
  BY DEF Park, entries
<1>2. Known = elapsed /\ Known' = time \div Unit
  BY <1>1 DEF Known
<1>3. elapsed <= time \div Unit
  BY <1>1 DEF IInv, ClockInv
<1>4. F!Serve
  BY <1>1, <1>2, <1>3 DEF F!Serve, Statuses, Known
<1> QED BY <1>4 DEF Simulates, F!FNext

(* A round of Wheels::advance ends sleeps that are due. *)
LEMMA ExpireSimulates ==
  ASSUME IInv, Expire
  PROVE  Simulates
<1>1. /\ at = "advance" /\ at' = at
      /\ \A t \in Timers : state'[t] # state[t] =>
           state[t] = "Registered" /\ deadline[t] <= tick /\ state'[t] = "Fired"
  BY ExpireStep DEF Expire
<1>2. deadline' = deadline /\ shutdown' = shutdown /\ tick' = tick
  BY DEF Expire
<1>3. Known = tick /\ Known' = tick
  BY <1>1, <1>2 DEF Known
<1>4. \A t \in Timers : Statuses'[t] # Statuses[t] =>
        Statuses[t] = "waiting" /\ F!Due(t) /\ Statuses'[t] = "done"
  <2> SUFFICES ASSUME NEW t \in Timers, Statuses'[t] # Statuses[t]
               PROVE  Statuses[t] = "waiting" /\ F!Due(t) /\ Statuses'[t] = "done"
    OBVIOUS
  <2>1. state'[t] # state[t]
    BY StatusesAre
  <2> QED BY <1>1, <2>1, StatusesAre DEF Status, F!Due
<1>5. F!Fire
  BY <1>1, <1>2, <1>3, <1>4 DEF F!Fire, Statuses, Known
<1> QED BY <1>5 DEF Simulates, F!FNext

(* The end of Wheels::advance: none that is due is left. *)
LEMMA EndAdvanceSimulates ==
  ASSUME IInv, EndAdvance
  PROVE  Simulates
<1>1. /\ at = "advance" /\ state' = state /\ deadline' = deadline /\ shutdown' = shutdown
      /\ elapsed' = tick /\ at' # "advance"
  BY DEF EndAdvance
<1>2. \A t \in Timers : state[t] = "Registered" => tick < deadline[t]
  BY EndAdvanceStep
<1>3. Known = tick /\ Known' = tick
  BY <1>1 DEF Known
<1>4. \A t \in Timers : Statuses[t] = "waiting" => ~F!Due(t)
  <2> SUFFICES ASSUME NEW t \in Timers, Statuses[t] = "waiting" PROVE ~F!Due(t)
    OBVIOUS
  <2>1. state[t] = "Registered"
    BY StatusesAre DEF Status
  <2>2. tick < deadline[t] /\ tick \in Nat /\ deadline[t] \in Nat
    BY <1>2, <2>1 DEF IInv, TypeOK
  <2> QED BY <1>1, <2>2 DEF F!Due
<1>5. F!Rest
  BY <1>1, <1>3, <1>4 DEF F!Rest, Statuses, Known
<1> QED BY <1>5 DEF Simulates, F!FNext

(* Shutdown ends every sleep that waits. *)
LEMMA ShutdownSimulates ==
  ASSUME IInv, Shutdown
  PROVE  Simulates
<1>1. /\ at = "run" /\ at' = "stopped" /\ shutdown' = TRUE
      /\ state' = [t \in Timers |-> IF t \in {u \in Timers : Linked(u)}
                                    THEN "Fired" ELSE state[t]]
      /\ UNCHANGED <<time, duration, deadline, elapsed, parking>>
  BY Zenon DEF Shutdown
<1>2. \A t \in Timers : Linked(t) <=> state[t] = "Registered"
  BY <1>1 DEF IInv, Listed, PendingInv
<1>3. \A t \in Timers : state'[t] = IF state[t] = "Registered" THEN "Fired" ELSE state[t]
  BY <1>1, <1>2
<1>4. Statuses' = [t \in Timers |-> IF Statuses[t] = "waiting" THEN "done" ELSE Statuses[t]]
  BY <1>3 DEF Statuses
<1>5. Known' = Known
  BY <1>1 DEF Known
<1>6. F!Close
  BY <1>1, <1>4, <1>5 DEF F!Close, Statuses, Known
<1> QED BY <1>6 DEF Simulates, F!FNext

(* Every step of the wheels is one of the flat set, or is not seen there. *)
LEMMA NextSimulates == ASSUME IInv, ShortSleeps, [Next]_vars PROVE Simulates
<1>1. CASE UNCHANGED vars
  <2>1. /\ state' = state /\ deadline' = deadline /\ elapsed' = elapsed
        /\ shutdown' = shutdown /\ at' = at /\ tick' = tick
    BY <1>1 DEF vars, entries, parking
  <2> QED BY <2>1, UnseenStep DEF Statuses, Known
<1>2. ASSUME NEW t \in Timers, NEW d \in Durations, Sleep(t, d) PROVE Simulates
  <2>1. /\ state[t] = "None" /\ state' = [state EXCEPT ![t] = "Unregistered"]
        /\ deadline' = [deadline EXCEPT ![t] = 0]
        /\ elapsed' = elapsed /\ shutdown' = shutdown /\ at' = at /\ tick' = tick
    BY <1>2 DEF Sleep, parking
  <2>2. Statuses' = [Statuses EXCEPT ![t] = "idle"]
    BY <2>1 DEF Statuses, IInv, TypeOK
  <2>3. Known' = Known
    BY <2>1 DEF Known
  <2> QED BY <2>1, <2>2, <2>3, CancelSimulates
<1>3. ASSUME NEW t \in Timers, Poll(t) PROVE Simulates
  BY <1>3, PollSimulates
<1>4. ASSUME NEW t \in Timers, PollFired(t) PROVE Simulates
  <2>1. /\ state' = state /\ deadline' = deadline /\ elapsed' = elapsed
        /\ shutdown' = shutdown /\ at' = at /\ tick' = tick
    BY <1>4 DEF PollFired, parking
  <2> QED BY <2>1, UnseenStep DEF Statuses, Known
<1>5. ASSUME NEW t \in Timers, Drop(t) PROVE Simulates
  <2>1. /\ state' = [state EXCEPT ![t] = "None"] /\ deadline' = [deadline EXCEPT ![t] = 0]
        /\ at' = at
    BY <1>5, DropStep
  <2>2. elapsed' = elapsed /\ shutdown' = shutdown /\ tick' = tick
    BY <1>5 DEF Drop, parking
  <2>3. Statuses' = [Statuses EXCEPT ![t] = "idle"]
    BY <2>1 DEF Statuses, IInv, TypeOK
  <2>4. Known' = Known
    BY <2>1, <2>2 DEF Known
  <2> QED BY <2>1, <2>2, <2>3, <2>4, CancelSimulates
<1>6. ASSUME NEW t \in Timers, Reset(t) PROVE Simulates
  BY <1>6, ResetSimulates
<1>7. ASSUME NEW m \in CallerMode, Park(m) PROVE Simulates
  BY <1>7, ParkSimulates
<1>8. CASE Expire
  BY <1>8, ExpireSimulates
<1>9. CASE EndAdvance
  BY <1>9, EndAdvanceSimulates
<1>10. CASE Wakeup
  <2>1. /\ state' = state /\ deadline' = deadline /\ elapsed' = elapsed
        /\ shutdown' = shutdown /\ at = "asleep" /\ at' = "run" /\ tick' = tick
    BY <1>10 DEF Wakeup, entries
  <2> QED BY <2>1, UnseenStep DEF Statuses, Known
<1>11. CASE Shutdown
  BY <1>11, ShutdownSimulates
<1>12. CASE Tick
  <2>1. /\ state' = state /\ deadline' = deadline /\ elapsed' = elapsed
        /\ shutdown' = shutdown /\ at' = at /\ tick' = tick
    BY <1>12 DEF Tick, entries, parking
  <2> QED BY <2>1, UnseenStep DEF Statuses, Known
<1> QED BY <1>1, <1>2, <1>3, <1>4, <1>5, <1>6, <1>7, <1>8, <1>9, <1>10, <1>11, <1>12
        DEF Next, Driver

(* At first nothing sleeps. *)
LEMMA InitSimulates == Init => F!FInit
BY DEF Init, F!FInit

(* The wheels keep the promise of the flat set of sleeps: a sleep ends     *)
(* when its tick has come and never before, and a park leaves none that is *)
(* due, whatever slots it lay in and however often it was put back.        *)
THEOREM WheelsImplementFlatTimers == ASSUME ShortSleeps PROVE Spec => TimersKept
<1>1. IInv /\ [Next]_vars => [F!FNext]_(F!fvars)
  BY NextSimulates DEF Simulates
<1> QED BY <1>1, SpecIInv, InitSimulates, PTL DEF Spec, TimersKept, F!FSafety

-----------------------------------------------------------------------------
(* The bits of the code.                                                   *)

(* Wheels of the code: a slot has as many bits as there are levels.        *)
CodeWheels == WordFits /\ Levels = BitLevels /\ Slots = BitSlots

LEMMA RangesOfBits == ASSUME CodeWheels PROVE \A l : Digits!SlotRange(l) = SlotRange(l)
BY Zenon DEF CodeWheels, Digits!SlotRange, SlotRange, Digits!Power, Power

(* The powers of two, and what is left of a number without its last bits. *)
Two(k) == Power(2)[k]
Shifted(n, k) == n \div Two(k)

(* A power of two is a positive number, and twice the one before. *)
LEMMA TwoLaw ==
  /\ Two(0) = 1
  /\ \A k \in Nat : Two(k) \in Nat /\ Two(k) > 0
  /\ \A k \in Nat : Two(k + 1) = 2 * Two(k)
BY PowerLaw, PowerPositive DEF Two

(* The law of exponents. *)
LEMMA TwoOfSum ==
  ASSUME NEW a \in Nat, NEW b \in Nat
  PROVE  Two(a + b) = Two(a) * Two(b)
<1> DEFINE T == {k \in Nat : Two(a + k) # Two(a) * Two(k)}
<1>1. ASSUME T # {} PROVE FALSE
  <2>1. PICK m \in T : \A k \in T : m <= k
    BY <1>1, LeastNumber
  <2>2. m # 0
    BY <2>1, TwoLaw
  <2>3. m - 1 \in Nat /\ Two(a + (m - 1)) = Two(a) * Two(m - 1)
    BY <2>1, <2>2
  <2>4. Two(m) = 2 * Two(m - 1) /\ Two(a + m) = 2 * Two(a + (m - 1))
    <3>1. (m - 1) + 1 = m /\ (a + (m - 1)) + 1 = a + m /\ a + (m - 1) \in Nat
      BY <2>3
    <3> QED BY <2>3, <3>1, TwoLaw
  <2>5. Two(a) \in Nat /\ Two(m - 1) \in Nat
    BY <2>3, TwoLaw
  <2>6. 2 * (Two(a) * Two(m - 1)) = Two(a) * (2 * Two(m - 1))
    BY <2>5
  <2> QED BY <2>1, <2>3, <2>4, <2>6
<1> QED BY <1>1

(* A larger exponent, a larger power. *)
LEMMA TwoMonotone ==
  ASSUME NEW a \in Nat, NEW b \in Nat, a < b
  PROVE  2 * Two(a) <= Two(b)
<1>1. b - (a + 1) \in Nat /\ a + 1 \in Nat /\ b = (a + 1) + (b - (a + 1))
  OBVIOUS
<1>2. Two(b) = Two(a + 1) * Two(b - (a + 1))
  BY <1>1, TwoOfSum
<1>3. Two(a + 1) = 2 * Two(a) /\ Two(a) \in Nat /\ Two(a) > 0
  BY TwoLaw
<1>4. Two(b - (a + 1)) \in Nat /\ Two(b - (a + 1)) > 0
  BY <1>1, TwoLaw
<1>5. \A p, q \in Nat : q > 0 => p <= p * q
  OBVIOUS
<1> QED BY <1>2, <1>3, <1>4, <1>5

(* The digits of the levels are made of bits. *)
LEMMA SlotRangeIsTwo ==
  ASSUME CodeWheels, NEW l \in Nat
  PROVE  SlotRange(l) = Two(l * Levels) /\ l * Levels \in Nat
<1>1. Levels \in Nat /\ Slots = Two(Levels)
  BY WheelMathAssumption DEF CodeWheels, WordFits, BitSlots, Two
<1>2. \A k \in Nat : k * Levels \in Nat
  BY <1>1
<1> DEFINE T == {k \in Nat : SlotRange(k) # Two(k * Levels)}
<1>3. ASSUME T # {} PROVE FALSE
  <2>1. PICK m \in T : \A k \in T : m <= k
    BY <1>3, LeastNumber
  <2>2. m # 0
    <3>1. 0 * Levels = 0
      BY <1>1
    <3> QED BY <2>1, <3>1, TwoLaw, SlotRanges
  <2>3. m - 1 \in Nat /\ SlotRange(m - 1) = Two((m - 1) * Levels)
    BY <2>1, <2>2
  <2>4. SlotRange(m) = Slots * SlotRange(m - 1)
    <3>1. (m - 1) + 1 = m
      BY <2>3
    <3> QED BY <2>3, <3>1, SlotRanges DEF LevelRange
  <2>5. m * Levels = Levels + (m - 1) * Levels /\ (m - 1) * Levels \in Nat
    BY <1>1, <2>1, <2>3
  <2>6. Two(m * Levels) = Two(Levels) * Two((m - 1) * Levels)
    BY <1>1, <2>5, TwoOfSum
  <2> QED BY <1>1, <2>1, <2>3, <2>4, <2>6
<1> QED BY <1>2, <1>3

(* A number is its bits: the last one, and the ones above. *)
LEMMA ShiftedLaw ==
  ASSUME NEW n \in Nat, NEW k \in Nat
  PROVE  /\ Shifted(n, 0) = n
         /\ Shifted(n, k) \in Nat
         /\ Shifted(n, k) % 2 \in {0, 1}
         /\ Shifted(n, k) = 2 * Shifted(n, k + 1) + (Shifted(n, k) % 2)
<1>1. Two(0) = 1 /\ Two(k) \in Nat /\ Two(k) > 0 /\ Two(k + 1) = 2 * Two(k)
  BY TwoLaw
<1>2. Shifted(n, 0) = n
  BY <1>1 DEF Shifted
<1>3. Shifted(n, k) \in Nat
  BY <1>1, Division DEF Shifted
<1>4. Shifted(n, k) \div 2 = Shifted(n, k + 1)
  BY <1>1, QuotientOfQuotient DEF Shifted
<1>5. \A q \in Nat : q % 2 \in {0, 1} /\ q = 2 * (q \div 2) + (q % 2)
  OBVIOUS
<1> QED BY <1>2, <1>3, <1>4, <1>5

(* No bits are left above a number that is less than a power of two. *)
LEMMA NoneLeft ==
  ASSUME NEW n \in Nat, NEW k \in Nat
  PROVE  n < Two(k) <=> Shifted(n, k) = 0
<1>1. Two(k) \in Nat /\ Two(k) > 0 /\ Two(k) * 1 = Two(k)
  BY TwoLaw
<1>2. Two(k) * 1 <= n <=> 1 <= Shifted(n, k)
  BY <1>1, QuotientAtLeast DEF Shifted
<1>3. Shifted(n, k) \in Nat
  BY ShiftedLaw
<1> QED BY <1>1, <1>2, <1>3

(* Numbers whose bits agree from a place on agree above it too. *)
LEMMA ShiftedSame ==
  ASSUME NEW m \in Nat, NEW n \in Nat, NEW j \in Nat, NEW k \in Nat, j <= k,
         Shifted(m, j) = Shifted(n, j)
  PROVE  Shifted(m, k) = Shifted(n, k)
<1> DEFINE T == {i \in Nat : j <= i /\ Shifted(m, i) # Shifted(n, i)}
<1>1. SUFFICES ASSUME T # {} PROVE FALSE
  OBVIOUS
<1>2. PICK i \in T : \A h \in T : i <= h
  BY <1>1, LeastNumber
<1>3. i # j /\ i - 1 \in Nat /\ j <= i - 1 /\ (i - 1) + 1 = i
  BY <1>2
<1>4. Shifted(m, i - 1) = Shifted(n, i - 1)
  <2>1. i - 1 \notin T
    BY <1>2, <1>3
  <2> QED BY <2>1, <1>3
<1>5. /\ Shifted(m, i - 1) = 2 * Shifted(m, i) + (Shifted(m, i - 1) % 2)
      /\ Shifted(n, i - 1) = 2 * Shifted(n, i) + (Shifted(n, i - 1) % 2)
  <2>1. /\ Shifted(m, i - 1) = 2 * Shifted(m, (i - 1) + 1) + (Shifted(m, i - 1) % 2)
        /\ Shifted(n, i - 1) = 2 * Shifted(n, (i - 1) + 1) + (Shifted(n, i - 1) % 2)
    BY <1>3, ShiftedLaw
  <2> QED BY <2>1, <1>3
<1>6. Shifted(m, i) \in Nat /\ Shifted(n, i) \in Nat
  BY <1>2, ShiftedLaw
<1> DEFINE a == Shifted(m, i)
           b == Shifted(n, i)
           c == Shifted(m, i - 1)
           d == Shifted(n, i - 1)
<1>7. c = 2 * a + (c % 2) /\ d = 2 * b + (d % 2) /\ a \in Nat /\ b \in Nat /\ c = d /\ a # b
  BY <1>2, <1>4, <1>5, <1>6
<1> HIDE DEF a, b, c, d
<1>8. 2 * a + (c % 2) = 2 * b + (c % 2)
  BY <1>7
<1>9. c \in Nat
  BY <1>3, ShiftedLaw DEF c
<1>10. c % 2 \in Nat
  BY <1>9
<1> QED BY <1>7, <1>8, <1>10

(* Which bits a word has. *)
LEMMA WordIs ==
  ASSUME CodeWheels, NEW n
  PROVE  /\ Word(n) \in SUBSET (0..(Width - 1)) /\ Word(n) \in SUBSET Nat
         /\ \A b \in Nat : b \in Word(n) <=> b < Width /\ Shifted(n, b) % 2 = 1
BY DEF CodeWheels, WordFits, Word, Shifted, Two

(* Words whose bits agree from a place on agree in all that is left there. *)
LEMMA SameBits ==
  ASSUME CodeWheels, NEW m \in Ticks, NEW n \in Ticks, NEW k \in Nat, k <= Width,
         \A b \in Nat : k <= b => (b \in Word(m) <=> b \in Word(n))
  PROVE  Shifted(m, k) = Shifted(n, k)
<1>1. Width \in Nat /\ m \in Nat /\ n \in Nat /\ m < Two(Width) /\ n < Two(Width)
  BY TwoLaw DEF CodeWheels, WordFits, Ticks, Two
<1> DEFINE T == {j \in Nat : j <= Width - k /\ Shifted(m, Width - j) # Shifted(n, Width - j)}
<1>2. ASSUME T # {} PROVE FALSE
  <2>1. PICK j \in T : \A h \in T : j <= h
    BY <1>2, LeastNumber
  <2> DEFINE i == Width - j
  <2>2. j # 0
    <3>1. Shifted(m, Width) = 0 /\ Shifted(n, Width) = 0
      BY <1>1, NoneLeft
    <3>2. Width - 0 = Width
      BY <1>1
    <3> QED BY <2>1, <3>1, <3>2
  <2>3. i \in Nat /\ k <= i /\ i < Width /\ j - 1 \in Nat /\ Width - (j - 1) = i + 1
    BY <1>1, <2>1, <2>2
  <2>4. Shifted(m, i + 1) = Shifted(n, i + 1)
    <3>1. j - 1 \notin T
      BY <2>1, <2>3
    <3>2. j - 1 <= Width - k
      BY <1>1, <2>1
    <3> QED BY <2>3, <3>1, <3>2
  <2>5. Shifted(m, i) # Shifted(n, i)
    BY <2>1
  <2> HIDE DEF i
  <2>6. i \in Word(m) <=> i \in Word(n)
    BY <2>3
  <2>7. Shifted(m, i) % 2 = 1 <=> Shifted(n, i) % 2 = 1
    BY <1>1, <2>3, <2>6, WordIs
  <2>8. /\ Shifted(m, i) % 2 \in {0, 1} /\ Shifted(m, i) = 2 * Shifted(m, i + 1) + (Shifted(m, i) % 2)
        /\ Shifted(n, i) % 2 \in {0, 1} /\ Shifted(n, i) = 2 * Shifted(n, i + 1) + (Shifted(n, i) % 2)
    BY <1>1, <2>3, ShiftedLaw
  <2>9. Shifted(m, i) % 2 = Shifted(n, i) % 2
    BY <2>7, <2>8
  <2> QED BY <2>4, <2>5, <2>8, <2>9
<1>3. Width - k \in Nat /\ Width - (Width - k) = k
  BY <1>1
<1>4. Width - k \notin T
  BY <1>2
<1> QED BY <1>3, <1>4

(* And the other way around. *)
LEMMA SameBitsAbove ==
  ASSUME CodeWheels, NEW m \in Nat, NEW n \in Nat, NEW k \in Nat,
         Shifted(m, k) = Shifted(n, k), NEW b \in Nat, k <= b
  PROVE  b \in Word(m) <=> b \in Word(n)
<1>1. Shifted(m, b) = Shifted(n, b)
  BY ShiftedSame
<1> QED BY <1>1, WordIs

(* A number is less than a power of two when all of its bits are below. *)
LEMMA LessIs ==
  ASSUME CodeWheels, NEW n \in Ticks, NEW k \in Nat, k <= Width
  PROVE  n < Two(k) <=> \A b \in Word(n) : b < k
<1>1. n \in Nat /\ 0 \in Nat /\ 0 \in Ticks /\ Word(n) \in SUBSET Nat
  <2>1. Two(Width) \in Nat /\ Two(Width) > 0
    BY TwoLaw DEF CodeWheels, WordFits
  <2> QED BY <2>1, WordIs DEF Ticks, Two
<1>2. \A b \in Nat : Shifted(0, b) = 0
  <2>1. \A b \in Nat : 0 < Two(b)
    BY TwoLaw
  <2> QED BY <2>1, NoneLeft
<1>3. \A b \in Nat : b \notin Word(0)
  <2>1. 0 % 2 # 1
    OBVIOUS
  <2> QED BY <1>1, <1>2, <2>1, WordIs
<1>4. ASSUME n < Two(k) PROVE \A b \in Word(n) : b < k
  <2>1. Shifted(n, k) = Shifted(0, k)
    BY <1>1, <1>2, <1>4, NoneLeft
  <2>2. \A b \in Nat : k <= b => b \notin Word(n)
    BY <1>1, <1>3, <2>1, SameBitsAbove
  <2> QED BY <1>1, <2>2
<1>5. ASSUME \A b \in Word(n) : b < k PROVE n < Two(k)
  <2>1. \A b \in Nat : k <= b => b \notin Word(n)
    BY <1>5
  <2>2. \A b \in Nat : k <= b => (b \in Word(n) <=> b \in Word(0))
    BY <1>3, <2>1
  <2>3. Shifted(n, k) = Shifted(0, k)
    BY <1>1, <2>2, SameBits
  <2> QED BY <1>1, <1>2, <2>3, NoneLeft
<1> QED BY <1>4, <1>5

(* There is a number with any bits. *)
LEMMA BitsExist ==
  \A k \in Nat : \A w \in SUBSET (0..(k - 1)) :
    \E n \in Nat : /\ n < Two(k)
                   /\ \A b \in 0..(k - 1) : Shifted(n, b) % 2 = 1 <=> b \in w
<1> DEFINE Has(k) == \A w \in SUBSET (0..(k - 1)) :
             \E n \in Nat : /\ n < Two(k)
                            /\ \A b \in 0..(k - 1) : Shifted(n, b) % 2 = 1 <=> b \in w
           T == {k \in Nat : ~Has(k)}
<1>1. ASSUME T # {} PROVE FALSE
  <2>1. PICK m \in T : \A k \in T : m <= k
    BY <1>1, LeastNumber
  <2>2. m # 0
    <3>1. Has(0)
      <4>1. 0 \in Nat /\ 0 < Two(0) /\ 0..(0 - 1) = {}
        BY TwoLaw
      <4> QED BY <4>1
    <3> QED BY <2>1, <3>1
  <2>3. m - 1 \in Nat /\ m - 1 \notin T /\ (m - 1) + 1 = m
    BY <2>1, <2>2
  <2>4. Has(m - 1)
    BY <2>3
  <2>5. Has(m)
    <3> SUFFICES ASSUME NEW w \in SUBSET (0..(m - 1))
                 PROVE  \E n \in Nat : /\ n < Two(m)
                                       /\ \A b \in 0..(m - 1) : Shifted(n, b) % 2 = 1 <=> b \in w
      OBVIOUS
    <3> DEFINE v == {b \in 0..((m - 1) - 1) : b + 1 \in w}
               last == IF 0 \in w THEN 1 ELSE 0
    <3>1. v \in SUBSET (0..((m - 1) - 1))
      OBVIOUS
    <3>2. PICK h \in Nat : /\ h < Two(m - 1)
                           /\ \A b \in 0..((m - 1) - 1) : Shifted(h, b) % 2 = 1 <=> b \in v
      BY <2>4, <3>1
    <3> DEFINE n == 2 * h + last
    <3>3. last \in {0, 1} /\ (last = 1 <=> 0 \in w)
      OBVIOUS
    <3>4. n \in Nat /\ n \div 2 = h /\ n % 2 = last
      BY <3>3
    <3>5. n < Two(m)
      <4>1. Two((m - 1) + 1) = 2 * Two(m - 1) /\ Two(m - 1) \in Nat
        BY <2>3, TwoLaw
      <4>2. 2 * h + last < 2 * Two(m - 1)
        BY <3>2, <3>3, <4>1
      <4> QED BY <2>3, <4>1, <4>2
    <3> HIDE DEF n
    <3>6. \A c \in Nat : Shifted(n, c + 1) = Shifted(h, c)
      <4> SUFFICES ASSUME NEW c \in Nat PROVE Shifted(n, c + 1) = Shifted(h, c)
        OBVIOUS
      <4>1. Two(c) \in Nat /\ Two(c) > 0 /\ Two(c + 1) = Two(c) * 2
        BY TwoLaw
      <4>2. (n \div 2) \div Two(c) = n \div (Two(c) * 2)
        BY <3>4, <4>1, QuotientOfQuotient
      <4> QED BY <3>4, <4>1, <4>2 DEF Shifted
    <3>7. ASSUME NEW b \in 0..(m - 1) PROVE Shifted(n, b) % 2 = 1 <=> b \in w
      <4>1. CASE b = 0
        <5>1. Shifted(n, 0) = n
          BY <3>4, ShiftedLaw
        <5> QED BY <3>3, <3>4, <4>1, <5>1
      <4>2. CASE b # 0
        <5>1. b - 1 \in 0..((m - 1) - 1) /\ (b - 1) + 1 = b /\ b - 1 \in Nat
          BY <2>3, <4>2
        <5>2. Shifted(n, b) = Shifted(h, b - 1)
          BY <3>6, <5>1
        <5>3. b - 1 \in v <=> b \in w
          BY <5>1
        <5> QED BY <3>2, <5>1, <5>2, <5>3
      <4> QED BY <4>1, <4>2
    <3> QED BY <3>4, <3>5, <3>7
  <2> HIDE DEF Has
  <2> QED BY <2>1, <2>5
<1> QED BY <1>1

(* So a word is that of its number. *)
LEMMA NumberIs ==
  ASSUME CodeWheels, NEW w \in SUBSET (0..(Width - 1))
  PROVE  Number(w) \in Ticks /\ Word(Number(w)) = w
<1>1. Width \in Nat /\ Two(Width) \in Nat
  BY TwoLaw DEF CodeWheels, WordFits
<1>2. PICK n \in Nat : /\ n < Two(Width)
                       /\ \A b \in 0..(Width - 1) : Shifted(n, b) % 2 = 1 <=> b \in w
  BY <1>1, BitsExist
<1>3. n \in Ticks
  BY <1>1, <1>2 DEF Ticks, Two
<1>4. Word(n) = w
  BY <1>2 DEF Word, Shifted, Two
<1> QED BY <1>3, <1>4 DEF Number

(* The bits of a power of two less one are all those below. *)
LEMMA LastBits ==
  ASSUME CodeWheels, NEW k \in Nat, k <= Width
  PROVE  Two(k) - 1 \in Ticks /\ Word(Two(k) - 1) = 0..(k - 1)
<1> DEFINE n == Two(k) - 1
<1>1. Width \in Nat /\ Two(k) \in Nat /\ n \in Nat /\ n < Two(k)
  BY TwoLaw DEF CodeWheels, WordFits
<1>2. n \in Ticks
  <2>1. Two(k) <= Two(Width)
    <3>1. k = Width \/ 2 * Two(k) <= Two(Width)
      BY <1>1, TwoMonotone
    <3> QED BY <1>1, <3>1, TwoLaw
  <2>2. Two(Width) \in Nat
    BY <1>1, TwoLaw
  <2> QED BY <1>1, <2>1, <2>2 DEF Ticks, Two
<1>3. \A b \in Word(n) : b < k
  <2> HIDE DEF n
  <2> QED BY <1>1, <1>2, LessIs
<1>4. ASSUME NEW b \in 0..(k - 1) PROVE b \in Word(n)
  <2> DEFINE t == Two(k - b - 1)
  <2>1. b \in Nat /\ k - b - 1 \in Nat /\ k - b \in Nat /\ (k - b - 1) + 1 = k - b /\ b + (k - b) = k
    OBVIOUS
  <2>2. t \in Nat /\ t > 0 /\ Two(b) \in Nat /\ Two(b) > 0
    BY <2>1, TwoLaw
  <2>3. Two(k) = Two(b) * (2 * t)
    <3>1. Two(k - b) = 2 * t
      BY <2>1, TwoLaw
    <3>2. Two(b + (k - b)) = Two(b) * Two(k - b)
      BY <2>1, TwoOfSum
    <3> QED BY <2>1, <3>1, <3>2
  <2> HIDE DEF t, n
  <2>4. Shifted(n, b) \in Nat
    BY <1>1, <2>1, ShiftedLaw
  <2>5. 2 * t <= Shifted(n, b) <=> Two(b) * (2 * t) <= n
    <3>1. 2 * t \in Nat
      BY <2>2
    <3> QED BY <1>1, <2>2, <3>1, QuotientAtLeast DEF Shifted
  <2>6. 2 * t - 1 <= Shifted(n, b) <=> Two(b) * (2 * t - 1) <= n
    <3>1. 2 * t - 1 \in Nat
      BY <2>2
    <3> QED BY <1>1, <2>2, <3>1, QuotientAtLeast DEF Shifted
  <2>7. Two(b) * (2 * t - 1) = Two(k) - Two(b)
    <3>1. Two(b) * (2 * t - 1) = Two(b) * (2 * t) - Two(b)
      BY <2>2
    <3> QED BY <2>3, <3>1
  <2>8. Two(b) * (2 * t - 1) <= n /\ ~(Two(b) * (2 * t) <= n)
    BY <1>1, <2>2, <2>3, <2>7 DEF n
  <2>9. Shifted(n, b) = 2 * t - 1
    BY <2>2, <2>4, <2>5, <2>6, <2>8
  <2>10. (2 * t - 1) % 2 = 1
    BY <2>2
  <2> QED BY <1>1, <2>1, <2>9, <2>10, WordIs
<1>5. Word(n) \subseteq 0..(k - 1)
  <2>1. Word(n) \in SUBSET Nat
    BY WordIs
  <2> HIDE DEF n
  <2> QED BY <1>3, <2>1
<1> QED BY <1>2, <1>4, <1>5

(* The highest bit of a word, and the lowest one of some bits. *)
LEMMA HighestBitIs ==
  ASSUME CodeWheels, NEW w \in SUBSET (0..(Width - 1)), w # {}
  PROVE  HighestBit(w) \in w /\ \A c \in w : c <= HighestBit(w)
<1> DEFINE T == {Width - c : c \in w}
<1>1. Width \in Nat
  BY DEF CodeWheels, WordFits
<1>2. T \in SUBSET Nat /\ T # {}
  <2>1. \A c \in w : c \in 0..(Width - 1)
    OBVIOUS
  <2>2. \A c \in w : Width - c \in Nat
    BY <1>1, <2>1
  <2> QED BY <2>2
<1>3. PICK m \in T : \A k \in T : m <= k
  BY <1>2, LeastNumber
<1>4. PICK b \in w : m = Width - b
  BY <1>3
<1>5. \A c \in w : Width - b <= Width - c
  BY <1>3, <1>4
<1>6. \A c \in w : c <= b
  BY <1>1, <1>5
<1>7. \E d \in w : \A c \in w : c <= d
  BY <1>6
<1> QED BY <1>7, Zenon DEF HighestBit

LEMMA LowestBitIs ==
  ASSUME NEW w \in SUBSET Nat, w # {}
  PROVE  LowestBit(w) \in w /\ \A c \in w : LowestBit(w) <= c
<1>1. \E d \in w : \A c \in w : d <= c
  BY LeastNumber
<1> QED BY <1>1, Zenon DEF LowestBit

(* The highest bit is where the largest power of two in a number is. *)
LEMMA HighestBitOf ==
  ASSUME CodeWheels, NEW n \in Ticks, NEW k \in Nat, k < Width, Two(k) <= n, n < Two(k + 1)
  PROVE  HighestBit(Word(n)) = k
<1>1. n \in Nat /\ Two(k) \in Nat /\ Width \in Nat
  BY TwoLaw DEF CodeWheels, WordFits, Ticks
<1>2. \A b \in Word(n) : b < k + 1
  BY <1>1, LessIs
<1>3. \E b \in Word(n) : ~(b < k)
  BY <1>1, LessIs
<1>4. Word(n) \in SUBSET (0..(Width - 1)) /\ Word(n) \in SUBSET Nat
  BY WordIs
<1>5. k \in Word(n)
  BY <1>2, <1>3, <1>4
<1>6. HighestBit(Word(n)) \in Word(n) /\ k <= HighestBit(Word(n))
  BY <1>4, <1>5, HighestBitIs
<1> QED BY <1>2, <1>4, <1>6

(* The bits in which two ticks differ. *)
Xor(m, n) == (Word(m) \ Word(n)) \cup (Word(n) \ Word(m))

(* Ticks agree above a level when they differ only in bits of it and of    *)
(* those below.                                                            *)
LEMMA UpperIsShifted ==
  ASSUME CodeWheels, NEW m \in Ticks, NEW n \in Ticks, NEW l \in Level
  PROVE  /\ l * Levels \in Nat /\ l * Levels <= Levels * Levels - Levels
         /\ (l + 1) * Levels = l * Levels + Levels
         /\ Upper(m, l + 1) = Upper(n, l + 1) <=> \A b \in Xor(m, n) : b < (l + 1) * Levels
<1>1. /\ Levels \in Nat /\ Levels > 1 /\ l \in Nat /\ l <= Levels - 1 /\ l + 1 \in Nat
      /\ Width \in Nat /\ Levels * Levels <= Width
  BY WheelMathAssumption DEF CodeWheels, WordFits, Level
<1>2. m \in Nat /\ n \in Nat
  BY DEF Ticks
<1>3. l * Levels \in Nat /\ (l + 1) * Levels = l * Levels + Levels
  BY <1>1
<1>4. l * Levels <= Levels * Levels - Levels
  <2>1. PICK e \in Nat : Levels - 1 = l + e
    <3>1. Levels - 1 - l \in Nat /\ Levels - 1 = l + (Levels - 1 - l)
      BY <1>1
    <3> QED BY <3>1
  <2>2. (Levels - 1) * Levels = l * Levels + e * Levels /\ e * Levels \in Nat
    BY <1>1, <2>1
  <2>3. (Levels - 1) * Levels = Levels * Levels - Levels
    BY <1>1
  <2> QED BY <1>3, <2>2, <2>3
<1> DEFINE k == (l + 1) * Levels
<1>5. k \in Nat /\ k <= Width
  BY <1>1, <1>3, <1>4
<1>6. Upper(m, l + 1) = Shifted(m, k) /\ Upper(n, l + 1) = Shifted(n, k)
  BY <1>1, SlotRangeIsTwo DEF Upper, Shifted
<1>7. Word(m) \in SUBSET Nat /\ Word(n) \in SUBSET Nat
  BY WordIs
<1> HIDE DEF k
<1>8. Shifted(m, k) = Shifted(n, k) <=> \A b \in Xor(m, n) : b < k
  <2>1. ASSUME Shifted(m, k) = Shifted(n, k), NEW b \in Xor(m, n) PROVE b < k
    <3>1. b \in Nat
      BY <1>7 DEF Xor
    <3>2. ~(b \in Word(m) <=> b \in Word(n))
      BY DEF Xor
    <3> QED BY <1>2, <1>5, <2>1, <3>1, <3>2, SameBitsAbove
  <2>2. ASSUME \A b \in Xor(m, n) : b < k PROVE Shifted(m, k) = Shifted(n, k)
    <3>1. \A b \in Nat : k <= b => (b \in Word(m) <=> b \in Word(n))
      BY <1>5, <2>2 DEF Xor
    <3> QED BY <1>5, <3>1, SameBits
  <2> QED BY <2>1, <2>2
<1> QED BY <1>3, <1>4, <1>6, <1>8 DEF k

(* The level that wheel_for finds is the lowest above which ticks agree. *)
LEMMA WheelForLowest ==
  ASSUME NEW m \in Nat, NEW n \in Nat, NEW w \in Level,
         \A l \in Level : l < w => Upper(m, l + 1) # Upper(n, l + 1),
         w = Levels - 1 \/ Upper(m, w + 1) = Upper(n, w + 1)
  PROVE  WheelFor(m, n) = w
<1> DEFINE same == {l \in 0..(Levels - 1) : m \div LevelRange(l) = n \div LevelRange(l)}
<1>1. Levels \in Nat /\ Levels > 0 /\ Level \subseteq Nat /\ w <= Levels - 1
  BY WheelMathAssumption DEF Level
<1>2. WheelFor(m, n) = IF same = {} THEN Levels - 1
                       ELSE CHOOSE l \in same : \A k \in same : l <= k
  BY Zenon DEF WheelFor
<1>3. same \subseteq Level /\ \A l \in Level : l \in same <=> Upper(m, l + 1) = Upper(n, l + 1)
  <2>1. \A l \in Level : /\ Upper(m, l + 1) = m \div LevelRange(l)
                         /\ Upper(n, l + 1) = n \div LevelRange(l)
    BY <1>1, UpperNext
  <2> QED BY <2>1 DEF Level
<1> HIDE DEF same
<1>4. \A k \in same : w <= k
  BY <1>1, <1>3
<1>5. same # {} => w \in same
  <2>1. ASSUME NEW k \in same, w = Levels - 1 PROVE k = w
    <3>1. w <= k /\ k \in Nat /\ k <= Levels - 1
      BY <1>1, <1>3, <1>4 DEF Level
    <3> QED BY <1>1, <2>1, <3>1
  <2> QED BY <1>3, <2>1
<1>6. ASSUME same # {} PROVE (CHOOSE l \in same : \A k \in same : l <= k) = w
  <2> DEFINE c == CHOOSE l \in same : \A k \in same : l <= k
  <2>1. \E l \in same : \A k \in same : l <= k
    BY <1>4, <1>5, <1>6
  <2>2. c \in same /\ \A k \in same : c <= k
    BY <2>1, Zenon
  <2> HIDE DEF c
  <2>3. c <= w /\ w <= c /\ c \in Nat /\ w \in Nat
    BY <1>1, <1>3, <1>4, <1>5, <1>6, <2>2
  <2>4. c = w
    BY <2>3
  <2> QED BY <2>4 DEF c
<1>7. same = {} => w = Levels - 1
  BY <1>3
<1> QED BY <1>2, <1>6, <1>7

(* The quotient of a number between two multiples. *)
LEMMA QuotientIs ==
  ASSUME NEW n \in Nat, NEW d \in Nat, d > 0, NEW q \in Nat, d * q <= n, n < d * q + d
  PROVE  n \div d = q
<1>1. n \div d \in Nat
  BY Division
<1>2. q <= n \div d
  BY QuotientAtLeast
<1>3. d * (q + 1) = d * q + d /\ d * q \in Nat /\ q + 1 \in Nat
  OBVIOUS
<1>4. ~(q + 1 <= n \div d)
  BY <1>3, QuotientAtLeast
<1> QED BY <1>1, <1>2, <1>4

(* The masks and the leading zeros of wheel_for: the highest bit in which  *)
(* two ticks differ, on the first level at least and on the last one at    *)
(* most, lies in the highest digit in which they do.                       *)
LEMMA WheelForBitsIs ==
  ASSUME CodeWheels, NEW m \in Ticks, NEW n \in Ticks
  PROVE  WheelForBits(m, n) = WheelFor(m, n)
<1> DEFINE LL == Levels * Levels
           masked == Xor(m, n) \cup Word(SlotMask)
<1>1. /\ Levels \in Nat /\ Levels > 1 /\ LL \in Nat /\ LL - 1 \in Nat /\ LL - 1 > 0
      /\ Width \in Nat /\ LL <= Width /\ Levels <= Width /\ 2 * Levels <= LL
  <2>1. Levels \in Nat /\ Levels > 1 /\ Width \in Nat /\ LL <= Width
    BY WheelMathAssumption DEF CodeWheels, WordFits
  <2>2. \A k \in Nat : k > 1 => k * k \in Nat /\ 2 * k <= k * k
    OBVIOUS
  <2>3. LL \in Nat /\ 2 * Levels <= LL
    BY <2>1, <2>2
  <2> QED BY <2>1, <2>3
<1>2. m \in Nat /\ n \in Nat
  BY DEF Ticks
<1>3. Word(SlotMask) = 0..(Levels - 1)
  <2>1. SlotMask = Two(Levels) - 1
    BY DEF CodeWheels, SlotMask, Two
  <2> QED BY <1>1, <2>1, LastBits
<1>4. WheelForBits(m, n) =
        HighestBit(IF Number(masked) >= MaxDuration THEN Word(MaxDuration - 1) ELSE masked)
          \div Levels
  BY DEF CodeWheels, WheelForBits, Xor
<1>5. MaxDuration = Two(LL) - 1
  BY DEF CodeWheels, MaxDuration, Two
<1>6. masked \in SUBSET (0..(Width - 1)) /\ masked # {}
  <2>1. Xor(m, n) \in SUBSET (0..(Width - 1))
    BY WordIs DEF Xor
  <2>2. /\ \A b \in 0..(Levels - 1) : b \in 0..(Width - 1)
        /\ 0 \in 0..(Levels - 1)
    BY <1>1
  <2> QED BY <1>3, <2>1, <2>2
<1>7. \A b \in masked : b \in Nat /\ (b \in Xor(m, n) \/ b < Levels)
  <2>1. \A b \in masked : b \in Nat
    BY <1>6
  <2>2. \A b \in 0..(Levels - 1) : b < Levels
    BY <1>1
  <2> QED BY <1>3, <2>1, <2>2
<1>8. Xor(m, n) \subseteq masked
  OBVIOUS
<1>9. \A l \in Level : /\ l \in Nat /\ l <= Levels - 1 /\ l * Levels \in Nat
                       /\ (l + 1) * Levels = l * Levels + Levels
                       /\ l * Levels <= LL - Levels
                       /\ Upper(m, l + 1) = Upper(n, l + 1)
                            <=> \A b \in Xor(m, n) : b < (l + 1) * Levels
  <2>1. \A l \in Level : l \in Nat /\ l <= Levels - 1
    BY <1>1 DEF Level
  <2> QED BY <2>1, UpperIsShifted
<1>10. Number(masked) \in Ticks /\ Word(Number(masked)) = masked
  BY <1>6, NumberIs
<1> HIDE DEF LL, masked
<1>11. ASSUME Number(masked) >= MaxDuration PROVE WheelForBits(m, n) = WheelFor(m, n)
  <2>1. /\ Two(LL) = 2 * Two(LL - 1) /\ Two(LL - 1) \in Nat /\ Two(LL - 1) >= 2
        /\ Two(LL) - 1 \in Ticks /\ Number(masked) \in Nat
    <3>1. (LL - 1) + 1 = LL
      BY <1>1
    <3>2. 2 * Two(0) <= Two(LL - 1) /\ Two(0) = 1
      BY <1>1, TwoLaw, TwoMonotone
    <3> QED BY <1>1, <1>10, <3>1, <3>2, TwoLaw, LastBits DEF Ticks
  <2>2. HighestBit(Word(MaxDuration - 1)) = LL - 1
    <3>1. MaxDuration - 1 \in Ticks /\ Two(LL - 1) <= MaxDuration - 1 /\ MaxDuration - 1 < Two(LL)
      <4>1. Power(2)[Width] \in Nat
        BY <1>1, TwoLaw DEF Two
      <4> QED BY <1>5, <2>1, <4>1 DEF Ticks
    <3>2. (LL - 1) + 1 = LL /\ LL - 1 < Width
      BY <1>1
    <3> QED BY <1>1, <3>1, <3>2, HighestBitOf
  <2>3. (LL - 1) \div Levels = Levels - 1
    <3>1. Levels * (Levels - 1) = LL - Levels /\ Levels - 1 \in Nat
      BY <1>1 DEF LL
    <3>2. LL - 1 < Levels * (Levels - 1) + Levels /\ Levels * (Levels - 1) <= LL - 1
      BY <1>1, <3>1
    <3> QED BY <1>1, <3>1, <3>2, QuotientIs
  <2>4. PICK b \in masked : ~(b < LL - 1)
    <3>1. ~(Number(masked) < Two(LL - 1))
      BY <1>5, <1>11, <2>1
    <3>2. LL - 1 <= Width
      BY <1>1
    <3> QED BY <1>1, <1>10, <3>1, <3>2, LessIs
  <2>5. b \in Xor(m, n) /\ b \in Nat
    BY <1>1, <1>7, <2>4
  <2>6. ASSUME NEW l \in Level, l < Levels - 1 PROVE Upper(m, l + 1) # Upper(n, l + 1)
    <3>1. l + 1 \in Level
      BY <1>1, <2>6 DEF Level
    <3>2. (l + 1) * Levels <= LL - Levels /\ (l + 1) * Levels \in Nat
      BY <1>9, <3>1
    <3>3. ~(b < (l + 1) * Levels)
      BY <1>1, <2>4, <2>5, <3>2
    <3> QED BY <1>9, <2>5, <3>3
  <2>7. Levels - 1 \in Level
    BY <1>1 DEF Level
  <2>8. WheelFor(m, n) = Levels - 1
    BY <1>2, <2>6, <2>7, WheelForLowest
  <2> QED BY <1>4, <1>11, <2>2, <2>3, <2>8
<1>12. ASSUME ~(Number(masked) >= MaxDuration) PROVE WheelForBits(m, n) = WheelFor(m, n)
  <2> DEFINE h == HighestBit(masked)
             q == h \div Levels
  <2>1. h \in masked /\ \A c \in masked : c <= h
    BY <1>6, HighestBitIs
  <2>2. h \in Nat /\ h < LL
    <3>1. Number(masked) \in Nat /\ Number(masked) < Two(LL)
      <4>1. Two(LL) \in Nat
        BY <1>1, TwoLaw
      <4> QED BY <1>5, <1>10, <1>12, <4>1 DEF Ticks
    <3>2. \A b \in masked : b < LL
      BY <1>1, <1>10, <3>1, LessIs
    <3> QED BY <1>7, <2>1, <3>2
  <2> HIDE DEF h
  <2>3. q \in Nat /\ Levels * q <= h /\ h < Levels * q + Levels /\ Levels * q = q * Levels
    <3>1. h % Levels \in 0..(Levels - 1) /\ h = Levels * q + (h % Levels) /\ q \in Nat
      BY <1>1, <2>2, Division
    <3> HIDE DEF q
    <3>2. Levels * q \in Nat /\ Levels * q = q * Levels
      BY <1>1, <3>1
    <3> QED BY <1>1, <3>1, <3>2
  <2>4. q \in Level
    <3>1. Levels * Levels <= h <=> Levels <= q
      BY <1>1, <2>2, QuotientAtLeast
    <3> QED BY <1>1, <2>2, <2>3, <3>1 DEF LL, Level
  <2> HIDE DEF q
  <2>5. Upper(m, q + 1) = Upper(n, q + 1)
    <3>1. \A b \in Xor(m, n) : b < (q + 1) * Levels
      <4>1. \A b \in Xor(m, n) : b <= h /\ b \in Nat
        BY <1>7, <1>8, <2>1
      <4>2. h < (q + 1) * Levels /\ (q + 1) * Levels \in Nat
        BY <1>1, <1>9, <2>3, <2>4
      <4> QED BY <2>2, <4>1, <4>2
    <3> QED BY <1>9, <2>4, <3>1
  <2>6. ASSUME NEW l \in Level, l < q PROVE Upper(m, l + 1) # Upper(n, l + 1)
    <3>1. PICK e \in Nat : q = (l + 1) + e
      <4>1. q - (l + 1) \in Nat /\ q = (l + 1) + (q - (l + 1))
        BY <1>9, <2>3, <2>6
      <4> QED BY <4>1
    <3>2. l \in Nat /\ l * Levels \in Nat /\ (l + 1) * Levels = l * Levels + Levels
      BY <1>9, <2>6
    <3>3. q * Levels = (l + 1) * Levels + e * Levels /\ e * Levels \in Nat
      BY <1>1, <3>1, <3>2
    <3>4. (l + 1) * Levels <= h /\ ~(h < Levels)
      BY <1>1, <2>2, <2>3, <3>2, <3>3
    <3>5. h \in Xor(m, n)
      BY <1>7, <2>1, <3>4
    <3>6. ~(h < (l + 1) * Levels)
      BY <1>1, <2>2, <3>2, <3>4
    <3> QED BY <1>9, <2>6, <3>5, <3>6
  <2>7. WheelFor(m, n) = q
    BY <1>2, <2>4, <2>5, <2>6, WheelForLowest
  <2> QED BY <1>4, <1>12, <2>7 DEF q, h
<1> QED BY <1>11, <1>12

(* The shift of slot_for takes off the digits of the levels below. *)
LEMMA SlotForBitsIs ==
  ASSUME CodeWheels, NEW n \in Nat, NEW l \in Nat
  PROVE  SlotForBits(n, l) = SlotFor(n, l)
BY SlotRangeIsTwo DEF CodeWheels, SlotForBits, SlotFor, Two

-----------------------------------------------------------------------------
(* The rotation of next_occupied_slot.                                     *)

(* Multiples of a number do not change the remainder. *)
LEMMA RemainderOfSum ==
  ASSUME NEW a \in Nat, NEW n \in Nat, NEW d \in Nat, d > 0
  PROVE  (a + n) % d = (a + (n % d)) % d
<1> DEFINE q == n \div d
           r == n % d
           p == (a + r) \div d
           s == (a + r) % d
<1>1. q \in Nat /\ r \in 0..(d - 1) /\ n = d * q + r
  BY Division
<1>2. a + r \in Nat
  BY <1>1
<1>3. p \in Nat /\ s \in 0..(d - 1) /\ a + r = d * p + s
  BY <1>2, Division
<1> HIDE DEF q, r, p, s
<1>4. d * (p + q) = d * p + d * q /\ d * p \in Nat /\ d * q \in Nat /\ p + q \in Nat
  BY <1>1, <1>3
<1>5. a + n = d * (p + q) + s
  BY <1>1, <1>2, <1>3, <1>4
<1>6. (a + n) \div d = p + q
  <2>1. d * (p + q) <= a + n /\ a + n < d * (p + q) + d /\ a + n \in Nat
    BY <1>1, <1>3, <1>4, <1>5
  <2> QED BY <1>4, <2>1, QuotientIs
<1>7. a + n = d * ((a + n) \div d) + ((a + n) % d) /\ (a + n) % d \in Nat
  <2>1. a + n \in Nat
    OBVIOUS
  <2> QED BY <2>1, Division
<1>8. (a + n) % d = s
  BY <1>3, <1>4, <1>5, <1>6, <1>7
<1> QED BY <1>8 DEF r, s

(* How far ahead a slot lies tells the slot. *)
LEMMA AheadIs ==
  ASSUME NEW c \in Slot, NEW s \in Slot
  PROVE  /\ (s + Slots - c) % Slots \in Slot
         /\ (((s + Slots - c) % Slots) + c) % Slots = s
         /\ \A b \in Slot : (b + c) % Slots = s => b = (s + Slots - c) % Slots
<1>1. Slots \in Nat /\ Slots > 1
  BY WheelMathAssumption
<1>2. /\ \A x \in Slot : x % Slots = x /\ (x + Slots) % Slots = x
  <2>1. \A d \in Nat : \A x \in 0..(d - 1) : x % d = x /\ (x + d) % d = x
    OBVIOUS
  <2> QED BY <1>1, <2>1 DEF Slot
<1>3. ASSUME NEW b \in Slot
      PROVE  (b + c) % Slots = IF b + c < Slots THEN b + c ELSE b + c - Slots
  <2>1. CASE b + c < Slots
    <3>1. b + c \in Slot
      BY <1>1, <2>1 DEF Slot
    <3> QED BY <1>2, <2>1, <3>1
  <2>2. CASE ~(b + c < Slots)
    <3>1. b + c - Slots \in Slot /\ b + c = (b + c - Slots) + Slots
      BY <1>1, <2>2 DEF Slot
    <3> QED BY <1>2, <2>2, <3>1
  <2> QED BY <2>1, <2>2
<1>4. (s + Slots - c) % Slots = IF s < c THEN s + Slots - c ELSE s - c
  <2>1. CASE s < c
    <3>1. s + Slots - c \in Slot
      BY <1>1, <2>1 DEF Slot
    <3> QED BY <1>2, <2>1, <3>1
  <2>2. CASE ~(s < c)
    <3>1. s - c \in Slot /\ s + Slots - c = (s - c) + Slots
      BY <1>1, <2>2 DEF Slot
    <3> QED BY <1>2, <2>2, <3>1
  <2> QED BY <2>1, <2>2
<1> DEFINE a == IF s < c THEN s + Slots - c ELSE s - c
<1>5. a \in Slot
  BY <1>1 DEF Slot
<1>6. (a + c) % Slots = s
  <2>1. (IF a + c < Slots THEN a + c ELSE a + c - Slots) = s
    BY <1>1 DEF Slot
  <2> HIDE DEF a
  <2> QED BY <1>3, <1>5, <2>1
<1>7. \A b \in Slot : (b + c) % Slots = s => b = a
  BY <1>1, <1>3 DEF Slot
<1> QED BY <1>4, <1>5, <1>6, <1>7

(* The lowest bit of the rotated bitfield is the slot that lies the fewest *)
(* slots ahead.                                                            *)
LEMMA NextSlotBitsIs ==
  ASSUME CodeWheels, NEW now \in Nat, NEW l \in Level, NEW bits \in SUBSET Slot, bits # {}
  PROVE  NextSlotBits(bits, l, now) = NextSlot(bits, l, now)
<1> DEFINE current == now \div SlotRange(l)
           c == SlotFor(now, l)
           ahead(s) == (s + Slots - c) % Slots
           turned == RotateRight(bits, current)
           low == LowestBit(turned)
<1>1. Slots \in Nat /\ Slots > 0 /\ l \in Nat
  BY WheelMathAssumption DEF Level
<1>2. current \in Nat /\ c = current % Slots /\ c \in Slot
  <2>1. SlotRange(l) \in Nat /\ SlotRange(l) > 0
    BY <1>1, SlotRanges
  <2> QED BY <1>1, <2>1, Division, UpperNext DEF SlotFor
<1>3. NextSlotBits(bits, l, now) = (low + current) % Slots
  BY RangesOfBits DEF CodeWheels, NextSlotBits
<1>4. NextSlot(bits, l, now) = CHOOSE s \in bits : \A r \in bits : ahead(s) <= ahead(r)
  BY Zenon DEF NextSlot
<1>5. turned = {b \in Slot : (b + current) % Slots \in bits}
  BY DEF CodeWheels, RotateRight, Slot
<1> HIDE DEF current, c, turned, low
<1>6. \A b \in Slot : (b + current) % Slots = (b + c) % Slots
  <2> SUFFICES ASSUME NEW b \in Slot PROVE (b + current) % Slots = (b + c) % Slots
    OBVIOUS
  <2>1. b \in Nat
    BY <1>1 DEF Slot
  <2>2. (b + current) % Slots = (b + (current % Slots)) % Slots
    BY <1>1, <1>2, <2>1, RemainderOfSum
  <2> QED BY <1>2, <2>2
<1>7. \A s \in Slot : /\ ahead(s) \in Slot
                      /\ (ahead(s) + c) % Slots = s
                      /\ \A b \in Slot : (b + c) % Slots = s => b = ahead(s)
  BY <1>2, AheadIs
<1> HIDE DEF ahead
<1>8. \A r \in bits : ahead(r) \in turned
  BY <1>5, <1>6, <1>7
<1>9. turned \in SUBSET Nat /\ turned \in SUBSET Slot /\ turned # {}
  <2>1. Slot \subseteq Nat
    BY <1>1 DEF Slot
  <2> QED BY <1>5, <1>8, <2>1
<1>10. low \in turned /\ \A b \in turned : low <= b
  BY <1>9, LowestBitIs DEF low
<1> DEFINE s == (low + current) % Slots
<1>11. s \in bits /\ low = ahead(s)
  BY <1>5, <1>6, <1>7, <1>9, <1>10
<1> HIDE DEF s
<1>12. \A r \in bits : ahead(s) <= ahead(r)
  BY <1>8, <1>10, <1>11
<1>13. ASSUME NEW r \in bits, \A q \in bits : ahead(r) <= ahead(q) PROVE r = s
  <2>1. ahead(r) <= ahead(s) /\ ahead(s) <= ahead(r)
    BY <1>11, <1>12, <1>13
  <2>2. ahead(r) \in Nat /\ ahead(s) \in Nat
    BY <1>8, <1>9, <1>11
  <2>3. ahead(r) = ahead(s)
    BY <2>1, <2>2
  <2> QED BY <1>7, <1>11, <2>3
<1>14. (CHOOSE t \in bits : \A r \in bits : ahead(t) <= ahead(r)) = s
  <2> DEFINE t == CHOOSE t \in bits : \A r \in bits : ahead(t) <= ahead(r)
  <2>1. t \in bits /\ \A r \in bits : ahead(t) <= ahead(r)
    BY <1>11, <1>12, Zenon
  <2> HIDE DEF t
  <2>2. t = s
    BY <1>13, <2>1
  <2> QED BY <2>2 DEF t
<1> QED BY <1>3, <1>4, <1>14 DEF s, ahead

(* The digits of the bits are those of the wheels.                         *)
LEMMA SameDigits ==
  ASSUME CodeWheels, NEW m, NEW n
  PROVE  /\ Digits!WheelFor(m, n) = WheelFor(m, n)
         /\ \A l : Digits!SlotFor(n, l) = SlotFor(n, l)
         /\ \A bits, l : Digits!NextSlot(bits, l, n) = NextSlot(bits, l, n)
<1>1. Levels = BitLevels /\ Slots = BitSlots
  BY DEF CodeWheels
<1>2. \A l : Digits!SlotRange(l) = SlotRange(l)
  BY RangesOfBits
<1>3. \A l : Digits!LevelRange(l) = LevelRange(l)
  BY <1>1, <1>2 DEF Digits!LevelRange, LevelRange
<1>4. \A l : Digits!SlotFor(n, l) = SlotFor(n, l)
  BY <1>1, <1>2 DEF Digits!SlotFor, SlotFor
<1>5. \A bits, l : Digits!NextSlot(bits, l, n) = NextSlot(bits, l, n)
  BY <1>1, <1>4 DEF Digits!NextSlot, NextSlot
<1>6. Digits!WheelFor(m, n) = WheelFor(m, n)
  <2> DEFINE same == {l \in 0..(Levels - 1) : m \div LevelRange(l) = n \div LevelRange(l)}
             both == {l \in 0..(BitLevels - 1) :
                        m \div Digits!LevelRange(l) = n \div Digits!LevelRange(l)}
  <2>1. both = same
    BY <1>1, <1>3
  <2>2. WheelFor(m, n) = IF same = {} THEN Levels - 1
                         ELSE CHOOSE l \in same : \A k \in same : l <= k
    BY Zenon DEF WheelFor
  <2>3. Digits!WheelFor(m, n) = IF both = {} THEN BitLevels - 1
                                ELSE CHOOSE l \in both : \A k \in both : l <= k
    BY Zenon DEF Digits!WheelFor
  <2> HIDE DEF same, both
  <2> QED BY <1>1, <2>1, <2>2, <2>3
<1> QED BY <1>4, <1>5, <1>6

(* For words of any width, any number of levels and every tick that fits   *)
(* in a word: the masks, the leading zeros and the shifts of wheel_for and *)
(* slot_for, and the rotation and trailing zeros of next_occupied_slot for *)
(* every bitfield, are the digits that the model of the wheels and all of  *)
(* the theorems about it use.                                              *)
THEOREM BitsMatchDigits ==
  ASSUME CodeWheels
  PROVE  (\A now \in Ticks : DigitsAt(now)) /\ (Spec => []BitsAreDigits)
<1>1. /\ Ticks \subseteq Nat /\ Level \subseteq Nat
      /\ Level = 0..(BitLevels - 1) /\ Slot = 0..(BitSlots - 1)
  BY WheelMathAssumption DEF CodeWheels, Ticks, Level, Slot
<1>2. ASSUME NEW now \in Ticks, NEW n \in Ticks
      PROVE  WheelForBits(now, n) = Digits!WheelFor(now, n)
  BY <1>2, WheelForBitsIs, SameDigits
<1>3. ASSUME NEW n \in Ticks, NEW l \in Level PROVE SlotForBits(n, l) = Digits!SlotFor(n, l)
  BY <1>1, <1>3, SlotForBitsIs, SameDigits
<1>4. ASSUME NEW now \in Ticks, NEW bits \in (SUBSET Slot) \ {{}}, NEW l \in Level
      PROVE  NextSlotBits(bits, l, now) = Digits!NextSlot(bits, l, now)
  <2>1. NextSlotBits(bits, l, now) = NextSlot(bits, l, now)
    BY <1>1, <1>4, NextSlotBitsIs
  <2>2. Digits!NextSlot(bits, l, now) = NextSlot(bits, l, now)
    BY SameDigits
  <2> QED BY <2>1, <2>2
<1>5. \A now \in Ticks : DigitsAt(now)
  BY <1>1, <1>2, <1>3, <1>4 DEF DigitsAt
<1>6. BitsAreDigits
  BY <1>5, Zenon DEF BitsAreDigits
<1>7. Spec => []BitsAreDigits
  BY <1>6, PTL
<1> QED BY <1>5, <1>7
=============================================================================
