----------------------------- MODULE WheelBits ------------------------------
(***************************************************************************)
(* wheel_for, slot_for and next_occupied_slot as the code computes them,   *)
(* on the bits of words, against the digits of WheelMath.  A word is the   *)
(* set of the places of its bits: xor is the symmetric difference, or the  *)
(* union.  A bitfield is the set of its slots.  They have a size of their  *)
(* own, so that TLC can check them beside wheels of another.               *)
(***************************************************************************)
EXTENDS Wheels

CONSTANTS
  BitLevels,    (* NUM_LEVELS, 6: the levels, and the bits of a digit       *)
  Width         (* the bits of a word, 64                                   *)

BitSlots == Power(2)[BitLevels]

(* The digits that these are to be. *)
Digits == INSTANCE WheelMath WITH Levels <- BitLevels, Slots <- BitSlots

Ticks == 0..(Power(2)[Width] - 1)

(* A word has room for what all levels can tell, 36 bits. *)
WordFits ==
  /\ BitLevels \in Nat /\ BitLevels > 1
  /\ Width \in Nat /\ BitLevels * BitLevels <= Width

Word(n) == {b \in 0..(Width - 1) : (n \div Power(2)[b]) % 2 = 1}

Number(word) == CHOOSE n \in Ticks : Word(n) = word

(* 63 minus the leading zeros, and the trailing zeros. *)
HighestBit(word) == CHOOSE b \in word : \A c \in word : c <= b
LowestBit(word)  == CHOOSE b \in word : \A c \in word : b <= c

MaxDuration == Power(2)[BitLevels * BitLevels] - 1
SlotMask == Power(2)[BitLevels] - 1

(* wheel_for *)
WheelForBits(now, when) ==
  LET xor == (Word(now) \ Word(when)) \cup (Word(when) \ Word(now))
      masked == xor \cup Word(SlotMask) IN
  HighestBit(IF Number(masked) >= MaxDuration THEN Word(MaxDuration - 1) ELSE masked)
    \div BitLevels

(* slot_for shifts by the bits of the levels below. *)
SlotForBits(when, l) == (when \div Power(2)[l * BitLevels]) % BitSlots

(* Bit 0 is the n-th afterwards.  The code casts n to a u32 first, which   *)
(* takes off multiples of 64.                                              *)
RotateRight(bits, n) == {b \in 0..(BitSlots - 1) : (b + n) % BitSlots \in bits}

(* Level::next_occupied_slot, with the current slot not reduced. *)
NextSlotBits(bits, l, n) ==
  LET current == n \div Digits!SlotRange(l) IN
  (LowestBit(RotateRight(bits, current)) + current) % BitSlots

(* The masks, leading zeros, shifts and rotations of the code are digits:  *)
(* at a tick wheel_for finds the highest one in which another differs,     *)
(* slot_for a digit, and next_occupied_slot the first occupied slot from   *)
(* the current one on, around the ring.                                    *)
DigitsAt(now) ==
  /\ \A when \in Ticks : WheelForBits(now, when) = Digits!WheelFor(now, when)
  /\ \A when \in Ticks, l \in 0..(BitLevels - 1) :
       SlotForBits(when, l) = Digits!SlotFor(when, l)
  /\ \A bits \in (SUBSET (0..(BitSlots - 1))) \ {{}}, l \in 0..(BitLevels - 1) :
       NextSlotBits(bits, l, now) = Digits!NextSlot(bits, l, now)

(* Level and slot are found with the bits, at whatever tick the wheels are *)
(* to be.  What the bits of a word say is the same in all states, so it is *)
(* enough to look at all ticks in the first.                               *)
BitsAreDigits == Init => \A now \in Ticks : DigitsAt(now)
=============================================================================
