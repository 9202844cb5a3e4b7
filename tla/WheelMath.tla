----------------------------- MODULE WheelMath ------------------------------
(***************************************************************************)
(* The arithmetic of the timer wheels (norn-timer/src/wheels.rs, level.rs) *)
(* on the digits of ticks: a level is a digit in base Slots, a slot is its *)
(* value.  WheelBits compares it with the bit operations of the code.      *)
(***************************************************************************)
EXTENDS Naturals

CONSTANTS
  Levels,       (* NUM_LEVELS, 6 in the code                                *)
  Slots         (* Level::LEVEL_MULT, 64 in the code                        *)

ASSUME WheelMathAssumption == Levels \in Nat \ {0} /\ Slots \in Nat \ {0, 1}

Level == 0..(Levels - 1)
Slot  == 0..(Slots - 1)

(* The powers of a base, defined so that their laws can be proved. *)
Power(base) ==
  LET power[l \in Nat] == IF l = 0 THEN 1 ELSE base * power[l - 1] IN power

SlotRange(l)  == Power(Slots)[l]
LevelRange(l) == Slots * SlotRange(l)

SlotFor(when, l) == (when \div SlotRange(l)) % Slots

(* The highest digit in which two ticks differ, the last level at most.    *)
WheelFor(now, when) ==
  LET same == {l \in 0..(Levels - 1) :
                now \div LevelRange(l) = when \div LevelRange(l)} IN
  IF same = {} THEN Levels - 1
  ELSE CHOOSE l \in same : \A k \in same : l <= k

Place(now, when) ==
  LET l == WheelFor(now, when) IN <<l, SlotFor(when, l)>>

(* mutant: the first occupied slot of the level, wherever it is now. *)
FirstSlot(occupied, l, now) == CHOOSE s \in occupied : \A r \in occupied : s <= r

(* Level::next_occupied_slot: the first from the current one on. *)
NextSlot(occupied, l, now) ==
  LET ahead(s) == (s + Slots - SlotFor(now, l)) % Slots IN
  CHOOSE s \in occupied : \A r \in occupied : ahead(s) <= ahead(r)

SlotStart(l, s, now) == (now - (now % LevelRange(l))) + s * SlotRange(l)

(* Level::next_expiration: a slot that lies behind is one rotation ahead.  *)
SlotDeadline(l, s, now) ==
  IF SlotStart(l, s, now) <= now
  THEN SlotStart(l, s, now) + LevelRange(l) ELSE SlotStart(l, s, now)
=============================================================================
