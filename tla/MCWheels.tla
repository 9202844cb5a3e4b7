------------------------------ MODULE MCWheels ------------------------------
(* The wheels with few levels and slots, for TLC, and the bit operations of *)
(* the code for as many bits per digit as levels.                           *)
EXTENDS WheelBits

(* The hypotheses of the theorems about the wheels and about their bits.    *)
ASSUME MCShortSleeps == ShortSleeps
ASSUME MCWordFits == WordFits
=============================================================================
