----------------------------- MODULE MCBufRing -----------------------------
(* Two rings and three sizes of them, for TLC: one with an entry for each  *)
(* buffer, one that is rounded up, and one that is refused.                *)
EXTENDS BufRing, TLC

MCRequests == {[entries |-> 2, bufs |-> 0], [entries |-> 3, bufs |-> 0],
               [entries |-> 5, bufs |-> 1]}
Symmetry == Permutations(Rings) \cup Permutations(Ops)
=============================================================================
