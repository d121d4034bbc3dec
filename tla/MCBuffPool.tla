----------------------------- MODULE MCBuffPool -----------------------------
(* BuffPool for TLC: the buffers b1, b2 and b3 with the sizes of each run. *)
EXTENDS BuffPool, TLC

CONSTANTS b1, b2, b3

ThreeClasses == [b \in Buffers |-> IF b = b1 THEN 1 ELSE IF b = b2 THEN 2 ELSE 3]
TwoClasses == [b \in Buffers |-> IF b = b3 THEN 2 ELSE 1]
Symmetry == Permutations(Threads)
=============================================================================
