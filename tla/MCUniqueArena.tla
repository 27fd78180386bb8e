---------------------------- MODULE MCUniqueArena ---------------------------
(* Instances of UniqueArena for TLC. *)
EXTENDS UniqueArena

CONSTANTS d1, d2, d3, h1, h2

ThreeData == {d1, d2, d3}
FourPtrs == 0 .. 3
TwoHashes == {h1, h2}

\* d1 and d2 collide.
Colliding == [d \in ThreeData |-> IF d = d3 THEN h2 ELSE h1]
=============================================================================
