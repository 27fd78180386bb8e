------------------------------ MODULE MCDefUse ------------------------------
(* Instances of DefUse for TLC. *)
EXTENDS DefUse, TLC

CONSTANTS i1, i2, p1, k1, b1, b2, b3

OneInst == {i1}
TwoInsts == {i1, i2}
OneParam == {p1}
OneConstant == {k1}
PhiOnly == {"phi"}
LoadOnly == {"load", "br"}
TwoBlocks == {b1, b2}
ThreeBlocks == {b1, b2, b3}

Symmetric == Permutations(TwoInsts) \cup Permutations(TwoBlocks)
=============================================================================
