------------------------------ MODULE MCFrame -------------------------------
(* Instances of Frame for TLC. *)
EXTENDS Frame

CONSTANTS d1, ra0, fp0, s0, a0, p0, p8

MCEntry == [r \in {"ra", "sp", "t0", "fp", "s1", "a0"} |->
              CASE r = "ra" -> ra0 [] r = "sp" -> 0 [] r = "t0" -> Garbage
                [] r = "fp" -> fp0 [] r = "s1" -> s0 [] r = "a0" -> a0]
MCParams == [o \in {0, 8} |-> IF o = 0 THEN p0 ELSE p8]
OneDatum == {d1}
(* Frames are below, at or above 2048 bytes, and the offsets of one slot   *)
(* fit an immediate while those of another do not; 4 makes totals uneven.  *)
Slots == {4, 2008, 4096}
Args == {16}
=============================================================================
