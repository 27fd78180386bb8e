----------------------------- MODULE MCRegAlloc -----------------------------
(* Instances of RegAlloc for TLC. *)
EXTENDS RegAlloc

(* The caller-saved ra and a0 and s0, the frame pointer, can be handed out; *)
(* the others are reserved.                                                *)
MCPRegs == {zero, ra, sp, t0, fp, a0}
MCImms == {0, 1}
MCSpOffsets == {4096}
=============================================================================
