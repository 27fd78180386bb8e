------------------------------- MODULE Imm12 --------------------------------
(***************************************************************************)
(* The 12-bit immediates of backend/riscv64/imm.rs: sixteen bits of which  *)
(* the upper four are zero.                                                *)
(***************************************************************************)
EXTENDS Integers

(* try_from_i64 succeeds. *)
Fits(x) == x \in -2048 .. 2047

(* try_from_i64: x as u16, masked to its lower twelve bits. *)
Bits(x) == (x % 65536) % 4096

(* as_i16: shifted left by four within sixteen bits, read as a signed      *)
(* number, and shifted right by four with the sign.                        *)
AsI16(bits) ==
    LET shifted == (bits * 16) % 65536
        signed == IF shifted >= 32768 THEN shifted - 65536 ELSE shifted
    IN signed \div 16
=============================================================================
