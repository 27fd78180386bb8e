------------------------------- MODULE RvInst -------------------------------
(***************************************************************************)
(* The machine instructions of backend/riscv64/inst.rs and what they       *)
(* report of themselves to register allocation: the registers they use,    *)
(* define, clobber and name, where they can jump to, and replace_reg,      *)
(* which renames a register.  An instruction's opcode is left out where    *)
(* all opcodes of its kind treat their registers alike.                    *)
(***************************************************************************)
EXTENDS Naturals

(* Reg: a physical register by its number, or a virtual one. *)
P(n) == <<"P", n>>
V(n) == <<"V", n>>
IsPReg(r) == r[1] = "P"
IsVReg(r) == r[1] = "V"

zero == P(0)
ra == P(1)
sp == P(2)
t0 == P(5)
fp == P(8)
a0 == P(10)

AllPRegs == {P(n) : n \in 0 .. 31}
CALLER_SAVED_REGS == {P(n) : n \in {1, 5, 6, 7} \cup (10 .. 17) \cup (28 .. 31)}
RETURN_REGS == {a0}

-----------------------------------------------------------------------------
(* MemLoc (backend/lower.rs). *)
RegOffset(base, offset) == [kind |-> "RegOffset", base |-> base, offset |-> offset]
Slot(offset) == [kind |-> "Slot", offset |-> offset]
Incoming(offset) == [kind |-> "Incoming", offset |-> offset]
OnStack(loc) == loc.kind \in {"Slot", "Incoming"}

(* RvInstKind, by its constructors.  La treats its register as Li does, and *)
(* is left out; ret is built after register allocation (see Frame).        *)
Li(rd, imm) == [kind |-> "Li", rd |-> rd, imm |-> imm]
AluRRI(rd, rs, imm) == [kind |-> "AluRRI", rd |-> rd, rs |-> rs, imm |-> imm]
AluRRR(rd, rs1, rs2) == [kind |-> "AluRRR", rd |-> rd, rs1 |-> rs1, rs2 |-> rs2]
Load(rd, loc) == [kind |-> "Load", rd |-> rd, loc |-> loc]
LoadAddr(rd, loc) == [kind |-> "LoadAddr", rd |-> rd, loc |-> loc]
Store(src, loc) == [kind |-> "Store", src |-> src, loc |-> loc]
Call(arg_regs) == [kind |-> "Call", arg_regs |-> arg_regs]
J(block) == [kind |-> "J", block |-> block]
Bne(rs1, rs2, block) == [kind |-> "Br", rs1 |-> rs1, rs2 |-> rs2, block |-> block]

Defining == {"Li", "AluRRI", "AluRRR", "Load", "LoadAddr"}

-----------------------------------------------------------------------------
(* The register a memory operand is indexed with: its base, or the one     *)
(* slots will be indexed with.                                             *)
LocUses(loc, omit_frame_pointer) ==
    IF OnStack(loc) THEN {IF omit_frame_pointer THEN sp ELSE fp} ELSE {loc.base}

(* Mutation of Uses: the base of a store is forgotten. *)
UsesNoStoreBase(inst, omit_frame_pointer) ==
    CASE inst.kind = "AluRRI" -> {inst.rs}
      [] inst.kind \in {"AluRRR", "Br"} -> {inst.rs1, inst.rs2}
      [] inst.kind \in {"Load", "LoadAddr"} -> LocUses(inst.loc, omit_frame_pointer)
      [] inst.kind = "Store" -> {inst.src}
      [] inst.kind = "Call" -> inst.arg_regs
      [] OTHER -> {}

(* uses. *)
Uses(inst, omit_frame_pointer) ==
    CASE inst.kind = "AluRRI" -> {inst.rs}
      [] inst.kind \in {"AluRRR", "Br"} -> {inst.rs1, inst.rs2}
      [] inst.kind \in {"Load", "LoadAddr"} -> LocUses(inst.loc, omit_frame_pointer)
      [] inst.kind = "Store" -> {inst.src} \cup LocUses(inst.loc, omit_frame_pointer)
      [] inst.kind = "Call" -> inst.arg_regs
      [] OTHER -> {}

(* defs. *)
Defs(inst) == IF inst.kind = "Call" THEN RETURN_REGS
              ELSE IF inst.kind \in Defining THEN {inst.rd} ELSE {}

(* Mutation of Clobbers: a call clobbers no more than it defines. *)
ClobbersReturnOnly(inst) == Defs(inst)

(* clobbers. *)
Clobbers(inst) == IF inst.kind = "Call" THEN CALLER_SAVED_REGS
                  ELSE IF inst.kind \in Defining THEN {inst.rd} ELSE {}

LocRegs(loc) == IF OnStack(loc) THEN {} ELSE {loc.base}

(* all_regs: of a LoadAddr, the destination only. *)
AllRegs(inst) ==
    CASE inst.kind = "AluRRI" -> {inst.rd, inst.rs}
      [] inst.kind = "AluRRR" -> {inst.rd, inst.rs1, inst.rs2}
      [] inst.kind = "Br" -> {inst.rs1, inst.rs2}
      [] inst.kind = "Load" -> {inst.rd} \cup LocRegs(inst.loc)
      [] inst.kind = "Store" -> {inst.src} \cup LocRegs(inst.loc)
      [] inst.kind \in {"Li", "LoadAddr"} -> {inst.rd}
      [] OTHER -> {}

(* is_terminator. *)
IsTerminator(inst) == inst.kind \in {"J", "Br"}

(* Mutation of Succs: a conditional branch falls through only. *)
SuccsJumpOnly(inst) == IF inst.kind = "J" THEN {inst.block} ELSE {}

(* succs. *)
Succs(inst) == IF inst.kind \in {"J", "Br"} THEN {inst.block} ELSE {}

(* Mutation of ReplaceReg: memory operands keep their base. *)
ReplaceRegNotBase(inst, from, to) ==
    [f \in DOMAIN inst |->
       IF f \in {"rd", "rs", "rs1", "rs2", "src"} /\ inst[f] = from THEN to ELSE inst[f]]

(* replace_reg: every register field, and the base of a memory operand.    *)
ReplaceReg(inst, from, to) ==
    [f \in DOMAIN inst |->
       IF f \in {"rd", "rs", "rs1", "rs2", "src"} /\ inst[f] = from THEN to
       ELSE IF f = "loc" /\ ~OnStack(inst.loc) /\ inst.loc.base = from
            THEN RegOffset(to, inst.loc.offset)
       ELSE inst[f]]
=============================================================================
