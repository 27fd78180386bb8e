------------------------------ MODULE RegAlloc ------------------------------
(***************************************************************************)
(* From instruction selection to allocated registers, for the body of one  *)
(* function: the instructions a client builds over virtual registers, with *)
(* gen_cond_br and gen_sp_adjust (backend/riscv64/lower.rs); the spilling  *)
(* of a register with gen_spill_load and gen_spill_store; and the renaming *)
(* of virtual to physical registers with replace_reg.  The allocator       *)
(* itself is not written yet (LowerContext::regalloc is a todo!()): it is  *)
(* any assignment that keeps apart what the code reports to interfere.     *)
(* Branches lead forward: no pass that emits loops is written either.      *)
(***************************************************************************)
EXTENDS RvRun, Imm12, SequencesExt, FiniteSets

CONSTANTS PRegs,      \* the physical registers looked at
          Imms,       \* the immediates of li
          SpOffsets,  \* by how much the stack pointer is adjusted
          Blocks,     \* how many blocks the function has
          MaxInsts,   \* bound on what the client asks for, apart from branches
                      \* and the first instruction
          MaxVRegs,   \* bound on the virtual registers of the client
          MaxNamed    \* bound on the virtual registers that are allocated

ASSUME RegAllocAssumption ==
    /\ {zero, ra, sp, t0, fp, a0} \subseteq PRegs /\ PRegs \subseteq AllPRegs
    /\ Imms \subseteq Nat
    /\ SpOffsets \subseteq Int
    /\ Blocks \in Nat \ {0, 1}
    /\ MaxInsts \in Nat /\ MaxVRegs \in Nat /\ MaxNamed \in Nat

VARIABLES omit_frame_pointer,  \* LowerConfig
          code,          \* the instructions of every block
          curr_block,    \* LowerContext::curr_block
          vreg_counter,  \* MContext::vreg_counter
          storage,       \* MFuncData::storage_stack_size
          phase,         \* "select", "selected", "spilled" or "allocated"
          requests,      \* history: what the client asked for, by block
          defined        \* history: the registers with a known value, at the
                         \* end of curr_block and at the start of later blocks

vars == <<omit_frame_pointer, code, curr_block, vreg_counter, storage, phase,
          requests, defined>>

(* Mutation of Allocatable: the scratch register is handed out. *)
AllocatableScratch == {P(n) : n \in {1} \cup (5 .. 31)}

(* allocatable_regs. *)
Allocatable == {P(n) : n \in {1} \cup (6 .. 31)}

(* MValueKind without Mem, which a condition cannot be. *)
InReg(r) == [kind |-> "Reg", reg |-> r]
Imm(r, n) == [kind |-> "Imm", reg |-> r, imm |-> n]
Undef == [kind |-> "Undef"]

(* The requests that are not single instructions. *)
CondBr(cond, dst) == [kind |-> "CondBr", cond |-> cond, block |-> dst]
SpAdjust(offset) == [kind |-> "SpAdjust", offset |-> offset]

(* The virtual register of the n-th next call of new_vreg, from 0. *)
NewVReg(n) == V(vreg_counter + n)

(* The frame has one local slot of the program's own. *)
ProgramSlot == Slot(-8)

-----------------------------------------------------------------------------
(* The parameter of the function is taken out of a0 first. *)
Opening == [b \in 1 .. Blocks |-> IF b = 1 THEN <<AluRRI(V(0), a0, 0)>> ELSE <<>>]

Init ==
    /\ omit_frame_pointer \in BOOLEAN
    /\ code = Opening
    /\ curr_block = 1
    /\ vreg_counter = 1
    /\ storage = 8
    /\ phase = "select"
    /\ requests = Opening
    /\ defined = [b \in 1 .. Blocks |->
                    {a0} \cup {V(n) : n \in 0 .. (IF b = 1 THEN 0 ELSE MaxVRegs - 1)}]

-----------------------------------------------------------------------------
(* Instruction selection.  The client asks for instructions over registers *)
(* whose value it knows; what it asks for is what it gets, but for the     *)
(* operations of the target that are modelled below.                       *)

Readable == defined[curr_block]
Locals == {r \in Readable : IsVReg(r)}
Asked == FlattenSeq(requests)

(* The constants: virtual registers loaded once with an immediate. *)
Constants == {r \in Locals : \E i \in DOMAIN Asked :
                                Asked[i].kind = "Li" /\ Asked[i].rd = r}
ImmOf(r) == (CHOOSE i \in DOMAIN Asked : Asked[i].kind = "Li" /\ Asked[i].rd = r)

Room == Cardinality({i \in DOMAIN Asked : Asked[i].kind \notin {"CondBr", "J"}}) <= MaxInsts

(* Instructions go to the end of the current block (push_back). *)
Emit(request, insts) ==
    /\ phase = "select"
    /\ curr_block < Blocks
    /\ Room
    /\ requests' = [requests EXCEPT ![curr_block] = Append(@, request)]
    /\ code' = [code EXCEPT ![curr_block] = @ \o insts]
    /\ UNCHANGED <<omit_frame_pointer, curr_block, storage, phase>>

Defining1(r) == defined' = [defined EXCEPT ![curr_block] = @ \cup {r}]

(* An instruction into the new virtual register NewVReg(0) (li, alu_rri,   *)
(* ... of RvInst).                                                         *)
EmitNew(inst) ==
    /\ vreg_counter < MaxVRegs
    /\ Emit(inst, <<inst>>)
    /\ vreg_counter' = vreg_counter + 1
    /\ Defining1(NewVReg(0))

EmitLi == \E n \in Imms : EmitNew(Li(NewVReg(0), n))

EmitAlu ==
    \/ \E r \in Locals \cup (Readable \cap {a0}) : EmitNew(AluRRI(NewVReg(0), r, 0))
    \/ \E r, q \in Locals : r[2] <= q[2] /\ EmitNew(AluRRR(NewVReg(0), r, q))

(* A register that holds a variable is assigned to. *)
EmitMove ==
    \E rd \in Locals \ Constants, r \in Locals :
        /\ r # rd
        /\ Emit(AluRRI(rd, r, 0), <<AluRRI(rd, r, 0)>>)
        /\ UNCHANGED <<vreg_counter, defined>>

(* Operands in memory. *)
Locs == {ProgramSlot} \cup {RegOffset(r, 8) : r \in Locals}

EmitMemory ==
    \/ \E loc \in Locs : EmitNew(Load(NewVReg(0), loc))
    \/ EmitNew(LoadAddr(NewVReg(0), ProgramSlot))
    \/ \E r \in Locals, loc \in Locs :
          /\ Emit(Store(r, loc), <<Store(r, loc)>>)
          /\ UNCHANGED <<vreg_counter, defined>>

(* A call, its argument moved to a0 first if it has one; its result is in  *)
(* a0.                                                                     *)
MoveTo(r) == AluRRI(a0, r, 0)

EmitCall ==
    \/ \E r \in Locals :
          /\ Emit(MoveTo(r), <<MoveTo(r)>>)
          /\ Defining1(a0)
          /\ UNCHANGED vreg_counter
    \/ \E args \in SUBSET (Readable \cap {a0}) :
          /\ Emit(Call(args), <<Call(args)>>)
          /\ Defining1(a0)
          /\ UNCHANGED vreg_counter

(* Mutation of GenSpAdjust: every offset is put into an immediate. *)
GenSpAdjustImm(offset) == <<AluRRI(sp, sp, AsI16(Bits(offset)))>>

(* gen_sp_adjust: through a new virtual register if the offset is no       *)
(* immediate.                                                              *)
GenSpAdjust(offset) ==
    IF Fits(offset) THEN <<AluRRI(sp, sp, AsI16(Bits(offset)))>>
    ELSE <<Li(NewVReg(0), offset), AluRRR(sp, sp, NewVReg(0))>>

(* Slots that are indexed with the stack pointer would be missed while it  *)
(* is adjusted: the frame pointer has to be kept.                          *)
EmitSpAdjust == \E offset \in SpOffsets :
    /\ ~omit_frame_pointer
    /\ Emit(SpAdjust(offset), GenSpAdjust(offset))
    /\ vreg_counter' = vreg_counter + (IF Fits(offset) THEN 0 ELSE 1)
    /\ vreg_counter' <= MaxVRegs
    /\ UNCHANGED defined

-----------------------------------------------------------------------------
(* The end of a block. *)

(* Mutation of GenCondBr: an immediate is compared with one. *)
GenCondBrNotOdd(cond, dst) ==
    CASE cond.kind = "Reg" -> <<Bne(cond.reg, zero, dst)>>
      [] cond.kind = "Imm" -> IF cond.imm % 2 = 1 THEN <<>> ELSE <<J(dst)>>
      [] cond.kind = "Undef" -> <<>>

(* gen_cond_br: a branch on a register; on an immediate, a jump if its     *)
(* lowest bit is set, and nothing if it is not or if cond is undefined.    *)
GenCondBr(cond, dst) ==
    CASE cond.kind = "Reg" -> <<Bne(cond.reg, zero, dst)>>
      [] cond.kind = "Imm" -> IF cond.imm % 2 = 1 THEN <<J(dst)>> ELSE <<>>
      [] cond.kind = "Undef" -> <<>>

(* The immediate of a condition is a bool (ConstantValue::i1). *)
Conditions == {InReg(r) : r \in Locals}
                \cup {Imm(r, Asked[ImmOf(r)].imm) :
                         r \in {c \in Constants : Asked[ImmOf(c)].imm \in {0, 1}}}
                \cup {Undef}

(* The next block starts, after the instructions that end this one. *)
EndBlock(request, insts, targets) ==
    /\ phase = "select"
    /\ curr_block < Blocks
    /\ requests' = [requests EXCEPT ![curr_block] = @ \o request]
    /\ code' = [code EXCEPT ![curr_block] = @ \o insts]
    /\ defined' = [b \in 1 .. Blocks |->
                     IF b \in targets THEN defined[b] \cap Readable ELSE defined[b]]
    /\ curr_block' = curr_block + 1
    /\ UNCHANGED <<omit_frame_pointer, vreg_counter, storage, phase>>

Jump == EndBlock(<<J(curr_block + 1)>>, <<J(curr_block + 1)>>, {curr_block + 1})

(* A branch over the next block, or else into it. *)
CondBranch ==
    \E cond \in Conditions, dst \in (curr_block + 2) .. Blocks :
        LET other == curr_block + 1 IN
        EndBlock(<<CondBr(cond, dst), J(other)>>,
                 GenCondBr(cond, dst) \o <<J(other)>>, {dst, other})

(* The value of the function is moved to a0; ret follows in the epilogue,  *)
(* after register allocation.                                              *)
Return ==
    /\ phase = "select"
    /\ curr_block = Blocks
    /\ \E r \in Locals :
          /\ requests' = [requests EXCEPT ![curr_block] = <<MoveTo(r)>>]
          /\ code' = [code EXCEPT ![curr_block] = <<MoveTo(r)>>]
    /\ phase' = "selected"
    /\ UNCHANGED <<omit_frame_pointer, curr_block, vreg_counter, storage, defined>>

-----------------------------------------------------------------------------
(* Spilling (the decision to spill is external). *)

(* gen_spill_load, before the instruction. *)
GenSpillLoad(reg, slot, insts) == <<Load(reg, slot)>> \o insts

(* Mutation of GenSpillStore: before the instruction. *)
GenSpillStoreBefore(reg, slot, insts) == <<Store(reg, slot)>> \o insts

(* gen_spill_store, after the instruction. *)
GenSpillStore(reg, slot, insts) == insts \o <<Store(reg, slot)>>

Reported(inst) == Uses(inst, omit_frame_pointer) \cup Defs(inst)

(* An instruction with v renamed to t, which lives next to it only. *)
Spilled(inst, v, t, slot) ==
    LET renamed == <<ReplaceReg(inst, v, t)>>
        loaded == IF v \in Uses(inst, omit_frame_pointer)
                  THEN GenSpillLoad(t, slot, renamed) ELSE renamed
    IN IF v \in Defs(inst) THEN GenSpillStore(t, slot, loaded) ELSE loaded

(* v lives in a new slot; every instruction that reports it gets a virtual *)
(* register of its own.                                                    *)
Spill(v) ==
    LET touched == UNION {{b} \X {i \in DOMAIN code[b] : v \in Reported(code[b][i])} :
                            b \in 1 .. Blocks}
        Before(b, i) == Cardinality({t \in touched : t[1] < b \/ (t[1] = b /\ t[2] < i)})
    IN /\ phase = "selected"
       /\ storage' = storage + 8
       /\ code' = [b \in 1 .. Blocks |-> FlattenSeq([i \in DOMAIN code[b] |->
                     IF <<b, i>> \in touched
                     THEN Spilled(code[b][i], v, NewVReg(Before(b, i)), Slot(-storage'))
                     ELSE <<code[b][i]>>])]
       /\ vreg_counter' = vreg_counter + Cardinality(touched)
       /\ phase' = "spilled"
       /\ UNCHANGED <<omit_frame_pointer, curr_block, requests, defined>>

-----------------------------------------------------------------------------
(* Register allocation (external, over what the code reports). *)

Flat == FlattenSeq(code)
Start(blocks, b) == Len(FlattenSeq(SubSeq(blocks, 1, b - 1))) + 1

Following(p) ==
    (IF IsTerminator(Flat[p]) THEN {Start(code, b) : b \in Succs(Flat[p])} ELSE {})
      \cup (IF Flat[p].kind = "J" THEN {} ELSE {p + 1})

(* The registers whose value is needed at a place of the code. *)
Live ==
    LET at[p \in 1 .. (Len(Flat) + 1)] ==
          IF p > Len(Flat) THEN {}
          ELSE Uses(Flat[p], omit_frame_pointer)
                 \cup ((UNION {at[q] : q \in Following(p)}) \ Defs(Flat[p]))
    IN at

(* The pairs of registers that cannot be one: where the first is written   *)
(* the second is still needed.                                             *)
Interference ==
    LET live == Live IN
    {pair \in UNION {(Defs(Flat[p]) \cup Clobbers(Flat[p]))
                       \X UNION {live[q] : q \in Following(p)} : p \in DOMAIN Flat} :
       pair[1] # pair[2]}

Named == {r \in UNION {AllRegs(Flat[p]) : p \in DOMAIN Flat} : IsVReg(r)}

Allocations ==
    LET pairs == Interference
        Place(f, r) == IF r \in DOMAIN f THEN f[r] ELSE r
    IN {f \in [Named -> Allocatable \cap PRegs] :
          \A pair \in pairs : Place(f, pair[1]) # Place(f, pair[2])}

(* replace_reg, for every virtual register. *)
Renamed(inst, f) ==
    LET upTo[n \in 0 .. vreg_counter] ==
          IF n = 0 THEN inst
          ELSE IF V(n - 1) \in DOMAIN f THEN ReplaceReg(upTo[n - 1], V(n - 1), f[V(n - 1)])
          ELSE upTo[n - 1]
    IN upTo[vreg_counter]

Allocate ==
    /\ phase \in {"selected", "spilled"}
    /\ Cardinality(Named) <= MaxNamed
    /\ \E f \in Allocations :
          code' = [b \in 1 .. Blocks |-> [i \in DOMAIN code[b] |-> Renamed(code[b][i], f)]]
    /\ phase' = "allocated"
    /\ UNCHANGED <<omit_frame_pointer, curr_block, vreg_counter, storage, requests, defined>>

Next == \/ EmitLi \/ EmitAlu \/ EmitMove \/ EmitMemory \/ EmitCall \/ EmitSpAdjust
        \/ Jump \/ CondBranch \/ Return
        \/ \E v \in Named : Spill(v)
        \/ Allocate

Spec == Init /\ [][Next]_vars

-----------------------------------------------------------------------------
(* Running the requests and the code, from the same state. *)

Step(inst, m, blocks, oracle, undef) ==
    CASE inst.kind = "J" -> [m EXCEPT !.pc = Start(blocks, inst.block)]
      [] inst.kind = "Br" ->
           Branch(m, Difference(m.regs[inst.rs1], m.regs[inst.rs2]), oracle,
                  Start(blocks, inst.block))
      [] inst.kind = "CondBr" ->
           IF inst.cond.kind = "Undef"
           THEN [m EXCEPT !.pc = IF undef THEN Start(blocks, inst.block) ELSE @ + 1]
           ELSE Branch(m, m.regs[inst.cond.reg], oracle, Start(blocks, inst.block))
      [] inst.kind = "SpAdjust" ->
           [m EXCEPT !.regs[sp] = Sum2(@, Number(inst.offset)), !.pc = @ + 1]
      [] OTHER -> Effect(inst, m, omit_frame_pointer)

(* What the caller and the rest of the program can see of a run: the       *)
(* calls, stores and branches, the value returned, and the stack pointer   *)
(* at the epilogue.                                                        *)
Meaning(blocks, oracle, undef) ==
    LET flat == FlattenSeq(blocks)
        after[n \in 0 .. Len(flat)] ==
          IF n = 0 THEN Entry(PRegs, vreg_counter)
          ELSE LET m == after[n - 1]
               IN IF m.pc > Len(flat) THEN m ELSE Step(flat[m.pc], m, blocks, oracle, undef)
        end == after[Len(flat)]
    IN [seen |-> end.seen, value |-> end.regs[a0], sp |-> end.regs[sp]]

(* The outcomes of the branches whose conditions nothing is known of; the  *)
(* last two blocks have none.                                              *)
Oracles == [1 .. (Blocks - 2) -> BOOLEAN]

(* The code does what was asked for, whatever the outcome of the branches. *)
KeepsMeaning ==
    \A oracle \in Oracles : \E undef \in BOOLEAN :
        Meaning(code, oracle, FALSE) = Meaning(requests, oracle, undef)

-----------------------------------------------------------------------------
(* The conditions that are immediates are decided when code is generated   *)
(* (gen_cond_br) as a branch on their register would be when it is run,    *)
(* and large adjustments of the stack pointer add up to the same.          *)
SelectionKeepsMeaning == phase = "selected" => KeepsMeaning

(* Loading a spilled register before and storing it after the instructions *)
(* that report to use and define it (gen_spill_load, gen_spill_store, uses *)
(* and defs) is enough, on every path.                                     *)
SpillingKeepsMeaning == phase = "spilled" => KeepsMeaning

(* Any allocation that keeps apart the registers that interfere by uses,   *)
(* defs, clobbers and succs is correct: across calls, on every path, for   *)
(* physical registers the code names itself, for the frame pointer, which  *)
(* may be handed out, and for the scratch register, which may not.         *)
AllocationKeepsMeaning == phase = "allocated" => KeepsMeaning

(* An instruction depends on the registers it reports to use only, and     *)
(* leaves alone those it does not report to clobber, the scratch register  *)
(* excepted.                                                               *)
ActsAsReported(inst) ==
    LET m == [Entry(PRegs, vreg_counter) EXCEPT !.regs = [r \in DOMAIN @ |-> <<"entry", r>>]]
        end == Effect(inst, m, omit_frame_pointer)
    IN /\ \A r \in DOMAIN m.regs \ (Clobbers(inst) \cup {t0}) : end.regs[r] = m.regs[r]
       /\ \A r \in DOMAIN m.regs \ Uses(inst, omit_frame_pointer) :
             LET other == Effect(inst, [m EXCEPT !.regs[r] = Unknown], omit_frame_pointer) IN
             /\ other.seen = end.seen /\ other.mem = end.mem
             /\ \A q \in Defs(inst) : other.regs[q] = end.regs[q]

EffectsReported ==
    phase = "selected" =>
        \A b \in 1 .. Blocks : \A i \in DOMAIN code[b] :
            ~IsTerminator(code[b][i]) => ActsAsReported(code[b][i])
=============================================================================
