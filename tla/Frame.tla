------------------------------- MODULE Frame --------------------------------
(***************************************************************************)
(* Stack frames of the RISC-V backend, for one function: what instruction  *)
(* selection and register allocation leave behind (backend/func.rs), then  *)
(* LowerContext::after_regalloc (backend/lower.rs): the prologue, the      *)
(* epilogue and the rewriting of slots to offsets from a register          *)
(* (backend/riscv64/lower.rs, inst.rs); at last the code is run.           *)
(* A block is the sequence of its instructions: module LinkedList is what  *)
(* justifies that.  Memory is addressed from the stack pointer's value at  *)
(* the entry of the function, which is 0 here; it is kept in half words.   *)
(***************************************************************************)
EXTENDS Imm12, SequencesExt

CONSTANTS Data,       \* values the code puts into registers
          Garbage,    \* a value nothing is known about
          None,       \* the function has not returned
          SlotSizes,  \* the sizes of local slots
          ArgSizes,   \* the sizes of the argument areas of calls
          MaxSlots,   \* bound on the local slots
          MaxInsts,   \* bound on the instructions of the body
          Entry,      \* the contents of the registers at the entry
          Params      \* the parameters on the stack, by their offsets

(* Registers: those register allocation may hand out, and the numbers of   *)
(* these and of sp and the scratch register t0.                            *)
Work == {"ra", "fp", "s1", "a0"}
Num == [r \in Work \cup {"sp", "t0"} |->
          CASE r = "ra" -> 1 [] r = "sp" -> 2 [] r = "t0" -> 5
            [] r = "fp" -> 8 [] r = "s1" -> 9 [] r = "a0" -> 10]
CallerSaved == {"ra", "t0", "a0"}
CalleeSaved == {"sp", "fp", "s1"}

ASSUME FrameAssumption ==
    /\ SlotSizes \subseteq Nat \ {0}
    /\ ArgSizes \subseteq Nat
    /\ MaxSlots \in Nat /\ MaxInsts \in Nat
    /\ DOMAIN Entry = DOMAIN Num
    /\ Entry["sp"] = 0
    /\ DOMAIN Params \subseteq Nat

VARIABLES omit_frame_pointer,  \* LowerConfig
          storage,   \* MFuncData::storage_stack_size
          outgoing,  \* MFuncData::outgoing_stack_size
          saved,     \* MFuncData::saved_regs
          slots,     \* the offsets of the local slots, with their sizes
          body,      \* history: the body as it was emitted
          blocks,    \* the blocks of the function
          phase,     \* the phase after_regalloc is in, see Next
          at,        \* the next instruction to adjust: its block and place
          pc,        \* the instruction to run
          regs,      \* the registers of the machine
          mem,       \* its memory, as far as it is known
          ran,       \* history: how many instructions of the body have run
          returned   \* history: the preserved registers at the return

frame == <<omit_frame_pointer, storage, outgoing, saved, slots>>
machine == <<pc, regs, mem, ran, returned>>
vars == <<frame, body, blocks, phase, at, machine>>

-----------------------------------------------------------------------------
(* Instructions.  emitted marks (history) those that stand for one of the  *)
(* body.                                                                   *)
Slot(o) == [kind |-> "Slot", offset |-> o]
In(o) == [kind |-> "Incoming", offset |-> o]
RegOffset(r, o) == [kind |-> "RegOffset", base |-> r, offset |-> o]

Li(rd, imm) == [op |-> "Li", rd |-> rd, imm |-> imm, emitted |-> FALSE]
Addi(rd, rs, bits) == [op |-> "Addi", rd |-> rd, rs |-> rs, imm |-> bits, emitted |-> FALSE]
Alu(op, rd, rs1, rs2) == [op |-> op, rd |-> rd, rs1 |-> rs1, rs2 |-> rs2, emitted |-> FALSE]
Load(rd, loc) == [op |-> "Load", rd |-> rd, loc |-> loc, emitted |-> FALSE]
Store(rs, loc) == [op |-> "Store", rs |-> rs, loc |-> loc, emitted |-> FALSE]
LoadAddr(rd, loc) == [op |-> "LoadAddr", rd |-> rd, loc |-> loc, emitted |-> FALSE]
Call == [op |-> "Call", emitted |-> FALSE]
Ret == [op |-> "Ret", emitted |-> FALSE]
Emitted(inst) == [inst EXCEPT !.emitted = TRUE]

(* MInst::clobbers. *)
Clobbers(inst) == CASE inst.op = "Call" -> CallerSaved
                    [] inst.op \in {"Store", "Ret"} -> {}
                    [] OTHER -> {inst.rd}

(* MFunc::saved_regs, in the order of their numbers. *)
Rank(r, regset) == Cardinality({q \in regset : Num[q] <= Num[r]})
SavedSeq(regset) ==
    [i \in 1 .. Cardinality(regset) |-> CHOOSE r \in regset : Rank(r, regset) = i]

(* Mutation of Total: the outgoing area is forgotten. *)
TotalNoOutgoing(n) == ((storage + n * 8 + 15) \div 16) * 16

(* LowerSpec::total_stack_size with n saved registers: a multiple of 16.   *)
Total(n) == ((storage + outgoing + n * 8 + 15) \div 16) * 16

-----------------------------------------------------------------------------
Init ==
    /\ omit_frame_pointer \in BOOLEAN
    /\ storage = 0 /\ outgoing = 0 /\ saved = {} /\ slots = {}
    /\ body = <<>> /\ blocks = << <<>> >>
    /\ phase = "select" /\ at = <<1, 1>>
    /\ pc = 1 /\ regs = Entry /\ ran = 0 /\ returned = None
    /\ mem = [a \in {o + h : o \in DOMAIN Params, h \in {0, 4}} |->
                IF a \in DOMAIN Params THEN <<Params[a], "low">>
                                       ELSE <<Params[a - 4], "high">>]

(* Instruction selection and register allocation (external: neither is     *)
(* written yet).  A slot is allocated below the ones before it.            *)
AllocSlot(size) ==
    /\ phase = "select"
    /\ Cardinality(slots) < MaxSlots
    /\ storage' = storage + size
    /\ slots' = slots \cup {[offset |-> -(storage + size), size |-> size]}
    /\ UNCHANGED <<omit_frame_pointer, outgoing, saved, body, blocks, phase, at, machine>>

(* The general registers the code may use, fp only if it is omitted. *)
General == IF omit_frame_pointer THEN Work ELSE Work \ {"fp"}

(* The cells of eight bytes at the ends of the local slots, and the other  *)
(* operands in memory that exist.                                          *)
SlotCells == UNION {{Slot(s.offset), Slot(s.offset + s.size - 8)} :
                      s \in {t \in slots : t.size >= 8}}
InCells == {In(o) : o \in DOMAIN Params}
OutOffset == {8 * i : i \in 0 .. ((outgoing \div 8) - 1)}
Locs == SlotCells \cup InCells \cup {RegOffset("sp", o) : o \in {n \in OutOffset : Fits(n)}}

(* Emit inst at the end of the last block, and note what it overwrites.    *)
Emit(inst) ==
    /\ phase = "select"
    /\ Len(body) < MaxInsts
    /\ body' = Append(body, inst)
    /\ blocks' = [blocks EXCEPT ![Len(blocks)] = Append(@, Emitted(inst))]
    /\ saved' = saved \cup (Clobbers(inst) \cap CalleeSaved)
    /\ UNCHANGED <<omit_frame_pointer, storage, slots, phase, at, machine>>

(* A call with arguments on the stack. *)
EmitCall(size) ==
    /\ Emit(Call)
    /\ outgoing' = IF size > outgoing THEN size ELSE outgoing

EmitOther ==
    /\ \/ \E r \in General, d \in Data : Emit(Li(r, d))
       \/ \E r \in General, l \in Locs : Emit(Load(r, l)) \/ Emit(Store(r, l))
       \/ \E l \in Locs : l.kind # "RegOffset" /\ Emit(LoadAddr("a0", l))
       \/ /\ body # <<>>
          /\ body[Len(body)].op = "LoadAddr"
          /\ \E r \in General :
                Emit(Load(r, RegOffset("a0", 0))) \/ Emit(Store(r, RegOffset("a0", 0)))
    /\ UNCHANGED outgoing

(* The code goes on in a second block, which follows the first.            *)
NewBlock ==
    /\ phase = "select"
    /\ Len(blocks) = 1
    /\ blocks' = Append(blocks, <<>>)
    /\ UNCHANGED <<frame, body, phase, at, machine>>

Lower ==
    /\ phase = "select"
    /\ phase' = "prologue"
    /\ UNCHANGED <<frame, body, blocks, at, machine>>
-----------------------------------------------------------------------------
(* gen_func_prologue and gen_func_epilogue. *)

At(op, r, loc) == IF op = "Load" THEN Load(r, loc) ELSE Store(r, loc)

(* A load or store of register r at the offset off from sp: through t0 if  *)
(* off is not an immediate.                                                *)
Access(op, r, off) ==
    IF Fits(off) THEN <<At(op, r, RegOffset("sp", AsI16(Bits(off))))>>
    ELSE <<Li("t0", off), Alu("Add", "t0", "sp", "t0"), At(op, r, RegOffset("t0", 0))>>

(* rd is set to sp + off. *)
AddToSp(rd, off) ==
    IF Fits(off) THEN <<Addi(rd, "sp", Bits(off))>>
    ELSE <<Li("t0", off), Alu("Add", rd, "sp", "t0")>>

(* The accesses to all saved registers, the first one at the top. *)
Accesses(op, regset) ==
    FlattenSeq([i \in 1 .. Cardinality(regset) |->
                  Access(op, SavedSeq(regset)[i], Total(Cardinality(regset)) - 8 * i)])

PrologueCode(regset) ==
    LET total == Total(Cardinality(regset)) IN
    (IF Fits(-total) THEN <<Addi("sp", "sp", Bits(-total))>>
     ELSE <<Li("t0", total), Alu("Sub", "sp", "sp", "t0")>>)
    \o Accesses("Store", regset)
    \o (IF omit_frame_pointer THEN <<>> ELSE AddToSp("fp", total))

(* Mutation of EpilogueCode: the frame is given up before it is read. *)
EpilogueCodeFreesFirst ==
    AddToSp("sp", Total(Cardinality(saved))) \o Accesses("Load", saved) \o <<Ret>>

EpilogueCode == Accesses("Load", saved) \o AddToSp("sp", Total(Cardinality(saved))) \o <<Ret>>

AllInsts == FlattenSeq(blocks)

(* Mutation of ToSave: ra is not checked. *)
ToSaveNoRa == saved \cup (IF omit_frame_pointer THEN {} ELSE {"fp"})

(* Mutation of ToSave: everything some instruction clobbers. *)
ToSaveClobbered ==
    saved \cup UNION {Clobbers(AllInsts[i]) : i \in DOMAIN AllInsts}
          \cup (IF omit_frame_pointer THEN {} ELSE {"fp"})

(* The registers the prologue adds: ra if some instruction clobbers it, fp *)
(* if it is not omitted.                                                   *)
ToSave ==
    saved \cup {r \in {"ra"} : \E i \in DOMAIN AllInsts : r \in Clobbers(AllInsts[i])}
          \cup (IF omit_frame_pointer THEN {} ELSE {"fp"})

(* gen_func_prologue, at the front of the first block. *)
GenPrologue ==
    /\ phase = "prologue"
    /\ saved' = ToSave
    /\ blocks' = [blocks EXCEPT ![1] = PrologueCode(ToSave) \o @]
    /\ phase' = "epilogue"
    /\ UNCHANGED <<omit_frame_pointer, storage, outgoing, slots, body, at, machine>>

(* gen_func_epilogue, at the back of the last block. *)
GenEpilogue ==
    /\ phase = "epilogue"
    /\ blocks' = [blocks EXCEPT ![Len(blocks)] = @ \o EpilogueCode]
    /\ phase' = "adjust"
    /\ UNCHANGED <<frame, body, at, machine>>

-----------------------------------------------------------------------------
(* adjust_offset. *)

(* Mutation of Resolve: fp-relative slots ignore the outgoing area. *)
ResolveNoOutgoing(loc) ==
    LET total == Total(Cardinality(saved)) IN
    IF omit_frame_pointer
    THEN RegOffset("sp", loc.offset + IF loc.kind = "Slot" THEN storage + outgoing ELSE total)
    ELSE RegOffset("fp", loc.offset - IF loc.kind = "Slot" THEN total - storage ELSE 0)

(* LowerContext::adjust_offset: where a slot or a parameter is.            *)
Resolve(loc) ==
    LET total == Total(Cardinality(saved)) IN
    IF omit_frame_pointer
    THEN RegOffset("sp", loc.offset + IF loc.kind = "Slot" THEN storage + outgoing ELSE total)
    ELSE RegOffset("fp", loc.offset - IF loc.kind = "Slot" THEN total - storage - outgoing ELSE 0)

(* Mutation of Adjusted: no scratch register for large offsets. *)
AdjustedInPlace(inst) ==
    IF inst.op \notin {"Load", "Store", "LoadAddr"} \/ inst.loc.kind = "RegOffset"
    THEN <<inst>>
    ELSE LET loc == Resolve(inst.loc) IN
         <<IF inst.op = "LoadAddr"
           THEN [Addi(inst.rd, loc.base, Bits(loc.offset)) EXCEPT !.emitted = inst.emitted]
           ELSE [inst EXCEPT !.loc = loc]>>

(* RvInst::adjust_offset: the instruction is changed in place, or replaced *)
(* if it loads an address; a large offset goes through t0 before it.       *)
Adjusted(inst) ==
    IF inst.op \notin {"Load", "Store", "LoadAddr"} \/ inst.loc.kind = "RegOffset"
    THEN <<inst>>
    ELSE LET new == Resolve(inst.loc)
             loc == IF Fits(new.offset) THEN new ELSE RegOffset("t0", 0)
         IN (IF Fits(new.offset) THEN <<>>
             ELSE <<Li("t0", new.offset), Alu("Add", "t0", new.base, "t0")>>)
            \o <<IF inst.op = "LoadAddr"
                 THEN [Addi(inst.rd, loc.base, Bits(loc.offset))
                         EXCEPT !.emitted = inst.emitted]
                 ELSE [inst EXCEPT !.loc = loc]>>

(* One turn of the inner loop: next_inst was read before. *)
AdjustInst ==
    LET b == at[1]
        i == at[2]
    IN /\ phase = "adjust"
       /\ b <= Len(blocks) /\ i <= Len(blocks[b])
       /\ blocks' = [blocks EXCEPT ![b] =
                        SubSeq(@, 1, i - 1) \o Adjusted(@[i]) \o SubSeq(@, i + 1, Len(@))]
       /\ at' = <<b, i + Len(Adjusted(blocks[b][i]))>>
       /\ UNCHANGED <<frame, body, phase, machine>>

(* One turn of the cursor over the blocks, and the end. *)
AdjustNextBlock ==
    /\ phase = "adjust"
    /\ at[2] > Len(blocks[at[1]])
    /\ IF at[1] < Len(blocks)
       THEN at' = <<at[1] + 1, 1>> /\ UNCHANGED phase
       ELSE phase' = "run" /\ UNCHANGED at
    /\ UNCHANGED <<frame, body, blocks, machine>>

-----------------------------------------------------------------------------
(* The machine (external): RISC-V with a memory of half words. *)

Read(a) == IF /\ {a, a + 4} \subseteq DOMAIN mem
              /\ mem[a][2] = "low"
              /\ mem[a + 4] = <<mem[a][1], "high">>
           THEN mem[a][1] ELSE Garbage

Written(a, v) == [x \in DOMAIN mem \cup {a, a + 4} |->
                    IF x = a THEN <<v, "low">>
                    ELSE IF x = a + 4 THEN <<v, "high">> ELSE mem[x]]

Run ==
    /\ phase = "run"
    /\ LET inst == AllInsts[pc]
           Set(v) == regs' = [regs EXCEPT ![inst.rd] = v] /\ UNCHANGED <<mem, phase, returned>>
           Address == regs[inst.loc.base] + inst.loc.offset
       IN /\ \/ inst.op = "Li" /\ Set(inst.imm)
             \/ inst.op = "Addi" /\ Set(regs[inst.rs] + AsI16(inst.imm))
             \/ inst.op = "Add" /\ Set(regs[inst.rs1] + regs[inst.rs2])
             \/ inst.op = "Sub" /\ Set(regs[inst.rs1] - regs[inst.rs2])
             \/ inst.op = "Load" /\ Set(Read(Address))
             \/ /\ inst.op = "Store"
                /\ mem' = Written(Address, regs[inst.rs])
                /\ UNCHANGED <<regs, phase, returned>>
             \/ /\ inst.op = "Call"
                /\ regs' = [r \in DOMAIN regs |-> IF r \in CallerSaved THEN Garbage ELSE regs[r]]
                /\ mem' = [a \in {x \in DOMAIN mem : x >= regs["sp"] + outgoing} |-> mem[a]]
                /\ UNCHANGED <<phase, returned>>
             \/ /\ inst.op = "Ret"
                /\ phase' = "done"
                /\ returned' = [r \in CalleeSaved \cup {"ra"} |-> regs[r]]
                /\ UNCHANGED <<regs, mem>>
          /\ ran' = IF inst.emitted THEN ran + 1 ELSE ran
    /\ pc' = pc + 1
    /\ UNCHANGED <<frame, body, blocks, at>>

(* The function has returned. *)
Done == phase = "done" /\ UNCHANGED vars

Next == \/ \E size \in SlotSizes : AllocSlot(size)
        \/ \E size \in ArgSizes : EmitCall(size)
        \/ EmitOther \/ NewBlock \/ Lower
        \/ GenPrologue \/ GenEpilogue \/ AdjustInst \/ AdjustNextBlock
        \/ Run \/ Done

Spec == Init /\ [][Next]_vars

-----------------------------------------------------------------------------
TypeOK ==
    /\ omit_frame_pointer \in BOOLEAN
    /\ storage \in Nat
    /\ outgoing \in Nat
    /\ saved \subseteq Work
    /\ phase \in {"select", "prologue", "epilogue", "adjust", "run", "done"}

(* The areas of a frame do not overlap, from the bottom up: outgoing       *)
(* arguments, local slots, saved registers, each of these in eight bytes   *)
(* of its own, incoming parameters; and the frame keeps the stack pointer  *)
(* aligned.  Offsets are relative to the stack pointer.                    *)
LayoutSound ==
    LET total == Total(Cardinality(saved))
        SavedAt(r) == total - 8 * Rank(r, saved)
    IN /\ total % 16 = 0
       /\ \A r \in saved : /\ outgoing + storage <= SavedAt(r)
                            /\ SavedAt(r) + 8 <= total
       /\ \A q, r \in saved : q # r => \/ SavedAt(q) + 8 <= SavedAt(r)
                                        \/ SavedAt(r) + 8 <= SavedAt(q)
       /\ \A s, t \in slots :
             /\ outgoing <= storage + outgoing + s.offset
             /\ s.offset + s.size <= 0
             /\ s # t => s.offset + s.size <= t.offset \/ t.offset + t.size <= s.offset

(* The emitted code only has operands the instructions can encode: a       *)
(* register and an offset of twelve bits.                                  *)
OperandsEncodable ==
    phase \in {"run", "done"} =>
        \A i \in DOMAIN AllInsts :
            AllInsts[i].op \in {"Load", "Store", "LoadAddr"} =>
                /\ AllInsts[i].op # "LoadAddr"
                /\ AllInsts[i].loc.kind = "RegOffset"
                /\ Fits(AllInsts[i].loc.offset)

(* Nothing is stored below the stack pointer, where a signal handler would *)
(* overwrite it: the frame is reserved before it is used and given up only *)
(* after everything in it was read.                                        *)
StoresAboveSp ==
    [][/\ \A a \in DOMAIN mem' \ DOMAIN mem : a >= regs["sp"]
       /\ regs'["sp"] > regs["sp"] => phase' = "run" /\ AllInsts[pc + 1].op = "Ret"]_vars

(* Frames implement cells: no access of the code, of the prologue or of    *)
(* the epilogue changes another slot, parameter, argument or register than *)
(* the one it is meant for, and the caller gets its registers back.        *)
Address(c) ==
    LET total == Total(Cardinality(saved)) IN
    c.offset + CASE c.kind = "Slot" -> storage + outgoing - total
                 [] c.kind = "Incoming" -> 0
                 [] c.kind = "Outgoing" -> -total

OutCells == {[kind |-> "Outgoing", offset |-> o] : o \in OutOffset}
Cells == SlotCells \cup InCells \cup OutCells

(* A number in a register is the address of a cell. *)
Value(v) == IF v \in Int THEN [ptr |-> CHOOSE c \in Cells : Address(c) = v] ELSE v

Frames == INSTANCE FrameCells WITH
    Preserved <- CalleeSaved \cup {"ra"},
    Clobbered <- CallerSaved,
    Incoming <- [c \in InCells |-> Params[c.offset]],
    pc <- ran,
    cells <- [c \in Cells |-> IF phase = "select" /\ c.kind # "Incoming" THEN Garbage
                              ELSE Value(Read(Address(c)))],
    work <- [r \in Work |-> IF r = "fp" /\ ~omit_frame_pointer THEN Entry[r]
                            ELSE Value(regs[r])],
    returned <- returned

ImplementsCells == Frames!Spec
=============================================================================
