---------------------------- MODULE FrameProofs -----------------------------
(***************************************************************************)
(* Proofs about Frame: for every size and number of slots, every argument  *)
(* area and every set of saved registers, frames are laid out soundly, a   *)
(* 12-bit immediate is read back as the number it was made from, the code  *)
(* that leaves the frame pass has none that does not fit, and when it is   *)
(* run it stores nothing below the stack pointer.                          *)
(***************************************************************************)
EXTENDS Frame, FiniteSetTheorems, SequenceTheorems, WellFoundedInduction, TLAPS

(* What a slot is: allocated within the storage, and apart from others.    *)
SlotsInv ==
    \A s, t \in slots :
        /\ s.offset \in Int
        /\ s.size \in Nat
        /\ -storage <= s.offset
        /\ s.offset + s.size <= 0
        /\ s # t => s.offset + s.size <= t.offset \/ t.offset + t.size <= s.offset

(* The inductive invariant. *)
IInv == TypeOK /\ SlotsInv

(* An immediate of gen_func_prologue, gen_func_epilogue or adjust_offset   *)
(* is the number that try_from_i64 was given: sign extension undoes the    *)
(* truncation for all numbers that fit.                                    *)
THEOREM ImmediatesKeepTheirValue ==
    ASSUME NEW x \in Int, Fits(x)
    PROVE  AsI16(Bits(x)) = x
<1>1. x \in -2048 .. 2047
  BY DEF Fits
<1>2. CASE x >= 0
  <2>1. Bits(x) = x
    BY <1>1, <1>2 DEF Bits
  <2>2. x * 16 < 32768 /\ x * 16 >= 0
    BY <1>1, <1>2
  <2> QED
    BY <2>1, <2>2, <1>1 DEF AsI16
<1>3. CASE x < 0
  <2>1. Bits(x) = x + 4096
    BY <1>1, <1>3 DEF Bits
  <2>2. ((x + 4096) * 16) % 65536 = x * 16 + 65536
    BY <1>1, <1>3
  <2>3. x * 16 + 65536 >= 32768
    BY <1>1
  <2>4. AsI16(Bits(x)) = (x * 16) \div 16
    BY <2>1, <2>2, <2>3, <1>1 DEF AsI16
  <2> QED
    BY <2>4, <1>1
<1> QED
  BY <1>1, <1>2, <1>3

-----------------------------------------------------------------------------
(* The order of the saved registers. *)

LEMMA WorkFinite == IsFiniteSet(Work)
<1>1. IsFiniteSet({}) /\ IsFiniteSet({"ra"}) /\ IsFiniteSet({"fp"})
        /\ IsFiniteSet({"s1"}) /\ IsFiniteSet({"a0"})
  BY FS_EmptySet, FS_Singleton
<1>2. IsFiniteSet({"ra"} \cup {"fp"}) /\ IsFiniteSet({"s1"} \cup {"a0"})
  BY <1>1, FS_Union
<1>3. IsFiniteSet(({"ra"} \cup {"fp"}) \cup ({"s1"} \cup {"a0"}))
  BY <1>2, FS_Union
<1>4. Work = ({"ra"} \cup {"fp"}) \cup ({"s1"} \cup {"a0"})
  BY DEF Work
<1> QED
  BY <1>3, <1>4

(* A saved register's rank is between 1 and their number. *)
LEMMA RankBounded ==
    ASSUME NEW S, S \subseteq Work, NEW r \in S
    PROVE  /\ Cardinality(S) \in Nat
           /\ Rank(r, S) \in 1 .. Cardinality(S)
<1> DEFINE below == {q \in S : Num[q] <= Num[r]}
<1>1. IsFiniteSet(S) /\ Cardinality(S) \in Nat
  BY WorkFinite, FS_Subset, FS_CardinalityType
<1>2. IsFiniteSet(below) /\ Cardinality(below) \in Nat /\ Cardinality(below) <= Cardinality(S)
  BY <1>1, FS_Subset, FS_CardinalityType
<1>3. Num[r] \in Nat
  BY DEF Num, Work
<1>4. r \in below
  BY <1>3
<1>5. Cardinality(below) # 0
  BY <1>2, <1>4, FS_EmptySet
<1> QED
  BY <1>1, <1>2, <1>5 DEF Rank

(* Two registers have two ranks, in the order of their numbers. *)
LEMMA RankIncreasing ==
    ASSUME NEW S, S \subseteq Work, NEW q \in S, NEW r \in S, Num[q] < Num[r]
    PROVE  Rank(q, S) < Rank(r, S)
<1> DEFINE belowQ == {p \in S : Num[p] <= Num[q]}
           belowR == {p \in S : Num[p] <= Num[r]}
<1>1. \A p \in S : Num[p] \in Nat
  BY DEF Num, Work
<1>2. belowQ \subseteq belowR
  BY <1>1
<1>3. r \in belowR /\ r \notin belowQ
  BY <1>1
<1>4. IsFiniteSet(belowR)
  BY WorkFinite, FS_Subset
<1>5. /\ Cardinality(belowQ) <= Cardinality(belowR)
      /\ Cardinality(belowQ) = Cardinality(belowR) => belowR = belowQ
      /\ IsFiniteSet(belowQ)
  BY <1>2, <1>4, FS_Subset
<1>6. Cardinality(belowQ) \in Nat /\ Cardinality(belowR) \in Nat
  BY <1>4, <1>5, FS_CardinalityType
<1> QED
  BY <1>3, <1>5, <1>6 DEF Rank

LEMMA RankInjective ==
    ASSUME NEW S, S \subseteq Work, NEW q \in S, NEW r \in S, q # r
    PROVE  Rank(q, S) < Rank(r, S) \/ Rank(r, S) < Rank(q, S)
<1>1. Num[q] \in Nat /\ Num[r] \in Nat /\ Num[q] # Num[r]
  BY DEF Num, Work
<1>2. CASE Num[q] < Num[r]
  BY <1>2, RankIncreasing
<1>3. CASE Num[r] < Num[q]
  BY <1>3, RankIncreasing
<1> QED
  BY <1>1, <1>2, <1>3

(* The total size is a multiple of 16 and holds all three areas. *)
LEMMA TotalHolds ==
    ASSUME storage \in Nat, outgoing \in Nat, NEW n \in Nat
    PROVE  /\ Total(n) \in Nat
           /\ Total(n) % 16 = 0
           /\ storage + outgoing + n * 8 <= Total(n)
<1> DEFINE raw == storage + outgoing + n * 8
<1>1. raw \in Nat
  OBVIOUS
<1> HIDE DEF raw
<1>2. /\ ((raw + 15) \div 16) * 16 \in Nat
      /\ (((raw + 15) \div 16) * 16) % 16 = 0
      /\ raw <= ((raw + 15) \div 16) * 16
  BY <1>1
<1> QED
  BY <1>2 DEF Total, raw

-----------------------------------------------------------------------------
(* The invariant gives the layout. *)
LEMMA LayoutFromInv ==
    ASSUME IInv
    PROVE  LayoutSound
<1> DEFINE n == Cardinality(saved)
           total == Total(n)
<1>1. storage \in Nat /\ outgoing \in Nat /\ saved \subseteq Work
  BY DEF IInv, TypeOK
<1>2. n \in Nat
  BY <1>1, WorkFinite, FS_Subset, FS_CardinalityType
<1>3. total \in Nat /\ total % 16 = 0 /\ storage + outgoing + n * 8 <= total
  BY <1>1, <1>2, TotalHolds
<1>4. \A r \in saved : Rank(r, saved) \in 1 .. n
  BY <1>1, RankBounded
<1>5. \A q, r \in saved :
        q # r => Rank(q, saved) < Rank(r, saved) \/ Rank(r, saved) < Rank(q, saved)
  BY <1>1, RankInjective
<1> HIDE DEF n, total
<1>6. ASSUME NEW r \in saved
      PROVE  /\ outgoing + storage <= total - 8 * Rank(r, saved)
             /\ (total - 8 * Rank(r, saved)) + 8 <= total
  BY <1>1, <1>2, <1>3, <1>4
<1>7. ASSUME NEW q \in saved, NEW r \in saved, q # r
      PROVE  \/ (total - 8 * Rank(q, saved)) + 8 <= total - 8 * Rank(r, saved)
             \/ (total - 8 * Rank(r, saved)) + 8 <= total - 8 * Rank(q, saved)
  <2>1. Rank(q, saved) \in Nat /\ Rank(r, saved) \in Nat
    BY <1>2, <1>4
  <2> QED
    BY <2>1, <1>3, <1>5, <1>7
<1>8. ASSUME NEW s \in slots, NEW t \in slots
      PROVE  /\ outgoing <= storage + outgoing + s.offset
             /\ s.offset + s.size <= 0
             /\ s # t => s.offset + s.size <= t.offset \/ t.offset + t.size <= s.offset
  BY <1>1 DEF IInv, SlotsInv
<1> QED
  BY <1>3, <1>6, <1>7, <1>8 DEF LayoutSound, n, total

-----------------------------------------------------------------------------
LEMMA InvInit == Init => IInv
  BY DEF Init, IInv, TypeOK, SlotsInv

(* An emitted instruction overwrites no register that is preserved without *)
(* being allocatable: sp is never saved.                                   *)
LEMMA SavedStaysWork ==
    ASSUME saved \subseteq Work, NEW inst,
           inst.op \in {"Call", "Store"} \/ inst.rd \in Work
    PROVE  saved \cup (Clobbers(inst) \cap CalleeSaved) \subseteq Work
<1>1. CASE inst.op \in {"Call", "Store"}
  BY <1>1 DEF Clobbers, CallerSaved, CalleeSaved, Work
<1>2. CASE inst.op \notin {"Call", "Store"}
  BY <1>2 DEF Clobbers
<1> QED
  BY <1>1, <1>2

LEMMA InvEmit ==
    ASSUME IInv, NEW inst, Emit(inst), outgoing' \in Nat,
           inst.op \in {"Call", "Store"} \/ inst.rd \in Work
    PROVE  IInv'
<1>1. saved' \subseteq Work
  BY SavedStaysWork DEF Emit, IInv, TypeOK
<1> QED
  BY <1>1 DEF Emit, IInv, TypeOK, SlotsInv

LEMMA InvAllocSlot ==
    ASSUME IInv, NEW size \in SlotSizes, AllocSlot(size)
    PROVE  IInv'
<1> DEFINE new == [offset |-> -(storage + size), size |-> size]
<1>1. storage \in Nat /\ size \in Nat
  BY FrameAssumption DEF IInv, TypeOK
<1>2. storage' = storage + size /\ slots' = slots \cup {new}
  BY DEF AllocSlot
<1>3. TypeOK'
  BY <1>1, <1>2 DEF IInv, TypeOK, AllocSlot
<1>4. new.offset = -(storage + size) /\ new.size = size
  OBVIOUS
<1> HIDE DEF new
<1>5. SlotsInv'
  <2> SUFFICES ASSUME NEW s \in slots', NEW t \in slots'
               PROVE  /\ s.offset \in Int
                      /\ s.size \in Nat
                      /\ -storage' <= s.offset
                      /\ s.offset + s.size <= 0
                      /\ s # t => \/ s.offset + s.size <= t.offset
                                  \/ t.offset + t.size <= s.offset
    BY DEF SlotsInv
  <2>1. CASE s \in slots /\ t \in slots
    BY <2>1, <1>1, <1>2 DEF IInv, SlotsInv
  <2>2. CASE s \in slots /\ t = new
    BY <2>2, <1>1, <1>2, <1>4 DEF IInv, SlotsInv
  <2>3. CASE s = new /\ t \in slots
    BY <2>3, <1>1, <1>2, <1>4 DEF IInv, SlotsInv
  <2>4. CASE s = new /\ t = new
    BY <2>4, <1>1, <1>2, <1>4
  <2> QED
    BY <2>1, <2>2, <2>3, <2>4, <1>2
<1> QED
  BY <1>3, <1>5 DEF IInv

LEMMA InvNext == IInv /\ [Next]_vars => IInv'
<1> SUFFICES ASSUME IInv, [Next]_vars
             PROVE  IInv'
  OBVIOUS
<1>1. ASSUME NEW size \in SlotSizes, AllocSlot(size)
      PROVE  IInv'
  BY <1>1, InvAllocSlot
<1>2. ASSUME NEW size \in ArgSizes, EmitCall(size)
      PROVE  IInv'
  <2>1. outgoing' \in Nat
    BY <1>2, FrameAssumption DEF EmitCall, IInv, TypeOK
  <2>2. Call.op = "Call"
    BY DEF Call
  <2> QED
    BY <1>2, <2>1, <2>2, InvEmit DEF EmitCall
<1>3. CASE EmitOther
  <2>1. outgoing' \in Nat
    BY <1>3 DEF EmitOther, IInv, TypeOK
  <2>2. General \subseteq Work
    BY DEF General
  <2>3. ASSUME NEW r \in General, NEW d \in Data, Emit(Li(r, d))
        PROVE  IInv'
    <3>1. Li(r, d).rd \in Work
      BY <2>2 DEF Li
    <3> QED
      BY <2>1, <2>3, <3>1, InvEmit
  <2>4. ASSUME NEW r \in General, NEW l, Emit(Load(r, l))
        PROVE  IInv'
    <3>1. Load(r, l).rd \in Work
      BY <2>2 DEF Load
    <3> QED
      BY <2>1, <2>4, <3>1, InvEmit
  <2>5. ASSUME NEW r \in General, NEW l, Emit(Store(r, l))
        PROVE  IInv'
    <3>1. Store(r, l).op = "Store"
      BY DEF Store
    <3> QED
      BY <2>1, <2>5, <3>1, InvEmit
  <2>6. ASSUME NEW l, Emit(LoadAddr("a0", l))
        PROVE  IInv'
    <3>1. LoadAddr("a0", l).rd \in Work
      BY DEF LoadAddr, Work
    <3> QED
      BY <2>1, <2>6, <3>1, InvEmit
  <2> QED
    BY <1>3, <2>3, <2>4, <2>5, <2>6 DEF EmitOther
<1>4. CASE NewBlock
  BY <1>4 DEF NewBlock, frame, IInv, TypeOK, SlotsInv
<1>5. CASE Lower
  BY <1>5 DEF Lower, frame, IInv, TypeOK, SlotsInv
<1>6. CASE GenPrologue
  <2>1. ToSave \subseteq Work
    BY DEF ToSave, Work, IInv, TypeOK
  <2> QED
    BY <1>6, <2>1 DEF GenPrologue, IInv, TypeOK, SlotsInv
<1>7. CASE GenEpilogue
  BY <1>7 DEF GenEpilogue, frame, IInv, TypeOK, SlotsInv
<1>8. CASE AdjustInst
  BY <1>8 DEF AdjustInst, frame, IInv, TypeOK, SlotsInv
<1>9. CASE AdjustNextBlock
  BY <1>9 DEF AdjustNextBlock, frame, IInv, TypeOK, SlotsInv
<1>10. CASE Run
  <2>1. phase' \in {phase, "done"} /\ UNCHANGED frame
    BY <1>10 DEF Run
  <2> QED
    BY <2>1 DEF frame, IInv, TypeOK, SlotsInv
<1>11. CASE Done \/ UNCHANGED vars
  BY <1>11 DEF Done, vars, frame, IInv, TypeOK, SlotsInv
<1> QED
  BY <1>1, <1>2, <1>3, <1>4, <1>5, <1>6, <1>7, <1>8, <1>9, <1>10, <1>11 DEF Next

(* Every reachable state is well typed; only allocatable registers are     *)
(* ever saved, so that the stack pointer is restored by addition alone.    *)
THEOREM TypeCorrect == Spec => []TypeOK
<1>1. IInv => TypeOK
  BY DEF IInv
<1> QED
  BY <1>1, InvInit, InvNext, PTL DEF Spec

(* The areas of every frame are disjoint and its size keeps the stack      *)
(* aligned, for all slots, calls and registers, in every phase.            *)
THEOREM LayoutIsSound == Spec => []LayoutSound
<1>1. IInv => LayoutSound
  BY LayoutFromInv
<1> QED
  BY <1>1, InvInit, InvNext, PTL DEF Spec

-----------------------------------------------------------------------------
(***************************************************************************)
(* The code, from the first instruction that is emitted to the last that   *)
(* is adjusted.                                                            *)
(***************************************************************************)
Regs == Work \cup {"sp", "t0"}

Loc == [kind : {"Slot", "Incoming"}, offset : Int]
       \cup [kind : {"RegOffset"}, base : Regs, offset : Int]

MemInst == [op : {"Load", "LoadAddr"}, rd : Regs, loc : Loc, emitted : BOOLEAN]
           \cup [op : {"Store"}, rs : Regs, loc : Loc, emitted : BOOLEAN]

OtherInst == [op : {"Li"}, rd : Regs, imm : Data \cup Int, emitted : BOOLEAN]
             \cup [op : {"Addi"}, rd : Regs, rs : Regs, imm : Int, emitted : BOOLEAN]
             \cup [op : {"Add", "Sub"}, rd : Regs, rs1 : Regs, rs2 : Regs, emitted : BOOLEAN]
             \cup [op : {"Call", "Ret"}, emitted : BOOLEAN]

(* An operand that is encoded already. *)
Direct(loc) == loc.kind = "RegOffset" /\ Fits(loc.offset)

(* What the instructions may be before they are adjusted, and after: a     *)
(* slot or a parameter stands for its location until then.                 *)
Code == OtherInst \cup {i \in MemInst : i.loc.kind = "RegOffset" => i.op # "LoadAddr" /\ Direct(i.loc)}
Final == OtherInst \cup {i \in MemInst : i.op # "LoadAddr" /\ Direct(i.loc)}

LEMMA FinalIsCode == Final \subseteq Code
BY DEF Final, Code

LEMMA OtherOps == \A i \in OtherInst : i.op \notin {"Load", "Store", "LoadAddr"}
BY DEF OtherInst

LEMMA FinalEncodable ==
    \A i \in Final : i.op \in {"Load", "Store", "LoadAddr"} =>
        /\ i.op # "LoadAddr"
        /\ i.loc.kind = "RegOffset"
        /\ Fits(i.loc.offset)
BY OtherOps DEF Final, Direct

LEMMA FinalOps ==
    ASSUME NEW rd \in Regs, NEW rs \in Regs, NEW rt \in Regs, NEW v \in Data \cup Int,
           NEW b \in Int, NEW op \in {"Add", "Sub"}
    PROVE  /\ Li(rd, v) \in Final /\ Addi(rd, rs, b) \in Final /\ Alu(op, rd, rs, rt) \in Final
           /\ Call \in Final /\ Ret \in Final
<1>1. Li(rd, v) \in OtherInst
    BY DEF Li, OtherInst
<1>2. Addi(rd, rs, b) \in OtherInst
    BY DEF Addi, OtherInst
<1>3. Alu(op, rd, rs, rt) \in OtherInst
    BY DEF Alu, OtherInst
<1>4. Call \in OtherInst /\ Ret \in OtherInst
    BY DEF Call, Ret, OtherInst
<1> QED BY <1>1, <1>2, <1>3, <1>4 DEF Final

LEMMA FinalMem ==
    ASSUME NEW r \in Regs, NEW base \in Regs, NEW o \in Int, Fits(o)
    PROVE  /\ Load(r, RegOffset(base, o)) \in Final
           /\ Store(r, RegOffset(base, o)) \in Final
<1> DEFINE loc == RegOffset(base, o)
<1>1. loc \in Loc /\ Direct(loc)
    BY DEF RegOffset, Loc, Direct
<1> HIDE DEF loc
<1>2. Load(r, loc) \in MemInst /\ Store(r, loc) \in MemInst
    BY <1>1 DEF Load, Store, MemInst
<1>3. /\ Load(r, loc).loc = loc /\ Load(r, loc).op = "Load"
      /\ Store(r, loc).loc = loc /\ Store(r, loc).op = "Store"
    BY DEF Load, Store
<1> QED BY <1>1, <1>2, <1>3 DEF Final, loc

LEMMA CodeMem ==
    ASSUME NEW r \in Regs, NEW loc \in Loc, loc.kind = "RegOffset" => Direct(loc)
    PROVE  /\ Load(r, loc) \in Code /\ Store(r, loc) \in Code
           /\ loc.kind # "RegOffset" => LoadAddr(r, loc) \in Code
<1>1. Load(r, loc) \in MemInst /\ Store(r, loc) \in MemInst /\ LoadAddr(r, loc) \in MemInst
    BY DEF Load, Store, LoadAddr, MemInst
<1>2. /\ Load(r, loc).loc = loc /\ Load(r, loc).op = "Load"
      /\ Store(r, loc).loc = loc /\ Store(r, loc).op = "Store"
      /\ LoadAddr(r, loc).loc = loc
    BY DEF Load, Store, LoadAddr
<1> QED BY <1>1, <1>2 DEF Code

(* To mark an instruction as emitted changes nothing else. *)
LEMMA EmittedCode == \A i \in Code : Emitted(i) \in Code
<1>1. ASSUME NEW i \in OtherInst PROVE Emitted(i) \in OtherInst
    BY DEF OtherInst, Emitted
<1>2. ASSUME NEW i \in MemInst
      PROVE  Emitted(i) \in MemInst /\ Emitted(i).loc = i.loc /\ Emitted(i).op = i.op
    BY DEF MemInst, Emitted
<1> QED BY <1>1, <1>2 DEF Code

-----------------------------------------------------------------------------
(* What adjust_offset makes of an instruction. *)
LEMMA ResolvedLoc ==
    ASSUME storage \in Nat, outgoing \in Nat, saved \subseteq Work, NEW loc \in Loc
    PROVE  /\ Resolve(loc).base \in Regs /\ Resolve(loc).offset \in Int
           /\ Resolve(loc) = RegOffset(Resolve(loc).base, Resolve(loc).offset)
<1>1. Cardinality(saved) \in Nat
    BY WorkFinite, FS_Subset, FS_CardinalityType
<1>2. Total(Cardinality(saved)) \in Int /\ loc.offset \in Int
    BY <1>1, TotalHolds DEF Loc
<1>3. "sp" \in Regs /\ "fp" \in Regs
    BY DEF Regs, Work
<1>4. PICK base \in Regs, o \in Int : Resolve(loc) = RegOffset(base, o)
    <2> DEFINE total == Total(Cardinality(saved))
               above == loc.offset + IF loc.kind = "Slot" THEN storage + outgoing ELSE total
               below == loc.offset - IF loc.kind = "Slot" THEN total - storage - outgoing ELSE 0
    <2>1. above \in Int /\ below \in Int
        BY <1>2
    <2>2. Resolve(loc) = IF omit_frame_pointer THEN RegOffset("sp", above)
                                              ELSE RegOffset("fp", below)
        BY DEF Resolve
    <2> HIDE DEF above, below
    <2> QED BY <1>3, <2>1, <2>2
<1>5. Resolve(loc).base = base /\ Resolve(loc).offset = o
    BY <1>4 DEF RegOffset
<1> QED BY <1>4, <1>5

LEMMA BitsInt == \A o \in Int : Bits(o) \in Int
BY DEF Bits

LEMMA AdjustedFinal ==
    ASSUME storage \in Nat, outgoing \in Nat, saved \subseteq Work, NEW inst \in Code
    PROVE  Adjusted(inst) \in Seq(Final)
<1>1. CASE inst.op \notin {"Load", "Store", "LoadAddr"} \/ inst.loc.kind = "RegOffset"
    <2>1. inst \in Final
        BY <1>1 DEF Code, Final, MemInst, Direct
    <2> QED BY <1>1, <2>1 DEF Adjusted
<1>2. CASE inst.op \in {"Load", "Store", "LoadAddr"} /\ inst.loc.kind # "RegOffset"
    <2> DEFINE new == Resolve(inst.loc)
               loc == IF Fits(new.offset) THEN new ELSE RegOffset("t0", 0)
               before == IF Fits(new.offset) THEN <<>>
                         ELSE <<Li("t0", new.offset), Alu("Add", "t0", new.base, "t0")>>
               last == IF inst.op = "LoadAddr"
                       THEN [Addi(inst.rd, loc.base, Bits(loc.offset))
                               EXCEPT !.emitted = inst.emitted]
                       ELSE [inst EXCEPT !.loc = loc]
    <2>1. inst \in MemInst
        BY <1>2, OtherOps DEF Code
    <2>2. inst.loc \in Loc /\ inst.emitted \in BOOLEAN
        BY <2>1 DEF MemInst
    <2>3. new.base \in Regs /\ new.offset \in Int /\ new = RegOffset(new.base, new.offset)
        BY <2>2, ResolvedLoc
    <2>4. Adjusted(inst) = before \o <<last>>
        BY <1>2 DEF Adjusted
    <2> HIDE DEF new
    <2>5. Fits(0) /\ "t0" \in Regs
        BY DEF Fits, Regs
    <2>6. before \in Seq(Final)
        <3>1. Li("t0", new.offset) \in Final /\ Alu("Add", "t0", new.base, "t0") \in Final
            BY <2>3, <2>5, FinalOps
        <3> QED BY <3>1
    <2>7. loc \in Loc /\ Direct(loc) /\ loc.base \in Regs /\ loc.offset \in Int
        <3>1. CASE Fits(new.offset)
            BY <2>3, <3>1 DEF RegOffset, Loc, Direct
        <3>2. CASE ~ Fits(new.offset)
            BY <2>5, <3>2 DEF RegOffset, Loc, Direct
        <3> QED BY <3>1, <3>2
    <2> HIDE DEF loc
    <2>8. last \in Final
        <3>1. CASE inst.op = "LoadAddr"
            <4>1. inst.rd \in Regs /\ Bits(loc.offset) \in Int
                BY <2>1, <2>7, <3>1, BitsInt DEF MemInst
            <4>2. last \in OtherInst
                BY <2>2, <2>7, <3>1, <4>1 DEF Addi, OtherInst
            <4> QED BY <4>2 DEF Final
        <3>2. CASE inst.op # "LoadAddr"
            <4>1. last \in MemInst /\ last.op = inst.op /\ last.loc = loc
                BY <2>1, <2>7, <3>2 DEF MemInst
            <4> QED BY <2>7, <3>2, <4>1 DEF Final
        <3> QED BY <3>1, <3>2
    <2> HIDE DEF before, last
    <2>9. <<last>> \in Seq(Final)
        BY <2>8
    <2> QED BY <2>4, <2>6, <2>9, ConcatProperties
<1> QED BY <1>1, <1>2

-----------------------------------------------------------------------------
(***************************************************************************)
(* Sequences of instructions: flattened, and with a part replaced.         *)
(***************************************************************************)

(* Induction, as sets: a set of numbers that is not empty has a least one. *)
Less == {p \in Nat \X Nat : p[1] < p[2]}

LEMMA LeastMember ==
    ASSUME NEW T \in SUBSET Nat, T # {}
    PROVE  \E x \in T : \A y \in T : x <= y
<1>1. IsWellFoundedOn(Less, Nat)
    BY NatLessThanWellFounded DEF Less, OpToRel
<1>2. PICK x \in T : \A y \in T : <<y, x>> \notin Less
    BY <1>1, WFMin, Zenon
<1>3. \A y \in T : ~ (y < x)
    BY <1>2 DEF Less
<1> QED BY <1>3

(* The function FlattenSeq computes by recursion over the places of ss. *)
Flattens(f, ss, n) ==
    f = [i \in 1 .. n |-> IF i = 1 THEN ss[i] ELSE f[i - 1] \o ss[i]]

LEMMA SomeFlattens ==
    ASSUME NEW ss, NEW k \in Nat
    PROVE  \E f : Flattens(f, ss, k)
<1> DEFINE T == {n \in Nat : ~ \E f : Flattens(f, ss, n)}
<1>1. ASSUME T # {} PROVE FALSE
    <2>1. PICK n \in T : \A m \in T : n <= m
        BY <1>1, LeastMember
    <2>2. n # 0
        <3>1. Flattens([i \in 1 .. 0 |-> ss[1]], ss, 0)
            BY DEF Flattens
        <3> QED BY <3>1
    <2>3. n - 1 \in Nat /\ n - 1 \notin T
        BY <2>1, <2>2
    <2>4. PICK f : Flattens(f, ss, n - 1)
        BY <2>3
    <2> DEFINE g == [i \in 1 .. n |-> IF i = n
                                      THEN IF n = 1 THEN ss[n] ELSE f[n - 1] \o ss[n]
                                      ELSE f[i]]
    <2>5. \A i \in 1 .. n : g[i] = IF i = 1 THEN ss[i] ELSE g[i - 1] \o ss[i]
        <3> TAKE i \in 1 .. n
        <3>1. CASE i = n
            BY <2>2, <3>1
        <3>2. CASE i # n
            <4>1. i \in 1 .. (n - 1) /\ g[i] = f[i] /\ (i # 1 => g[i - 1] = f[i - 1])
                BY <3>2
            <4>2. f[i] = IF i = 1 THEN ss[i] ELSE f[i - 1] \o ss[i]
                BY <2>4, <4>1 DEF Flattens
            <4> QED BY <4>1, <4>2
        <3> QED BY <3>1, <3>2
    <2>6. Flattens(g, ss, n)
        BY <2>5 DEF Flattens
    <2> QED BY <2>6
<1> QED BY <1>1

FlattenOf(ss) ==
    CHOOSE g : g = [i \in 1 .. Len(ss) |-> IF i = 1 THEN ss[i] ELSE g[i - 1] \o ss[i]]

LEMMA FlattenFunction ==
    ASSUME NEW ss, Len(ss) \in Nat
    PROVE  /\ FlattenSeq(ss) = IF Len(ss) = 0 THEN ss ELSE FlattenOf(ss)[Len(ss)]
           /\ FlattenOf(ss) = [i \in 1 .. Len(ss) |->
                                 IF i = 1 THEN ss[i] ELSE FlattenOf(ss)[i - 1] \o ss[i]]
<1>1. FlattenSeq(ss) = IF Len(ss) = 0 THEN ss ELSE FlattenOf(ss)[Len(ss)]
    BY DEF FlattenSeq, FlattenOf
<1> DEFINE k == Len(ss)
<1>2. k \in Nat
    OBVIOUS
<1> HIDE DEF k
<1>3. \E g : Flattens(g, ss, k)
    BY <1>2, SomeFlattens, Zenon
<1>4. \E g : Flattens(g, ss, Len(ss))
    BY <1>3, Zenon DEF k
<1> QED BY <1>1, <1>4, Zenon DEF Flattens, FlattenOf

(* Sequences of elements of S flatten to a sequence of elements of S. *)
LEMMA FlattenType ==
    ASSUME NEW S, NEW ss \in Seq(Seq(S))
    PROVE  FlattenSeq(ss) \in Seq(S)
<1> DEFINE f == FlattenOf(ss)
<1>1. FlattenSeq(ss) = IF Len(ss) = 0 THEN ss ELSE f[Len(ss)]
    <2>1. Len(ss) \in Nat
        OBVIOUS
    <2> QED BY <2>1, FlattenFunction, Zenon
<1>2. f = [i \in 1 .. Len(ss) |-> IF i = 1 THEN ss[i] ELSE f[i - 1] \o ss[i]]
    <2>1. Len(ss) \in Nat
        OBVIOUS
    <2> QED BY <2>1, FlattenFunction, Zenon
<1> HIDE DEF f
<1> DEFINE T == {n \in Nat : n \in 1 .. Len(ss) /\ f[n] \notin Seq(S)}
<1>3. ASSUME T # {} PROVE FALSE
    <2>1. PICK n \in T : \A m \in T : n <= m
        BY <1>3, LeastMember
    <2>a. n \in 1 .. Len(ss) /\ f[n] \notin Seq(S)
        BY <2>1, Zenon
    <2>b. ss[n] \in Seq(S)
        BY <2>a, ElementOfSeq
    <2>c. f[n] = IF n = 1 THEN ss[n] ELSE f[n - 1] \o ss[n]
        BY <1>2, <2>a, Zenon
    <2>2. /\ n \in 1 .. Len(ss) /\ f[n] \notin Seq(S) /\ ss[n] \in Seq(S)
          /\ f[n] = IF n = 1 THEN ss[n] ELSE f[n - 1] \o ss[n]
        BY <2>a, <2>b, <2>c
    <2>3. n # 1 => f[n - 1] \in Seq(S)
        BY <2>1, <2>2
    <2>4. n # 1 => f[n - 1] \o ss[n] \in Seq(S)
        BY <2>2, <2>3, ConcatProperties
    <2> QED BY <2>2, <2>4
<1>4. Len(ss) # 0 => Len(ss) \in 1 .. Len(ss)
    OBVIOUS
<1>5. Len(ss) = 0 => ss \in Seq(S)
    OBVIOUS
<1> QED BY <1>1, <1>3, <1>4, <1>5

(* An element is replaced by a sequence: what is before stays, and the     *)
(* replacement is before what comes next.                                  *)
LEMMA Replaced ==
    ASSUME NEW S, NEW F, F \subseteq S, NEW s \in Seq(S), NEW i \in 1 .. Len(s),
           NEW t \in Seq(F), \A j \in 1 .. (i - 1) : s[j] \in F,
           NEW z, z = SubSeq(s, 1, i - 1) \o t \o SubSeq(s, i + 1, Len(s))
    PROVE  z \in Seq(S) /\ \A j \in 1 .. Len(z) : j < i + Len(t) => z[j] \in F
<1> DEFINE a == SubSeq(s, 1, i - 1)
           c == SubSeq(s, i + 1, Len(s))
           u == a \o t
<1>1. /\ Len(s) \in Nat /\ i \in Nat /\ 1 \in Int /\ i - 1 \in Int /\ i + 1 \in Int
      /\ Len(s) \in Int /\ \A j \in 1 .. Len(s) : s[j] \in S
    OBVIOUS
<1>2. /\ a \in Seq(F) /\ Len(a) = IF 1 <= i - 1 THEN (i - 1) - 1 + 1 ELSE 0
    BY <1>1, SubSeqProperties
<1>3. c \in Seq(S)
    <2>1. \A j \in (i + 1) .. Len(s) : s[j] \in S
        BY <1>1
    <2> QED BY <1>1, <2>1, SubSeqProperties
<1> HIDE DEF a, c
<1>4. Len(a) = i - 1 /\ Len(t) \in Nat
    BY <1>1, <1>2
<1>5. u \in Seq(F) /\ Len(u) = Len(a) + Len(t)
    BY <1>2, ConcatProperties
<1>6. z = u \o c
    BY DEF a, c
<1> HIDE DEF u
<1>7. u \in Seq(S)
    <2>1. \A j \in 1 .. Len(u) : u[j] \in S
        BY <1>5
    <2> QED BY <1>5, <2>1
<1>8. /\ u \o c \in Seq(S) /\ Len(u \o c) = Len(u) + Len(c)
      /\ \A j \in 1 .. (Len(u) + Len(c)) : (u \o c)[j] = IF j <= Len(u) THEN u[j] ELSE c[j - Len(u)]
    BY <1>3, <1>7, ConcatProperties
<1>9. ASSUME NEW j \in 1 .. Len(z), j < i + Len(t) PROVE z[j] \in F
    <2>1. j \in 1 .. Len(u)
        BY <1>1, <1>4, <1>5, <1>9
    <2>2. j \in 1 .. (Len(u) + Len(c)) /\ j <= Len(u)
        BY <1>6, <1>8, <2>1
    <2>3. z[j] = u[j]
        BY <1>6, <1>8, <2>2
    <2>4. u[j] \in F
        BY <1>5, <2>1, ElementOfSeq
    <2> QED BY <2>3, <2>4, Zenon
<1> QED BY <1>6, <1>8, <1>9

LEMMA NarrowerSeq ==
    ASSUME NEW S, NEW B, NEW s \in Seq(S), \A j \in 1 .. Len(s) : s[j] \in B
    PROVE  s \in Seq(B)
OBVIOUS

(* One block of the code is exchanged. *)
LEMMA BlockSet ==
    ASSUME NEW S, NEW bs \in Seq(Seq(S)), NEW b \in 1 .. Len(bs), NEW x \in Seq(S),
           NEW z, z = [bs EXCEPT ![b] = x]
    PROVE  /\ z \in Seq(Seq(S)) /\ Len(z) = Len(bs) /\ z[b] = x
           /\ \A c \in 1 .. Len(bs) : c # b => z[c] = bs[c]
<1> DEFINE B == Seq(S)
<1>1. bs \in Seq(B) /\ x \in B
    OBVIOUS
<1> HIDE DEF B
<1>2. z \in Seq(B) /\ Len(z) = Len(bs) /\ \A c \in 1 .. Len(bs) : z[c] = IF c = b THEN x ELSE bs[c]
    BY <1>1
<1> QED BY <1>2 DEF B

-----------------------------------------------------------------------------
(***************************************************************************)
(* The prologue and the epilogue.                                          *)
(***************************************************************************)

(* Every place in the order of the saved registers is taken. *)
LEMMA SavedSeqMember ==
    ASSUME NEW S, S \subseteq Work, NEW i \in 1 .. Cardinality(S)
    PROVE  SavedSeq(S)[i] \in S
<1> DEFINE n == Cardinality(S)
           f == [r \in S |-> Rank(r, S)]
<1>1. IsFiniteSet(S) /\ n \in Nat
    BY WorkFinite, FS_Subset, FS_CardinalityType
<1>2. IsFiniteSet(1 .. n) /\ Cardinality(1 .. n) = n
    BY <1>1, FS_Interval
<1>3. f \in [S -> 1 .. n]
    BY RankBounded
<1>4. ASSUME NEW q \in S, NEW r \in S, q # r PROVE f[q] # f[r]
    <2>1. Rank(q, S) < Rank(r, S) \/ Rank(r, S) < Rank(q, S)
        BY <1>4, RankInjective
    <2>2. Rank(q, S) \in Int /\ Rank(r, S) \in Int
        BY RankBounded
    <2> QED BY <2>1, <2>2
<1>5. f \in Injection(S, 1 .. n)
    BY <1>3, <1>4 DEF Injection, IsInjective
<1>6. f \in Surjection(S, 1 .. n)
    <2> HIDE DEF f
    <2> QED BY <1>2, <1>5, FS_Injection
<1>7. \E r \in S : Rank(r, S) = i
    BY <1>6 DEF Surjection
<1> QED BY <1>7 DEF SavedSeq

LEMMA AccessFinal ==
    ASSUME NEW op \in {"Load", "Store"}, NEW r \in Regs, NEW off \in Int
    PROVE  Access(op, r, off) \in Seq(Final)
<1>1. "sp" \in Regs /\ "t0" \in Regs /\ Fits(0)
    BY DEF Regs, Fits
<1>2. ASSUME NEW base \in Regs, NEW o \in Int, Fits(o)
      PROVE  At(op, r, RegOffset(base, o)) \in Final
    BY <1>2, FinalMem DEF At
<1>3. CASE Fits(off)
    <2>1. AsI16(Bits(off)) = off
        BY <1>3, ImmediatesKeepTheirValue
    <2>2. At(op, r, RegOffset("sp", AsI16(Bits(off)))) \in Final
        BY <1>1, <1>2, <1>3, <2>1
    <2>3. <<At(op, r, RegOffset("sp", AsI16(Bits(off))))>> \in Seq(Final)
        BY <2>2
    <2> QED BY <1>3, <2>3, Zenon DEF Access
<1>4. CASE ~ Fits(off)
    <2> DEFINE li == Li("t0", off)
               add == Alu("Add", "t0", "sp", "t0")
               last == At(op, r, RegOffset("t0", 0))
    <2>1. li \in Final /\ add \in Final
        BY <1>1, FinalOps
    <2>2. last \in Final
        BY <1>1, <1>2
    <2>3. Access(op, r, off) = <<li, add, last>>
        BY <1>4, Zenon DEF Access
    <2> HIDE DEF li, add, last
    <2> QED BY <2>1, <2>2, <2>3
<1> QED BY <1>3, <1>4

LEMMA AddToSpFinal ==
    ASSUME NEW rd \in Regs, NEW off \in Int
    PROVE  AddToSp(rd, off) \in Seq(Final)
<1> DEFINE li == Li("t0", off)
           add == Alu("Add", rd, "sp", "t0")
           addi == Addi(rd, "sp", Bits(off))
<1>1. "sp" \in Regs /\ "t0" \in Regs /\ Bits(off) \in Int
    BY BitsInt DEF Regs
<1>2. li \in Final /\ add \in Final /\ addi \in Final
    BY <1>1, FinalOps
<1>3. AddToSp(rd, off) = IF Fits(off) THEN <<addi>> ELSE <<li, add>>
    BY DEF AddToSp
<1> HIDE DEF li, add, addi
<1> QED BY <1>2, <1>3

LEMMA AccessesFinal ==
    ASSUME storage \in Nat, outgoing \in Nat, NEW regset, regset \subseteq Work,
           NEW op \in {"Load", "Store"}
    PROVE  Accesses(op, regset) \in Seq(Final)
<1> DEFINE n == Cardinality(regset)
           ss == [i \in 1 .. n |-> Access(op, SavedSeq(regset)[i], Total(n) - 8 * i)]
<1>1. n \in Nat
    BY WorkFinite, FS_Subset, FS_CardinalityType
<1>2. Total(n) \in Nat
    BY <1>1, TotalHolds
<1>3. ASSUME NEW i \in 1 .. n PROVE Access(op, SavedSeq(regset)[i], Total(n) - 8 * i) \in Seq(Final)
    <2>1. SavedSeq(regset)[i] \in Regs
        BY SavedSeqMember DEF Regs
    <2>2. Total(n) - 8 * i \in Int
        BY <1>1, <1>2
    <2> QED BY <2>1, <2>2, AccessFinal
<1>4. Accesses(op, regset) = FlattenSeq(ss)
    BY DEF Accesses
<1>5. \A i \in 1 .. n : ss[i] \in Seq(Final)
    BY <1>3
<1>6. ss \in Seq(Seq(Final))
    <2> DEFINE B == Seq(Final)
    <2>1. \A i \in 1 .. n : Access(op, SavedSeq(regset)[i], Total(n) - 8 * i) \in B
        BY <1>3
    <2> HIDE DEF B, n
    <2>2. ss \in Seq(B)
        BY <1>1, <2>1
    <2> QED BY <2>2 DEF B
<1> HIDE DEF ss
<1> QED BY <1>4, <1>6, FlattenType

LEMMA PrologueFinal ==
    ASSUME storage \in Nat, outgoing \in Nat, NEW regset, regset \subseteq Work
    PROVE  PrologueCode(regset) \in Seq(Final)
<1> DEFINE total == Total(Cardinality(regset))
           li == Li("t0", total)
           sub == Alu("Sub", "sp", "sp", "t0")
           addi == Addi("sp", "sp", Bits(-total))
           reserve == IF Fits(-total) THEN <<addi>> ELSE <<li, sub>>
           pointer == IF omit_frame_pointer THEN <<>> ELSE AddToSp("fp", total)
<1>1. total \in Int
    <2>1. Cardinality(regset) \in Nat
        BY WorkFinite, FS_Subset, FS_CardinalityType
    <2> QED BY <2>1, TotalHolds
<1>2. "sp" \in Regs /\ "t0" \in Regs /\ "fp" \in Regs /\ -total \in Int /\ Bits(-total) \in Int
    BY <1>1, BitsInt DEF Regs, Work
<1>3. PrologueCode(regset) = reserve \o Accesses("Store", regset) \o pointer
    BY DEF PrologueCode
<1>4. li \in Final /\ sub \in Final /\ addi \in Final
    BY <1>1, <1>2, FinalOps
<1>5. Accesses("Store", regset) \in Seq(Final)
    BY AccessesFinal
<1>6. pointer \in Seq(Final)
    BY <1>1, <1>2, AddToSpFinal
<1> HIDE DEF total, li, sub, addi, pointer
<1>7. reserve \in Seq(Final)
    BY <1>4
<1> HIDE DEF reserve
<1>8. reserve \o Accesses("Store", regset) \in Seq(Final)
    BY <1>5, <1>7, ConcatProperties
<1> QED BY <1>3, <1>6, <1>8, ConcatProperties

LEMMA EpilogueFinal ==
    ASSUME storage \in Nat, outgoing \in Nat, saved \subseteq Work
    PROVE  EpilogueCode \in Seq(Final)
<1> DEFINE total == Total(Cardinality(saved))
<1>1. total \in Int
    <2>1. Cardinality(saved) \in Nat
        BY WorkFinite, FS_Subset, FS_CardinalityType
    <2> QED BY <2>1, TotalHolds
<1>2. "sp" \in Regs /\ Ret \in Final
    BY DEF Regs, Ret, OtherInst, Final
<1>3. /\ Accesses("Load", saved) \in Seq(Final) /\ AddToSp("sp", total) \in Seq(Final)
      /\ <<Ret>> \in Seq(Final)
    BY <1>1, <1>2, AccessesFinal, AddToSpFinal
<1>4. EpilogueCode = Accesses("Load", saved) \o AddToSp("sp", total) \o <<Ret>>
    BY DEF EpilogueCode
<1> HIDE DEF total
<1>5. Accesses("Load", saved) \o AddToSp("sp", total) \in Seq(Final)
    BY <1>3, ConcatProperties
<1> QED BY <1>3, <1>4, <1>5, ConcatProperties

-----------------------------------------------------------------------------
(***************************************************************************)
(* The invariant: code is only made of instructions that exist, and what   *)
(* is before the place at which it is adjusted is final.                   *)
(***************************************************************************)
FinalUpTo(bs, b, i) ==
    /\ \A c \in 1 .. (b - 1) : bs[c] \in Seq(Final)
    /\ \A j \in 1 .. Len(bs[b]) : j < i => bs[b][j] \in Final

CodeInv ==
    /\ blocks \in Seq(Seq(Code))
    /\ phase \in {"select", "prologue", "epilogue"} => at = <<1, 1>>
    /\ at[1] \in 1 .. Len(blocks)
    /\ at[2] \in Nat \ {0}
    /\ phase = "adjust" => FinalUpTo(blocks, at[1], at[2])
    /\ phase \in {"run", "done"} => blocks \in Seq(Seq(Final))

(* The code that is run has encodable operands. *)
LEMMA CodeIsEncodable ==
    ASSUME CodeInv
    PROVE  OperandsEncodable
<1> SUFFICES ASSUME phase \in {"run", "done"}, NEW i \in DOMAIN AllInsts,
                    AllInsts[i].op \in {"Load", "Store", "LoadAddr"}
             PROVE  /\ AllInsts[i].op # "LoadAddr"
                    /\ AllInsts[i].loc.kind = "RegOffset"
                    /\ Fits(AllInsts[i].loc.offset)
    BY DEF OperandsEncodable
<1>1. blocks \in Seq(Seq(Final))
    BY DEF CodeInv
<1>2. AllInsts \in Seq(Final)
    BY <1>1, FlattenType DEF AllInsts
<1>3. i \in 1 .. Len(AllInsts)
    BY <1>2
<1>4. AllInsts[i] \in Final
    BY <1>2, <1>3, ElementOfSeq
<1> QED BY <1>4, FinalEncodable

LEMMA CodeInit == Init => CodeInv
<1> SUFFICES ASSUME Init PROVE CodeInv
    OBVIOUS
<1>1. blocks = << <<>> >> /\ phase = "select" /\ at = <<1, 1>>
    BY DEF Init
<1>2. << <<>> >> \in Seq(Seq(Code)) /\ Len(<< <<>> >>) = 1
    OBVIOUS
<1> QED BY <1>1, <1>2 DEF CodeInv

(* Selection goes on: the code grows, by instructions that exist.          *)
LEMMA CodeSelect ==
    ASSUME CodeInv, phase = "select", phase' = "select", at' = at,
           blocks' \in Seq(Seq(Code)), Len(blocks') >= 1
    PROVE  CodeInv'
BY DEF CodeInv

LEMMA CodeEmit ==
    ASSUME CodeInv, NEW inst \in Code, Emit(inst)
    PROVE  CodeInv'
<1> DEFINE n == Len(blocks)
           new == Append(blocks[n], Emitted(inst))
<1>1. /\ phase = "select" /\ phase' = "select" /\ at' = at
      /\ blocks' = [blocks EXCEPT ![n] = new]
    BY DEF Emit
<1>2. blocks \in Seq(Seq(Code)) /\ n \in 1 .. Len(blocks)
    BY DEF CodeInv
<1>3. blocks[n] \in Seq(Code)
    BY <1>2, ElementOfSeq
<1>4. Emitted(inst) \in Code
    BY EmittedCode
<1>5. new \in Seq(Code)
    BY <1>3, <1>4, AppendProperties
<1> HIDE DEF new
<1>6. blocks' \in Seq(Seq(Code)) /\ Len(blocks') = Len(blocks)
    BY <1>1, <1>2, <1>5, BlockSet
<1> QED BY <1>1, <1>2, <1>6, CodeSelect

(* The operands of the code that exist are locations. *)
LEMMA LocsAreLocations ==
    ASSUME IInv, NEW l \in Locs
    PROVE  l \in Loc /\ (l.kind = "RegOffset" => Direct(l))
<1>1. CASE l \in SlotCells
    <2>1. PICK s \in slots : l = Slot(s.offset) \/ l = Slot(s.offset + s.size - 8)
        BY <1>1 DEF SlotCells
    <2>2. s.offset \in Int /\ s.size \in Int
        BY DEF IInv, SlotsInv
    <2>3. PICK o \in Int : l = Slot(o)
        BY <2>1, <2>2
    <2> QED BY <2>3 DEF Slot, Loc
<1>2. CASE l \in InCells
    <2>1. PICK o \in Int : l = In(o)
        BY <1>2, FrameAssumption DEF InCells
    <2> QED BY <2>1 DEF In, Loc
<1>3. CASE l \in {RegOffset("sp", o) : o \in {n \in OutOffset : Fits(n)}}
    <2>1. PICK o \in OutOffset : l = RegOffset("sp", o) /\ Fits(o)
        BY <1>3
    <2>2. o \in Int /\ "sp" \in Regs
        BY <2>1 DEF Fits, Regs
    <2> QED BY <2>1, <2>2 DEF RegOffset, Loc, Direct
<1> QED BY <1>1, <1>2, <1>3 DEF Locs

LEMMA CodeEmitOther ==
    ASSUME IInv, CodeInv, EmitOther
    PROVE  CodeInv'
<1>1. General \subseteq Regs /\ "a0" \in Regs
    BY DEF General, Regs, Work
<1>2. ASSUME NEW r \in General, NEW d \in Data, Emit(Li(r, d)) PROVE CodeInv'
    <2>1. Li(r, d) \in OtherInst
        BY <1>1 DEF Li, OtherInst
    <2>2. Li(r, d) \in Code
        BY <2>1 DEF Code
    <2> QED BY <1>2, <2>2, CodeEmit
<1>3. ASSUME NEW r \in General, NEW l \in Locs, Emit(Load(r, l)) \/ Emit(Store(r, l))
      PROVE  CodeInv'
    <2>1. l \in Loc /\ (l.kind = "RegOffset" => Direct(l)) /\ r \in Regs
        BY <1>1, LocsAreLocations
    <2>2. Load(r, l) \in Code /\ Store(r, l) \in Code
        BY <2>1, CodeMem
    <2> QED BY <1>3, <2>2, CodeEmit
<1>4. ASSUME NEW l \in Locs, l.kind # "RegOffset", Emit(LoadAddr("a0", l)) PROVE CodeInv'
    <2>1. l \in Loc /\ (l.kind = "RegOffset" => Direct(l))
        BY LocsAreLocations
    <2>2. LoadAddr("a0", l) \in Code
        BY <1>1, <1>4, <2>1, CodeMem
    <2> QED BY <1>4, <2>2, CodeEmit
<1>5. ASSUME NEW r \in General,
             Emit(Load(r, RegOffset("a0", 0))) \/ Emit(Store(r, RegOffset("a0", 0)))
      PROVE  CodeInv'
    <2>1. Fits(0) /\ r \in Regs
        BY <1>1 DEF Fits
    <2>2. Load(r, RegOffset("a0", 0)) \in Final /\ Store(r, RegOffset("a0", 0)) \in Final
        BY <1>1, <2>1, FinalMem
    <2>3. Load(r, RegOffset("a0", 0)) \in Code /\ Store(r, RegOffset("a0", 0)) \in Code
        BY <2>2, FinalIsCode
    <2> QED BY <1>5, <2>3, CodeEmit
<1> QED BY <1>2, <1>3, <1>4, <1>5 DEF EmitOther

(* The prologue and the epilogue are put around the code. *)
LEMMA CodePrologue ==
    ASSUME IInv, CodeInv, GenPrologue
    PROVE  CodeInv'
<1> DEFINE code == PrologueCode(ToSave)
           new == code \o blocks[1]
<1>1. /\ phase = "prologue" /\ phase' = "epilogue" /\ at' = at
      /\ blocks' = [blocks EXCEPT ![1] = new]
    BY DEF GenPrologue
<1>2. blocks \in Seq(Seq(Code)) /\ 1 \in 1 .. Len(blocks) /\ at = <<1, 1>>
    BY <1>1 DEF CodeInv
<1>3. blocks[1] \in Seq(Code)
    BY <1>2, ElementOfSeq
<1>4. storage \in Nat /\ outgoing \in Nat /\ ToSave \subseteq Work
    BY DEF IInv, TypeOK, ToSave, Work
<1>5. code \in Seq(Final)
    BY <1>4, PrologueFinal
<1> HIDE DEF code
<1>6. code \in Seq(Code)
    BY <1>5, FinalIsCode, SeqMonotonic
<1>7. new \in Seq(Code)
    BY <1>3, <1>6, ConcatProperties
<1> HIDE DEF new
<1>8. blocks' \in Seq(Seq(Code)) /\ Len(blocks') = Len(blocks)
    BY <1>1, <1>2, <1>7, BlockSet
<1> QED BY <1>1, <1>2, <1>8 DEF CodeInv

LEMMA CodeEpilogue ==
    ASSUME IInv, CodeInv, GenEpilogue
    PROVE  CodeInv'
<1> DEFINE n == Len(blocks)
           new == blocks[n] \o EpilogueCode
<1>1. /\ phase = "epilogue" /\ phase' = "adjust" /\ at' = at
      /\ blocks' = [blocks EXCEPT ![n] = new]
    BY DEF GenEpilogue
<1>2. blocks \in Seq(Seq(Code)) /\ n \in 1 .. Len(blocks) /\ at = <<1, 1>>
    BY <1>1 DEF CodeInv
<1>3. blocks[n] \in Seq(Code)
    BY <1>2, ElementOfSeq
<1>4. EpilogueCode \in Seq(Final)
    BY EpilogueFinal DEF IInv, TypeOK
<1>5. EpilogueCode \in Seq(Code)
    BY <1>4, FinalIsCode, SeqMonotonic
<1>6. new \in Seq(Code)
    BY <1>3, <1>5, ConcatProperties
<1> HIDE DEF new
<1>7. blocks' \in Seq(Seq(Code)) /\ Len(blocks') = Len(blocks)
    BY <1>1, <1>2, <1>6, BlockSet
<1>8. FinalUpTo(blocks', 1, 1)
    BY DEF FinalUpTo
<1>9. at'[1] = 1 /\ at'[2] = 1
    BY <1>1, <1>2
<1> QED BY <1>1, <1>2, <1>7, <1>8, <1>9 DEF CodeInv

(* One instruction is adjusted: it and what was put before it is final.    *)
LEMMA CodeAdjust ==
    ASSUME IInv, CodeInv, AdjustInst
    PROVE  CodeInv'
<1> DEFINE b == at[1]
           i == at[2]
           s == blocks[b]
           t == Adjusted(s[i])
           z == SubSeq(s, 1, i - 1) \o t \o SubSeq(s, i + 1, Len(s))
<1>1. /\ phase = "adjust" /\ phase' = "adjust" /\ i <= Len(s)
      /\ blocks' = [blocks EXCEPT ![b] = z] /\ at' = <<b, i + Len(t)>>
    BY DEF AdjustInst
<1>2. blocks \in Seq(Seq(Code)) /\ b \in 1 .. Len(blocks) /\ i \in Nat \ {0}
    BY DEF CodeInv
<1>3. FinalUpTo(blocks, b, i)
    BY <1>1 DEF CodeInv
<1>4. at'[1] = b /\ at'[2] = i + Len(t)
    BY <1>1
<1>5. s \in Seq(Code)
    BY <1>2, ElementOfSeq
<1> HIDE DEF b, i, t
<1>6. /\ \A c \in 1 .. (b - 1) : blocks[c] \in Seq(Final)
      /\ \A j \in 1 .. Len(s) : j < i => s[j] \in Final
    BY <1>3 DEF FinalUpTo
<1> HIDE DEF s
<1>7. i \in 1 .. Len(s)
    BY <1>1, <1>2, <1>5
<1>8. s[i] \in Code
    BY <1>5, <1>7, ElementOfSeq
<1>9. t \in Seq(Final)
    BY <1>8, AdjustedFinal DEF t, IInv, TypeOK
<1>10. \A j \in 1 .. (i - 1) : s[j] \in Final
    BY <1>5, <1>6, <1>7
<1> DEFINE y == z
<1>11. y = SubSeq(s, 1, i - 1) \o t \o SubSeq(s, i + 1, Len(s)) /\ y = z
    OBVIOUS
<1> HIDE DEF y
<1>12. y \in Seq(Code) /\ \A j \in 1 .. Len(y) : j < i + Len(t) => y[j] \in Final
    BY <1>5, <1>7, <1>9, <1>10, <1>11, FinalIsCode, Replaced
<1>13. blocks' = [blocks EXCEPT ![b] = y]
    BY <1>1, <1>11
<1>14. /\ blocks' \in Seq(Seq(Code)) /\ Len(blocks') = Len(blocks) /\ blocks'[b] = y
       /\ \A c \in 1 .. Len(blocks) : c # b => blocks'[c] = blocks[c]
    BY <1>2, <1>12, <1>13, BlockSet
<1>15. \A c \in 1 .. (b - 1) : blocks'[c] \in Seq(Final)
    <2> TAKE c \in 1 .. (b - 1)
    <2>1. c \in 1 .. Len(blocks) /\ c # b
        BY <1>2
    <2>2. blocks'[c] = blocks[c]
        BY <1>14, <2>1
    <2> QED BY <1>6, <2>2
<1>16. FinalUpTo(blocks', b, i + Len(t))
    BY <1>12, <1>14, <1>15 DEF FinalUpTo
<1>17. i + Len(t) \in Nat \ {0}
    <2>1. Len(t) \in Nat
        BY <1>9
    <2> QED BY <1>2, <2>1
<1> QED BY <1>1, <1>2, <1>4, <1>14, <1>16, <1>17 DEF CodeInv

(* The cursor goes on to the next block, or all of them are adjusted. *)
LEMMA CodeNextBlock ==
    ASSUME CodeInv, AdjustNextBlock
    PROVE  CodeInv'
<1> DEFINE b == at[1]
<1>1. /\ phase = "adjust" /\ at[2] > Len(blocks[b]) /\ blocks' = blocks
      /\ \/ b < Len(blocks) /\ at' = <<b + 1, 1>> /\ phase' = phase
         \/ b >= Len(blocks) /\ phase' = "run" /\ at' = at
    BY DEF AdjustNextBlock, CodeInv
<1>2. blocks \in Seq(Seq(Code)) /\ b \in 1 .. Len(blocks) /\ at[2] \in Nat \ {0}
    BY DEF CodeInv
<1>3. FinalUpTo(blocks, b, at[2])
    BY <1>1 DEF CodeInv
<1> HIDE DEF b
<1>4. blocks[b] \in Seq(Code)
    BY <1>2, ElementOfSeq
<1>5. \A j \in 1 .. Len(blocks[b]) : blocks[b][j] \in Final
    <2> TAKE j \in 1 .. Len(blocks[b])
    <2>1. j < at[2]
        BY <1>1, <1>2, <1>4
    <2> QED BY <1>3, <2>1 DEF FinalUpTo
<1>6. blocks[b] \in Seq(Final)
    BY <1>4, <1>5
<1>7. \A c \in 1 .. b : blocks[c] \in Seq(Final)
    <2> TAKE c \in 1 .. b
    <2>1. c = b \/ c \in 1 .. (b - 1)
        BY <1>2
    <2> QED BY <1>3, <1>6, <2>1 DEF FinalUpTo
<1>8. CASE b < Len(blocks) /\ at' = <<b + 1, 1>> /\ phase' = phase
    <2>1. at'[1] = b + 1 /\ at'[2] = 1
        BY <1>8
    <2>2. FinalUpTo(blocks, b + 1, 1)
        <3>1. (b + 1) - 1 = b
            BY <1>2
        <3> QED BY <1>7, <3>1 DEF FinalUpTo
    <2>3. b + 1 \in 1 .. Len(blocks) /\ 1 \in Nat \ {0}
        BY <1>2, <1>8
    <2> QED BY <1>1, <1>2, <1>8, <2>1, <2>2, <2>3 DEF CodeInv
<1>9. CASE b >= Len(blocks) /\ phase' = "run" /\ at' = at
    <2>1. b = Len(blocks)
        BY <1>2, <1>9
    <2>2. blocks \in Seq(Seq(Final))
        <3>1. \A c \in 1 .. Len(blocks) : blocks[c] \in Seq(Final)
            BY <1>7, <2>1
        <3> QED BY <1>2, <3>1, NarrowerSeq
    <2> QED BY <1>1, <1>9, <2>2 DEF CodeInv, b
<1> QED BY <1>1, <1>8, <1>9

LEMMA CodeNext == IInv /\ CodeInv /\ [Next]_vars => CodeInv'
<1> SUFFICES ASSUME IInv, CodeInv, [Next]_vars PROVE CodeInv'
    OBVIOUS
<1>1. ASSUME NEW size \in SlotSizes, AllocSlot(size) PROVE CodeInv'
    BY <1>1 DEF AllocSlot, CodeInv
<1>2. ASSUME NEW size \in ArgSizes, EmitCall(size) PROVE CodeInv'
    <2>1. Call \in Code
        BY DEF Call, OtherInst, Code
    <2> QED BY <1>2, <2>1, CodeEmit DEF EmitCall
<1>3. CASE EmitOther
    BY <1>3, CodeEmitOther
<1>4. CASE NewBlock
    <2>1. /\ phase = "select" /\ phase' = "select" /\ at' = at
          /\ blocks' = Append(blocks, <<>>)
        BY <1>4 DEF NewBlock
    <2>2. blocks \in Seq(Seq(Code)) /\ Len(blocks) \in Nat
        BY DEF CodeInv
    <2>3. blocks' \in Seq(Seq(Code)) /\ Len(blocks') = Len(blocks) + 1
        <3> DEFINE B == Seq(Code)
        <3>1. <<>> \in B
            OBVIOUS
        <3> HIDE DEF B
        <3>2. blocks \in Seq(B)
            BY <2>2 DEF B
        <3>3. blocks' \in Seq(B) /\ Len(blocks') = Len(blocks) + 1
            BY <2>1, <3>1, <3>2, AppendProperties
        <3> QED BY <3>3 DEF B
    <2> QED BY <2>1, <2>2, <2>3, CodeSelect
<1>5. CASE Lower
    BY <1>5 DEF Lower, CodeInv
<1>6. CASE GenPrologue
    BY <1>6, CodePrologue
<1>7. CASE GenEpilogue
    BY <1>7, CodeEpilogue
<1>8. CASE AdjustInst
    BY <1>8, CodeAdjust
<1>9. CASE AdjustNextBlock
    BY <1>9, CodeNextBlock
<1>10. CASE Run
    <2>1. phase = "run" /\ phase' \in {"run", "done"} /\ UNCHANGED <<blocks, at>>
        BY <1>10 DEF Run
    <2> QED BY <2>1 DEF CodeInv
<1>11. CASE Done \/ UNCHANGED vars
    BY <1>11 DEF Done, vars, CodeInv
<1> QED BY <1>1, <1>2, <1>3, <1>4, <1>5, <1>6, <1>7, <1>8, <1>9, <1>10, <1>11 DEF Next

(* Every operand of the code that is run is a register and an offset of    *)
(* twelve bits, whatever the sizes of the frame: no slot, no parameter and *)
(* no address is left after adjust_offset, and large offsets are in t0.    *)
THEOREM OperandsAreEncodable == Spec => []OperandsEncodable
<1>1. Init => IInv /\ CodeInv
    BY InvInit, CodeInit
<1>2. IInv /\ CodeInv /\ [Next]_vars => (IInv /\ CodeInv)'
    BY InvNext, CodeNext
<1>3. IInv /\ CodeInv => OperandsEncodable
    BY CodeIsEncodable
<1> QED BY <1>1, <1>2, <1>3, PTL DEF Spec

-----------------------------------------------------------------------------
(***************************************************************************)
(* What is known of the registers at each place of the code.  p is the     *)
(* frame: its total size, the size of the slots and the register that      *)
(* slots and parameters are relative to.  k is what is known: whether the  *)
(* frame has been reserved or given up, whether fp is at the top of the    *)
(* frame, whether a0 is an address in the frame or above it, and whether   *)
(* t0 is the number k.n.                                                   *)
(***************************************************************************)
Facts == [sp : {"entry", "frame", "left", "out"}, fp : {"any", "top"},
          a0 : {"any", "address"}, t0 : {"any", "known"}, n : Int]

Fact(sp, fp, a0, t0, n) == [sp |-> sp, fp |-> fp, a0 |-> a0, t0 |-> t0, n |-> n]

SpAt(p, k) == IF k.sp = "frame" THEN -p.total ELSE 0

(* What l claims of registers other than r is known from k.                *)
Kept(k, l, r) ==
    /\ r # "sp" => l.sp = k.sp
    /\ r # "fp" /\ l.fp = "top" => k.fp = "top"
    /\ r # "a0" /\ l.a0 = "address" => k.a0 = "address"
    /\ r # "t0" /\ l.t0 = "known" => k.t0 = "known" /\ l.n = k.n

(* l claims nothing of r. *)
Lost(l, r) ==
    /\ r # "sp"
    /\ r = "fp" => l.fp = "any"
    /\ r = "a0" => l.a0 = "any"
    /\ r = "t0" => l.t0 = "any"

(* The location is in the frame or above it. *)
Above(p, k, loc) ==
    \/ /\ loc.kind = "Slot" /\ -p.storage <= loc.offset
       /\ k.sp = "frame" /\ (p.base = "sp" \/ k.fp = "top")
    \/ /\ loc.kind = "Incoming" /\ 0 <= loc.offset
       /\ k.sp = "frame" /\ (p.base = "sp" \/ k.fp = "top")
    \/ /\ loc.kind = "RegOffset" /\ loc.base = "sp" /\ 0 <= loc.offset
    \/ /\ loc.kind = "RegOffset" /\ loc.base = "fp" /\ -p.total <= loc.offset
       /\ k.sp = "frame" /\ k.fp = "top"
    \/ /\ loc.kind = "RegOffset" /\ loc.base = "t0" /\ -p.total <= k.n + loc.offset
       /\ k.sp = "frame" /\ k.t0 = "known"
    \/ /\ loc.kind = "RegOffset" /\ loc.base = "a0" /\ 0 <= loc.offset
       /\ k.sp = "frame" /\ k.a0 = "address"

(* To reach a slot or a parameter, sp or fp has to be where it should be,  *)
(* and t0 may be needed.                                                   *)
Symbolic(p, k, l, loc) == loc.kind # "RegOffset" => Above(p, k, loc) /\ l.t0 = "any"

(* Each instruction leads from what is known before it to what is known    *)
(* after it, and only stores in the frame or above it.                     *)
OkLi(k, i, l) ==
    /\ i.op = "Li" /\ i.rd # "sp" /\ Kept(k, l, i.rd)
    /\ Lost(l, i.rd) \/ (i.rd = "t0" /\ i.imm \in Int /\ (l.t0 = "known" => l.n = i.imm))

OkLoad(p, k, i, l) ==
    i.op = "Load" /\ Kept(k, l, i.rd) /\ Lost(l, i.rd) /\ Symbolic(p, k, l, i.loc)

OkStore(p, k, i, l) ==
    i.op = "Store" /\ Kept(k, l, "none") /\ Above(p, k, i.loc) /\ Symbolic(p, k, l, i.loc)

OkLoadAddr(p, k, i, l) ==
    /\ i.op = "LoadAddr" /\ i.rd = "a0" /\ i.loc.kind # "RegOffset"
    /\ Kept(k, l, "a0") /\ Above(p, k, i.loc) /\ l.t0 = "any"

OkAddi(p, k, i, l) ==
    /\ i.op = "Addi"
    /\ \/ /\ i.rd = "sp" /\ i.rs = "sp" /\ Kept(k, l, "sp")
          /\ k.sp = "entry" /\ l.sp = "frame" /\ AsI16(i.imm) = -p.total
       \/ /\ i.rd = "sp" /\ i.rs = "sp" /\ Kept(k, l, "sp")
          /\ k.sp = "frame" /\ l.sp = "left" /\ AsI16(i.imm) = p.total
       \/ /\ i.rd = "fp" /\ i.rs = "sp" /\ Kept(k, l, "fp")
          /\ k.sp = "frame" /\ AsI16(i.imm) = p.total
       \/ /\ i.rd = "a0" /\ Kept(k, l, "a0") /\ Above(p, k, RegOffset(i.rs, AsI16(i.imm)))

OkAdd(p, k, i, l) ==
    /\ i.op = "Add" /\ i.rs2 = "t0" /\ k.t0 = "known" /\ k.sp = "frame"
    /\ \/ /\ i.rd = "t0" /\ i.rs1 = "sp" /\ Kept(k, l, "t0")
          /\ l.t0 = "known" => l.n = k.n - p.total
       \/ /\ i.rd = "t0" /\ i.rs1 = "fp" /\ k.fp = "top" /\ Kept(k, l, "t0")
          /\ l.t0 = "known" => l.n = k.n
       \/ /\ i.rd = "sp" /\ i.rs1 = "sp" /\ Kept(k, l, "sp")
          /\ l.sp = "left" /\ k.n = p.total
       \/ i.rd = "fp" /\ i.rs1 = "sp" /\ Kept(k, l, "fp") /\ k.n = p.total

OkSub(p, k, i, l) ==
    /\ i.op = "Sub" /\ i.rd = "sp" /\ i.rs1 = "sp" /\ i.rs2 = "t0"
    /\ k.t0 = "known" /\ k.n = p.total
    /\ k.sp = "entry" /\ l.sp = "frame" /\ Kept(k, l, "sp")

OkCall(k, i, l) ==
    i.op = "Call" /\ Kept(k, l, "none") /\ l.a0 = "any" /\ l.t0 = "any"

(* The frame is given up just before the return. *)
Ok(p, k, i, l) ==
    /\ k \in Facts /\ l \in Facts
    /\ \/ k.sp = "left" /\ i.op = "Ret" /\ l.sp = "out" /\ Kept(k, l, "sp")
       \/ /\ k.sp \in {"entry", "frame"}
          /\ \/ OkLi(k, i, l) \/ OkLoad(p, k, i, l) \/ OkStore(p, k, i, l)
             \/ OkLoadAddr(p, k, i, l) \/ OkAddi(p, k, i, l) \/ OkAdd(p, k, i, l)
             \/ OkSub(p, k, i, l) \/ OkCall(k, i, l)

(* s leads from k to l, by the facts ks in between. *)
Chain(p, ks, s) == \A j \in 1 .. Len(s) : Ok(p, ks[j], s[j], ks[j + 1])

Runs(p, k, s, l) ==
    \E ks : /\ ks[1] = k /\ ks[Len(s) + 1] = l
            /\ Chain(p, ks, s)

LEMMA RunsEmpty == \A p, k : Runs(p, k, <<>>, k)
<1> TAKE p, k
<1>1. Chain(p, [j \in 1 .. 1 |-> k], <<>>) /\ Len(<<>>) = 0
    BY DEF Chain
<1> QED BY <1>1 DEF Runs

LEMMA RunsOne ==
    ASSUME NEW p, NEW k, NEW i, NEW l, Ok(p, k, i, l)
    PROVE  Runs(p, k, <<i>>, l)
<1> DEFINE ks == [j \in 1 .. 2 |-> IF j = 1 THEN k ELSE l]
<1>1. ks[1] = k /\ ks[2] = l /\ Len(<<i>>) = 1 /\ <<i>>[1] = i
    OBVIOUS
<1> HIDE DEF ks
<1>2. Chain(p, ks, <<i>>)
    BY <1>1 DEF Chain
<1>3. ks[1] = k /\ ks[Len(<<i>>) + 1] = l
    BY <1>1
<1> QED BY <1>2, <1>3, Zenon DEF Runs

LEMMA RunsConcat ==
    ASSUME NEW p, NEW k, NEW l, NEW m, NEW S, NEW s \in Seq(S), NEW t \in Seq(S),
           Runs(p, k, s, l), Runs(p, l, t, m)
    PROVE  Runs(p, k, s \o t, m)
<1>1. PICK u : u[1] = k /\ u[Len(s) + 1] = l /\ Chain(p, u, s)
    BY DEF Runs
<1>2. PICK v : v[1] = l /\ v[Len(t) + 1] = m /\ Chain(p, v, t)
    BY DEF Runs
<1> DEFINE n == Len(s)
           z == s \o t
           ks == [j \in 1 .. (n + Len(t) + 1) |-> IF j <= n + 1 THEN u[j] ELSE v[j - n]]
<1>3. /\ n \in Nat /\ Len(t) \in Nat /\ Len(z) = n + Len(t)
      /\ \A j \in 1 .. (n + Len(t)) : z[j] = IF j <= n THEN s[j] ELSE t[j - n]
    BY ConcatProperties
<1>4. ks[1] = k /\ ks[n + Len(t) + 1] = m
    BY <1>1, <1>2, <1>3
<1> HIDE DEF n, z
<1>5. ASSUME NEW j \in 1 .. (n + Len(t)) PROVE Ok(p, ks[j], z[j], ks[j + 1])
    <2>1. CASE j <= n
        <3>1. j \in 1 .. n /\ ks[j] = u[j] /\ ks[j + 1] = u[j + 1] /\ z[j] = s[j]
            BY <1>3, <2>1
        <3>2. Ok(p, u[j], s[j], u[j + 1])
            BY <1>1, <3>1 DEF Chain, n
        <3> QED BY <3>1, <3>2
    <2>2. CASE j > n
        <3>1. j - n \in 1 .. Len(t) /\ z[j] = t[j - n]
            BY <1>3, <2>2
        <3>2. ks[j] = v[j - n]
            <4>1. CASE j = n + 1
                BY <1>1, <1>2, <1>3, <4>1 DEF n
            <4>2. CASE j # n + 1
                BY <1>3, <2>2, <4>2
            <4> QED BY <4>1, <4>2
        <3>3. ks[j + 1] = v[(j - n) + 1]
            BY <1>3, <2>2
        <3>4. Ok(p, v[j - n], t[j - n], v[(j - n) + 1])
            BY <1>2, <3>1 DEF Chain
        <3> QED BY <3>1, <3>2, <3>3, <3>4
    <2> QED BY <1>3, <2>1, <2>2
<1> HIDE DEF ks
<1>6. Chain(p, ks, z) /\ ks[Len(z) + 1] = m
    BY <1>3, <1>4, <1>5 DEF Chain
<1> QED BY <1>4, <1>6, Zenon DEF Runs, z

(* The facts between two parts of a sequence. *)
LEMMA RunsApart ==
    ASSUME NEW p, NEW k, NEW m, NEW S, NEW s \in Seq(S), NEW t \in Seq(S),
           Runs(p, k, s \o t, m)
    PROVE  \E l : Runs(p, k, s, l) /\ Runs(p, l, t, m)
<1> DEFINE n == Len(s)
           z == s \o t
<1>1. PICK ks : ks[1] = k /\ ks[Len(z) + 1] = m /\ Chain(p, ks, z)
    BY DEF Runs
<1>2. /\ n \in Nat /\ Len(t) \in Nat /\ Len(z) = n + Len(t)
      /\ \A j \in 1 .. (n + Len(t)) : z[j] = IF j <= n THEN s[j] ELSE t[j - n]
    BY ConcatProperties
<1> DEFINE v == [j \in 1 .. (Len(t) + 1) |-> ks[n + j]]
<1> HIDE DEF z
<1>3. Chain(p, ks, s)
    <2> SUFFICES ASSUME NEW j \in 1 .. n PROVE Ok(p, ks[j], s[j], ks[j + 1])
        BY DEF Chain
    <2>1. j \in 1 .. Len(z) /\ z[j] = s[j]
        BY <1>2
    <2> QED BY <1>1, <2>1 DEF Chain
<1> HIDE DEF n
<1>4. Chain(p, v, t)
    <2> SUFFICES ASSUME NEW j \in 1 .. Len(t) PROVE Ok(p, v[j], t[j], v[j + 1])
        BY DEF Chain
    <2>1. n + j \in 1 .. Len(z) /\ z[n + j] = t[j]
        BY <1>2
    <2>2. v[j] = ks[n + j] /\ v[j + 1] = ks[(n + j) + 1]
        BY <1>2
    <2>3. Ok(p, ks[n + j], z[n + j], ks[(n + j) + 1])
        BY <1>1, <2>1 DEF Chain
    <2> QED BY <2>1, <2>2, <2>3
<1>5. v[1] = ks[n + 1] /\ v[Len(t) + 1] = m
    BY <1>1, <1>2
<1> HIDE DEF v
<1>6. Runs(p, k, s, ks[n + 1])
    BY <1>1, <1>3, Zenon DEF Runs, n
<1>7. Runs(p, ks[n + 1], t, m)
    BY <1>4, <1>5, Zenon DEF Runs
<1> QED BY <1>6, <1>7

(* Less may be known than is needed. *)
LEMMA OkStronger ==
    ASSUME NEW p, NEW k, NEW h \in Facts, NEW i, NEW l, Kept(h, k, "none"), Ok(p, k, i, l)
    PROVE  Ok(p, h, i, l)
<1>1. /\ h.sp = k.sp
      /\ k.fp = "top" => h.fp = "top"
      /\ k.a0 = "address" => h.a0 = "address"
      /\ k.t0 = "known" => h.t0 = "known" /\ h.n = k.n
    BY DEF Kept
<1>2. ASSUME NEW r, Kept(k, l, r) PROVE Kept(h, l, r)
    BY <1>1, <1>2 DEF Kept
<1>3. ASSUME NEW loc, Above(p, k, loc) PROVE Above(p, h, loc)
    BY <1>1, <1>3 DEF Above
<1>4. l \in Facts /\ k.sp \in {"entry", "frame", "left"}
    BY DEF Ok
<1>5. CASE k.sp = "left" /\ i.op = "Ret" /\ l.sp = "out" /\ Kept(k, l, "sp")
    BY <1>1, <1>2, <1>4, <1>5 DEF Ok
<1>6. CASE OkLi(k, i, l)
    BY <1>1, <1>2, <1>4, <1>6 DEF Ok, OkLi
<1>7. CASE OkLoad(p, k, i, l)
    BY <1>1, <1>2, <1>3, <1>4, <1>7 DEF Ok, OkLoad, Symbolic
<1>8. CASE OkStore(p, k, i, l)
    BY <1>1, <1>2, <1>3, <1>4, <1>8 DEF Ok, OkStore, Symbolic
<1>9. CASE OkLoadAddr(p, k, i, l)
    BY <1>1, <1>2, <1>3, <1>4, <1>9 DEF Ok, OkLoadAddr
<1>10. CASE OkAddi(p, k, i, l)
    BY <1>1, <1>2, <1>3, <1>4, <1>10 DEF Ok, OkAddi
<1>11. CASE OkAdd(p, k, i, l)
    BY <1>1, <1>2, <1>4, <1>11 DEF Ok, OkAdd
<1>12. CASE OkSub(p, k, i, l)
    BY <1>1, <1>2, <1>4, <1>12 DEF Ok, OkSub
<1>13. CASE OkCall(k, i, l)
    BY <1>1, <1>2, <1>4, <1>13 DEF Ok, OkCall
<1> QED BY <1>5, <1>6, <1>7, <1>8, <1>9, <1>10, <1>11, <1>12, <1>13 DEF Ok

LEMMA RunsStronger ==
    ASSUME NEW p, NEW k, NEW h \in Facts, NEW l, NEW S, NEW s \in Seq(S), s # <<>>,
           Kept(h, k, "none"), Runs(p, k, s, l)
    PROVE  Runs(p, h, s, l)
<1>1. PICK ks : ks[1] = k /\ ks[Len(s) + 1] = l /\ Chain(p, ks, s)
    BY DEF Runs
<1>2. Len(s) \in Nat /\ 1 \in 1 .. Len(s)
    OBVIOUS
<1> DEFINE hs == [j \in 1 .. (Len(s) + 1) |-> IF j = 1 THEN h ELSE ks[j]]
<1>3. ASSUME NEW j \in 1 .. Len(s) PROVE Ok(p, hs[j], s[j], hs[j + 1])
    <2>1. Ok(p, ks[j], s[j], ks[j + 1])
        BY <1>1 DEF Chain
    <2>2. hs[j + 1] = ks[j + 1]
        BY <1>2
    <2>3. CASE j = 1
        <3>1. hs[j] = h /\ ks[j] = k
            BY <1>1, <1>2, <2>3
        <3> QED BY <2>1, <2>2, <3>1, OkStronger
    <2>4. CASE j # 1
        <3>1. hs[j] = ks[j]
            BY <1>2, <2>4
        <3> QED BY <2>1, <2>2, <3>1
    <2> QED BY <2>3, <2>4
<1>4. hs[1] = h /\ hs[Len(s) + 1] = l
    BY <1>1, <1>2
<1> HIDE DEF hs
<1>5. Chain(p, hs, s)
    BY <1>3 DEF Chain
<1> QED BY <1>4, <1>5, Zenon DEF Runs

(* The blocks lead from k to l one after the other. *)
RunsAll(p, k, ss, l) ==
    \E ks : /\ ks[1] = k /\ ks[Len(ss) + 1] = l
            /\ \A b \in 1 .. Len(ss) : Runs(p, ks[b], ss[b], ks[b + 1])

LEMMA RunsFlat ==
    ASSUME NEW p, NEW k, NEW l, NEW S, NEW ss \in Seq(Seq(S)), RunsAll(p, k, ss, l)
    PROVE  Runs(p, k, FlattenSeq(ss), l)
<1>1. PICK ks : /\ ks[1] = k /\ ks[Len(ss) + 1] = l
                /\ \A b \in 1 .. Len(ss) : Runs(p, ks[b], ss[b], ks[b + 1])
    BY DEF RunsAll
<1> DEFINE f == FlattenOf(ss)
<1>2. FlattenSeq(ss) = IF Len(ss) = 0 THEN ss ELSE f[Len(ss)]
    <2>1. Len(ss) \in Nat
        OBVIOUS
    <2> QED BY <2>1, FlattenFunction, Zenon
<1>3. f = [i \in 1 .. Len(ss) |-> IF i = 1 THEN ss[i] ELSE f[i - 1] \o ss[i]]
    <2>1. Len(ss) \in Nat
        OBVIOUS
    <2> QED BY <2>1, FlattenFunction, Zenon
<1> HIDE DEF f
<1> DEFINE Fine(n) == f[n] \in Seq(S) /\ Runs(p, k, f[n], ks[n + 1])
           T == {n \in Nat : n \in 1 .. Len(ss) /\ ~ Fine(n)}
<1>4. ASSUME T # {} PROVE FALSE
    <2>1. PICK n \in T : \A m \in T : n <= m
        BY <1>4, LeastMember
    <2>2. n \in Nat /\ n \in 1 .. Len(ss) /\ ~ Fine(n)
        BY <2>1, Zenon
    <2>3. ss[n] \in Seq(S) /\ Runs(p, ks[n], ss[n], ks[n + 1])
        BY <1>1, <2>2, ElementOfSeq
    <2>4. f[n] = IF n = 1 THEN ss[n] ELSE f[n - 1] \o ss[n]
        BY <1>3, <2>2, Zenon
    <2>5. CASE n = 1
        BY <1>1, <2>2, <2>3, <2>4, <2>5
    <2>6. CASE n # 1
        <3>1. n - 1 \in Nat /\ n - 1 \in 1 .. Len(ss) /\ ~ (n <= n - 1) /\ (n - 1) + 1 = n
            BY <2>2, <2>6
        <3>2. n - 1 \notin T
            BY <2>1, <3>1
        <3> HIDE DEF Fine
        <3>3. Fine(n - 1)
            BY <3>1, <3>2, Zenon
        <3>4. f[n - 1] \in Seq(S) /\ Runs(p, k, f[n - 1], ks[n])
            BY <3>1, <3>3 DEF Fine
        <3>5. f[n - 1] \o ss[n] \in Seq(S)
            BY <2>3, <3>4, ConcatProperties
        <3>6. Runs(p, k, f[n - 1] \o ss[n], ks[n + 1])
            BY <2>3, <3>4, RunsConcat
        <3> QED BY <2>2, <2>4, <2>6, <3>5, <3>6 DEF Fine
    <2> QED BY <2>5, <2>6
<1>5. CASE Len(ss) = 0
    <2>1. ss = <<>> /\ k = l
        BY <1>1, <1>5
    <2> QED BY <1>2, <1>5, <2>1, RunsEmpty
<1>6. CASE Len(ss) # 0
    <2>1. Len(ss) \in Nat /\ Len(ss) \in 1 .. Len(ss)
        BY <1>6
    <2>2. Fine(Len(ss))
        BY <1>4, <2>1, Zenon
    <2> QED BY <1>1, <1>2, <1>6, <2>2
<1> QED BY <1>5, <1>6

(* One block is exchanged for another that leads to the same facts. *)
LEMMA RunsBlock ==
    ASSUME NEW p, NEW k, NEW l, NEW S, NEW ss \in Seq(Seq(S)), NEW b \in 1 .. Len(ss),
           NEW s \in Seq(S), RunsAll(p, k, ss, l),
           \A h, m : Runs(p, h, ss[b], m) => Runs(p, h, s, m),
           NEW z, z = [ss EXCEPT ![b] = s]
    PROVE  RunsAll(p, k, z, l)
<1>1. PICK ks : /\ ks[1] = k /\ ks[Len(ss) + 1] = l
                /\ \A c \in 1 .. Len(ss) : Runs(p, ks[c], ss[c], ks[c + 1])
    BY DEF RunsAll
<1>2. Len(z) = Len(ss) /\ z[b] = s /\ \A c \in 1 .. Len(ss) : c # b => z[c] = ss[c]
    BY BlockSet
<1>3. ASSUME NEW c \in 1 .. Len(z) PROVE Runs(p, ks[c], z[c], ks[c + 1])
    BY <1>1, <1>2
<1>4. ks[1] = k /\ ks[Len(z) + 1] = l
    BY <1>1, <1>2
<1> QED BY <1>3, <1>4, Zenon DEF RunsAll

(* The first or the last block is exchanged, with other ends. *)
LEMMA RunsFirst ==
    ASSUME NEW p, NEW h, NEW k, NEW l, NEW S, NEW ss \in Seq(Seq(S)), Len(ss) >= 1,
           NEW s \in Seq(S), RunsAll(p, k, ss, l),
           \A m : Runs(p, k, ss[1], m) => Runs(p, h, s, m),
           NEW z, z = [ss EXCEPT ![1] = s]
    PROVE  RunsAll(p, h, z, l)
<1>1. PICK ks : /\ ks[1] = k /\ ks[Len(ss) + 1] = l
                /\ \A c \in 1 .. Len(ss) : Runs(p, ks[c], ss[c], ks[c + 1])
    BY DEF RunsAll
<1>2. Len(ss) \in Nat /\ 1 \in 1 .. Len(ss)
    OBVIOUS
<1>3. Len(z) = Len(ss) /\ z[1] = s /\ \A c \in 1 .. Len(ss) : c # 1 => z[c] = ss[c]
    BY <1>2, BlockSet
<1> DEFINE hs == [c \in 1 .. (Len(ss) + 1) |-> IF c = 1 THEN h ELSE ks[c]]
<1>4. hs[1] = h /\ hs[Len(z) + 1] = l /\ \A c \in 2 .. (Len(ss) + 1) : hs[c] = ks[c]
    BY <1>1, <1>2, <1>3
<1> HIDE DEF hs
<1>5. ASSUME NEW c \in 1 .. Len(z) PROVE Runs(p, hs[c], z[c], hs[c + 1])
    <2>1. c \in 1 .. Len(ss) /\ c + 1 \in 2 .. (Len(ss) + 1) /\ hs[c + 1] = ks[c + 1]
        BY <1>2, <1>3, <1>4
    <2>2. Runs(p, ks[c], ss[c], ks[c + 1])
        BY <1>1, <2>1
    <2>3. CASE c = 1
        BY <1>1, <1>3, <1>4, <2>1, <2>2, <2>3
    <2>4. CASE c # 1
        <3>1. c \in 2 .. (Len(ss) + 1)
            BY <2>1, <2>4
        <3> QED BY <1>3, <1>4, <2>1, <2>2, <2>4, <3>1
    <2> QED BY <2>3, <2>4
<1> QED BY <1>4, <1>5, Zenon DEF RunsAll

LEMMA RunsLast ==
    ASSUME NEW p, NEW k, NEW l, NEW m, NEW S, NEW ss \in Seq(Seq(S)), Len(ss) >= 1,
           NEW s \in Seq(S), RunsAll(p, k, ss, l),
           \A h : Runs(p, h, ss[Len(ss)], l) => Runs(p, h, s, m),
           NEW z, z = [ss EXCEPT ![Len(ss)] = s]
    PROVE  RunsAll(p, k, z, m)
<1> DEFINE n == Len(ss)
<1>1. PICK ks : /\ ks[1] = k /\ ks[n + 1] = l
                /\ \A c \in 1 .. n : Runs(p, ks[c], ss[c], ks[c + 1])
    BY DEF RunsAll
<1>2. n \in Nat /\ n \in 1 .. n /\ n >= 1
    OBVIOUS
<1>3. Len(z) = n /\ z[n] = s /\ \A c \in 1 .. n : c # n => z[c] = ss[c]
    BY <1>2, BlockSet
<1>a. \A h : Runs(p, h, ss[n], l) => Runs(p, h, s, m)
    OBVIOUS
<1> HIDE DEF n
<1> DEFINE hs == [c \in 1 .. (n + 1) |-> IF c = n + 1 THEN m ELSE ks[c]]
<1>4. hs[1] = k /\ hs[n + 1] = m /\ \A c \in 1 .. n : hs[c] = ks[c]
    BY <1>1, <1>2
<1> HIDE DEF hs
<1>5. ASSUME NEW c \in 1 .. n PROVE Runs(p, hs[c], z[c], hs[c + 1])
    <2>1. Runs(p, ks[c], ss[c], ks[c + 1]) /\ hs[c] = ks[c]
        BY <1>1, <1>4
    <2>2. CASE c = n
        BY <1>1, <1>a, <1>3, <1>4, <2>1, <2>2
    <2>3. CASE c # n
        <3>1. c + 1 \in 1 .. n
            BY <1>2, <2>3
        <3> QED BY <1>3, <1>4, <2>1, <2>3, <3>1
    <2> QED BY <2>2, <2>3
<1>6. hs[Len(z) + 1] = m /\ \A c \in 1 .. Len(z) : Runs(p, hs[c], z[c], hs[c + 1])
    BY <1>3, <1>4, <1>5
<1> QED BY <1>4, <1>6, Zenon DEF RunsAll

(* An empty block is added. *)
LEMMA RunsMore ==
    ASSUME NEW p, NEW k, NEW l, NEW S, NEW ss \in Seq(Seq(S)), RunsAll(p, k, ss, l),
           NEW z, z = Append(ss, <<>>)
    PROVE  RunsAll(p, k, z, l)
<1> DEFINE n == Len(ss)
<1>1. PICK ks : /\ ks[1] = k /\ ks[n + 1] = l
                /\ \A c \in 1 .. n : Runs(p, ks[c], ss[c], ks[c + 1])
    BY DEF RunsAll
<1>2. n \in Nat /\ Len(z) = n + 1 /\ z[n + 1] = <<>> /\ \A c \in 1 .. n : z[c] = ss[c]
    OBVIOUS
<1> HIDE DEF n
<1> DEFINE hs == [c \in 1 .. (n + 2) |-> IF c = n + 2 THEN l ELSE ks[c]]
<1>3. hs[1] = k /\ hs[n + 2] = l /\ (n + 1) + 1 = n + 2 /\ \A c \in 1 .. (n + 1) : hs[c] = ks[c]
    BY <1>1, <1>2
<1> HIDE DEF hs
<1>4. ASSUME NEW c \in 1 .. (n + 1) PROVE Runs(p, hs[c], z[c], hs[c + 1])
    <2>1. CASE c = n + 1
        BY <1>1, <1>2, <1>3, <2>1, RunsEmpty
    <2>2. CASE c # n + 1
        <3>1. c \in 1 .. n /\ c + 1 \in 1 .. (n + 1)
            BY <1>2, <2>2
        <3> QED BY <1>1, <1>2, <1>3, <3>1
    <2> QED BY <2>1, <2>2
<1>5. hs[Len(z) + 1] = l /\ \A c \in 1 .. Len(z) : Runs(p, hs[c], z[c], hs[c + 1])
    BY <1>2, <1>3, <1>4
<1> QED BY <1>3, <1>5, Zenon DEF RunsAll

LEMMA RunsTwo ==
    ASSUME NEW p, NEW k, NEW i, NEW l, NEW j, NEW m, Ok(p, k, i, l), Ok(p, l, j, m)
    PROVE  Runs(p, k, <<i, j>>, m)
<1> DEFINE ks == <<k, l, m>>
           s == <<i, j>>
<1>1. /\ Len(s) = 2 /\ s[1] = i /\ s[2] = j
      /\ ks[1] = k /\ ks[2] = l /\ ks[3] = m
    OBVIOUS
<1> HIDE DEF ks, s
<1>2. ASSUME NEW c \in 1 .. Len(s) PROVE Ok(p, ks[c], s[c], ks[c + 1])
    <2>1. c = 1 \/ c = 2
        BY <1>1
    <2> QED BY <1>1, <2>1
<1>3. Chain(p, ks, s) /\ ks[Len(s) + 1] = m
    BY <1>1, <1>2 DEF Chain
<1>4. Runs(p, k, s, m)
    BY <1>1, <1>3, Zenon DEF Runs
<1> QED BY <1>4 DEF s

LEMMA RunsThree ==
    ASSUME NEW p, NEW k, NEW i, NEW l, NEW j, NEW m, NEW q, NEW z,
           Ok(p, k, i, l), Ok(p, l, j, m), Ok(p, m, q, z)
    PROVE  Runs(p, k, <<i, j, q>>, z)
<1> DEFINE ks == <<k, l, m, z>>
           s == <<i, j, q>>
<1>1. /\ Len(s) = 3 /\ s[1] = i /\ s[2] = j /\ s[3] = q
      /\ ks[1] = k /\ ks[2] = l /\ ks[3] = m /\ ks[4] = z
    OBVIOUS
<1> HIDE DEF ks, s
<1>2. ASSUME NEW c \in 1 .. Len(s) PROVE Ok(p, ks[c], s[c], ks[c + 1])
    <2>1. c = 1 \/ c = 2 \/ c = 3
        BY <1>1
    <2> QED BY <1>1, <2>1
<1>3. Chain(p, ks, s) /\ ks[Len(s) + 1] = z
    BY <1>1, <1>2 DEF Chain
<1>4. Runs(p, k, s, z)
    BY <1>1, <1>3, Zenon DEF Runs
<1> QED BY <1>4 DEF s

-----------------------------------------------------------------------------
(***************************************************************************)
(* The prologue and the epilogue, as to what they lead to.                 *)
(***************************************************************************)
Start == Fact("entry", "any", "any", "any", 0)
Bare == Fact("frame", "any", "any", "any", 0)
Left == Fact("left", "any", "any", "any", 0)
Out == Fact("out", "any", "any", "any", 0)

(* Where the body is, after an address was loaded to a0 or not. *)
InBody(p, a) == Fact("frame", IF p.base = "sp" THEN "any" ELSE "top", a, "any", 0)

(* t0 is n, before or after the frame was reserved. *)
Scratch(sp, n) == Fact(sp, "any", "any", "known", n)

LEMMA FactFields ==
    ASSUME NEW sp, NEW fp, NEW a0, NEW t0, NEW n
    PROVE  /\ Fact(sp, fp, a0, t0, n).sp = sp /\ Fact(sp, fp, a0, t0, n).fp = fp
           /\ Fact(sp, fp, a0, t0, n).a0 = a0 /\ Fact(sp, fp, a0, t0, n).t0 = t0
           /\ Fact(sp, fp, a0, t0, n).n = n
BY DEF Fact

LEMMA FactTypes ==
    /\ Start \in Facts /\ Bare \in Facts /\ Left \in Facts /\ Out \in Facts
    /\ \A p : \A a \in {"any", "address"} : InBody(p, a) \in Facts
BY DEF Start, Bare, Left, Out, InBody, Fact, Facts

LEMMA ScratchFact ==
    ASSUME NEW sp \in {"entry", "frame"}, NEW n \in Int
    PROVE  /\ Scratch(sp, n) \in Facts /\ Scratch(sp, n).sp = sp
           /\ Scratch(sp, n).t0 = "known" /\ Scratch(sp, n).n = n
BY DEF Scratch, Fact, Facts

LEMMA LiRuns ==
    ASSUME NEW p, NEW n \in Int, NEW sp \in {"entry", "frame"}
    PROVE  Ok(p, Fact(sp, "any", "any", "any", 0), Li("t0", n), Scratch(sp, n))
<1>1. Fact(sp, "any", "any", "any", 0) \in Facts /\ Scratch(sp, n) \in Facts
    BY DEF Fact, Facts, Scratch
<1>2. OkLi(Fact(sp, "any", "any", "any", 0), Li("t0", n), Scratch(sp, n))
    BY DEF OkLi, Li, Scratch, Fact, Kept
<1>3. Fact(sp, "any", "any", "any", 0).sp \in {"entry", "frame"}
    BY DEF Fact
<1> QED BY <1>1, <1>2, <1>3 DEF Ok

LEMMA AccessRuns ==
    ASSUME NEW p, p.total \in Nat, NEW op \in {"Load", "Store"}, NEW r \in Work,
           NEW off \in Nat
    PROVE  Runs(p, Bare, Access(op, r, off), Bare)
<1>1. r # "sp" /\ r # "t0"
    BY DEF Work
<1>2. Bare \in Facts /\ Bare.sp = "frame"
    BY FactTypes DEF Bare, Fact
<1>3. CASE Fits(off)
    <2> DEFINE i == At(op, r, RegOffset("sp", AsI16(Bits(off))))
    <2>1. AsI16(Bits(off)) = off
        BY <1>3, ImmediatesKeepTheirValue
    <2>2. OkLoad(p, Bare, i, Bare) \/ OkStore(p, Bare, i, Bare)
        BY <1>1, <2>1 DEF OkLoad, OkStore, At, Load, Store, RegOffset, Bare, Fact, Kept, Lost,
                          Above, Symbolic
    <2>3. Ok(p, Bare, i, Bare)
        BY <1>2, <2>2 DEF Ok
    <2>4. Access(op, r, off) = <<i>>
        BY <1>3, Zenon DEF Access
    <2> HIDE DEF i
    <2> QED BY <2>3, <2>4, RunsOne
<1>4. CASE ~ Fits(off)
    <2> DEFINE li == Li("t0", off)
               add == Alu("Add", "t0", "sp", "t0")
               last == At(op, r, RegOffset("t0", 0))
               k == Scratch("frame", off)
               l == Scratch("frame", off - p.total)
    <2>1. Access(op, r, off) = <<li, add, last>>
        BY <1>4, Zenon DEF Access
    <2>2. Ok(p, Bare, li, k)
        BY LiRuns DEF Bare
    <2>3. k \in Facts /\ l \in Facts /\ k.sp = "frame" /\ l.sp = "frame"
        <3>1. off \in Int /\ off - p.total \in Int
            OBVIOUS
        <3> QED BY <3>1, ScratchFact
    <2>4. OkAdd(p, k, add, l)
        BY DEF OkAdd, Alu, Scratch, Fact, Kept
    <2>5. Ok(p, k, add, l)
        BY <2>3, <2>4 DEF Ok
    <2>6. OkLoad(p, l, last, Bare) \/ OkStore(p, l, last, Bare)
        BY <1>1 DEF OkLoad, OkStore, At, Load, Store, RegOffset, Bare, Scratch, Fact, Kept, Lost,
                    Above, Symbolic
    <2>7. Ok(p, l, last, Bare)
        BY <1>2, <2>3, <2>6 DEF Ok
    <2> HIDE DEF li, add, last, k, l
    <2> QED BY <2>1, <2>2, <2>5, <2>7, RunsThree
<1> QED BY <1>3, <1>4

LEMMA AccessesRuns ==
    ASSUME storage \in Nat, outgoing \in Nat, NEW regset, regset \subseteq Work,
           NEW op \in {"Load", "Store"}, NEW p, p.total = Total(Cardinality(regset))
    PROVE  Runs(p, Bare, Accesses(op, regset), Bare)
<1> DEFINE n == Cardinality(regset)
           ss == [i \in 1 .. n |-> Access(op, SavedSeq(regset)[i], Total(n) - 8 * i)]
<1>1. n \in Nat
    BY WorkFinite, FS_Subset, FS_CardinalityType
<1>2. Total(n) \in Nat /\ storage + outgoing + n * 8 <= Total(n)
    BY <1>1, TotalHolds
<1>3. \A i \in 1 .. n : SavedSeq(regset)[i] \in Work
    BY SavedSeqMember
<1>4. Accesses(op, regset) = FlattenSeq(ss)
    BY DEF Accesses
<1> HIDE DEF n
<1>5. \A i \in 1 .. n : Total(n) - 8 * i \in Nat
    BY <1>1, <1>2
<1>6. \A i \in 1 .. n : ss[i] \in Seq(Final)
    <2> TAKE i \in 1 .. n
    <2>1. SavedSeq(regset)[i] \in Regs /\ Total(n) - 8 * i \in Int
        BY <1>3, <1>5 DEF Regs
    <2> QED BY <2>1, AccessFinal
<1>7. \A i \in 1 .. n : Runs(p, Bare, ss[i], Bare)
    <2> TAKE i \in 1 .. n
    <2>1. SavedSeq(regset)[i] \in Work /\ Total(n) - 8 * i \in Nat /\ p.total \in Nat
        BY <1>2, <1>3, <1>5 DEF n
    <2>2. Runs(p, Bare, Access(op, SavedSeq(regset)[i], Total(n) - 8 * i), Bare)
        BY <2>1, AccessRuns
    <2> QED BY <2>2
<1>8. Len(ss) = n /\ DOMAIN ss = 1 .. n /\ ss \in Seq(Seq(Final))
    <2> DEFINE B == Seq(Final)
    <2>1. \A i \in 1 .. n : Access(op, SavedSeq(regset)[i], Total(n) - 8 * i) \in B
        BY <1>6
    <2> HIDE DEF B
    <2>2. ss \in Seq(B) /\ Len(ss) = n
        BY <1>1, <2>1
    <2> QED BY <2>2 DEF B
<1> HIDE DEF ss
<1>9. RunsAll(p, Bare, ss, Bare)
    <2> DEFINE ks == [i \in 1 .. (n + 1) |-> Bare]
    <2>1. ks[1] = Bare /\ ks[Len(ss) + 1] = Bare
        BY <1>1, <1>8
    <2>2. \A i \in 1 .. Len(ss) : ks[i] = Bare /\ ks[i + 1] = Bare
        BY <1>1, <1>8
    <2> HIDE DEF ks
    <2>3. \A i \in 1 .. Len(ss) : Runs(p, ks[i], ss[i], ks[i + 1])
        BY <1>7, <1>8, <2>2
    <2> QED BY <2>1, <2>3, Zenon DEF RunsAll
<1> QED BY <1>4, <1>8, <1>9, RunsFlat

LEMMA AddToSpRuns ==
    ASSUME NEW p, p.total \in Nat, NEW rd \in {"sp", "fp"}, NEW l \in Facts,
           Kept(Bare, l, rd), l.t0 = "any", rd = "sp" => l.sp = "left"
    PROVE  Runs(p, Bare, AddToSp(rd, p.total), l)
<1> DEFINE off == p.total
<1>1. Bare \in Facts /\ Bare.sp = "frame" /\ off \in Int
    BY FactTypes DEF Bare, Fact
<1>2. CASE Fits(off)
    <2> DEFINE i == Addi(rd, "sp", Bits(off))
    <2>1. AsI16(Bits(off)) = off
        BY <1>1, <1>2, ImmediatesKeepTheirValue
    <2>2. OkAddi(p, Bare, i, l)
        BY <1>1, <2>1 DEF OkAddi, Addi
    <2>3. Ok(p, Bare, i, l)
        BY <1>1, <2>2 DEF Ok
    <2>4. AddToSp(rd, off) = <<i>>
        BY <1>2, Zenon DEF AddToSp
    <2> HIDE DEF i
    <2> QED BY <2>3, <2>4, RunsOne
<1>3. CASE ~ Fits(off)
    <2> DEFINE li == Li("t0", off)
               add == Alu("Add", rd, "sp", "t0")
               k == Scratch("frame", off)
    <2>1. AddToSp(rd, off) = <<li, add>>
        BY <1>3, Zenon DEF AddToSp
    <2>2. Ok(p, Bare, li, k)
        BY <1>1, LiRuns DEF Bare
    <2>3. k \in Facts /\ k.sp = "frame" /\ k.t0 = "known" /\ k.n = off
        BY <1>1, ScratchFact
    <2>4. Kept(k, l, rd)
        BY <2>3 DEF Kept, Bare, Scratch, Fact
    <2>5. OkAdd(p, k, add, l)
        BY <2>3, <2>4 DEF OkAdd, Alu
    <2>6. Ok(p, k, add, l)
        BY <2>3, <2>5 DEF Ok
    <2> HIDE DEF li, add, k
    <2> QED BY <2>1, <2>2, <2>6, RunsTwo
<1> QED BY <1>2, <1>3

LEMMA ReserveRuns ==
    ASSUME NEW p, p.total \in Nat
    PROVE  Runs(p, Start, IF Fits(-p.total) THEN <<Addi("sp", "sp", Bits(-p.total))>>
                          ELSE <<Li("t0", p.total), Alu("Sub", "sp", "sp", "t0")>>, Bare)
<1> DEFINE off == -p.total
<1>1. /\ Bare \in Facts /\ Bare.sp = "frame" /\ off \in Int
      /\ Start \in Facts /\ Start.sp = "entry"
    BY FactTypes DEF Bare, Start, Fact
<1>2. CASE Fits(off)
    <2> DEFINE i == Addi("sp", "sp", Bits(off))
    <2>1. AsI16(Bits(off)) = off
        BY <1>1, <1>2, ImmediatesKeepTheirValue
    <2>2. OkAddi(p, Start, i, Bare)
        BY <1>1, <2>1 DEF OkAddi, Addi, Kept, Start, Bare, Fact
    <2>3. Ok(p, Start, i, Bare)
        BY <1>1, <2>2 DEF Ok
    <2> HIDE DEF i
    <2> QED BY <1>2, <2>3, RunsOne DEF i
<1>3. CASE ~ Fits(off)
    <2> DEFINE li == Li("t0", p.total)
               sub == Alu("Sub", "sp", "sp", "t0")
               k == Scratch("entry", p.total)
    <2>2. Ok(p, Start, li, k)
        BY LiRuns DEF Start
    <2>3. k \in Facts /\ k.sp = "entry" /\ k.t0 = "known" /\ k.n = p.total
        <3>1. p.total \in Int
            OBVIOUS
        <3> QED BY <3>1, ScratchFact
    <2>4. OkSub(p, k, sub, Bare)
        BY <2>3 DEF OkSub, Alu, Kept, Scratch, Bare, Fact
    <2>5. Ok(p, k, sub, Bare)
        BY <1>1, <2>3, <2>4 DEF Ok
    <2> HIDE DEF k
    <2>6. Runs(p, Start, <<li, sub>>, Bare)
        BY <2>2, <2>5, RunsTwo
    <2> QED BY <1>3, <2>6
<1> QED BY <1>2, <1>3

LEMMA PrologueRuns ==
    ASSUME storage \in Nat, outgoing \in Nat, NEW regset, regset \subseteq Work,
           NEW p, p.total = Total(Cardinality(regset)),
           p.base = IF omit_frame_pointer THEN "sp" ELSE "fp"
    PROVE  Runs(p, Start, PrologueCode(regset), InBody(p, "any"))
<1> DEFINE total == Total(Cardinality(regset))
           reserve == IF Fits(-total) THEN <<Addi("sp", "sp", Bits(-total))>>
                      ELSE <<Li("t0", total), Alu("Sub", "sp", "sp", "t0")>>
           pointer == IF omit_frame_pointer THEN <<>> ELSE AddToSp("fp", total)
<1>1. total \in Nat
    <2>1. Cardinality(regset) \in Nat
        BY WorkFinite, FS_Subset, FS_CardinalityType
    <2> QED BY <2>1, TotalHolds
<1>2. PrologueCode(regset) = (reserve \o Accesses("Store", regset)) \o pointer
    BY DEF PrologueCode
<1>3. Runs(p, Start, reserve, Bare)
    BY <1>1, ReserveRuns
<1>4. Runs(p, Bare, Accesses("Store", regset), Bare)
    BY AccessesRuns
<1>5. Runs(p, Bare, pointer, InBody(p, "any"))
    <2>1. CASE omit_frame_pointer
        <3>1. InBody(p, "any") = Bare
            BY <2>1 DEF InBody, Bare
        <3> QED BY <2>1, <3>1, RunsEmpty
    <2>2. CASE ~ omit_frame_pointer
        <3>1. InBody(p, "any") \in Facts
            BY FactTypes
        <3>2. Kept(Bare, InBody(p, "any"), "fp") /\ InBody(p, "any").t0 = "any"
            BY DEF Kept, Bare, InBody, Fact
        <3>3. Runs(p, Bare, AddToSp("fp", p.total), InBody(p, "any"))
            BY <1>1, <3>1, <3>2, AddToSpRuns
        <3> QED BY <2>2, <3>3
    <2> QED BY <2>1, <2>2
<1>6. reserve \in Seq(Final) /\ pointer \in Seq(Final) /\ Accesses("Store", regset) \in Seq(Final)
    <2>1. "sp" \in Regs /\ "t0" \in Regs /\ "fp" \in Regs /\ total \in Int /\ Bits(-total) \in Int
        BY <1>1, BitsInt DEF Regs, Work
    <2>2. /\ Li("t0", total) \in Final /\ Alu("Sub", "sp", "sp", "t0") \in Final
          /\ Addi("sp", "sp", Bits(-total)) \in Final
        BY <2>1, FinalOps
    <2>3. AddToSp("fp", total) \in Seq(Final)
        BY <2>1, AddToSpFinal
    <2> HIDE DEF total
    <2> QED BY <2>2, <2>3, AccessesFinal
<1> HIDE DEF total, reserve, pointer
<1>7. reserve \o Accesses("Store", regset) \in Seq(Final)
    BY <1>6, ConcatProperties
<1>8. Runs(p, Start, reserve \o Accesses("Store", regset), Bare)
    BY <1>3, <1>4, <1>6, RunsConcat
<1> QED BY <1>2, <1>5, <1>6, <1>7, <1>8, RunsConcat

LEMMA EpilogueRuns ==
    ASSUME storage \in Nat, outgoing \in Nat, saved \subseteq Work,
           NEW p, p.total = Total(Cardinality(saved)), NEW a \in {"any", "address"}
    PROVE  Runs(p, InBody(p, a), EpilogueCode, Out)
<1> DEFINE total == Total(Cardinality(saved))
           loads == Accesses("Load", saved)
           free == AddToSp("sp", total)
           ret == <<Ret>>
<1>1. total \in Nat
    <2>1. Cardinality(saved) \in Nat
        BY WorkFinite, FS_Subset, FS_CardinalityType
    <2> QED BY <2>1, TotalHolds
<1>2. EpilogueCode = (loads \o free) \o ret
    BY DEF EpilogueCode
<1>3. Runs(p, Bare, loads, Bare)
    BY AccessesRuns
<1>4. Runs(p, Bare, free, Left)
    <2>1. Left \in Facts /\ Kept(Bare, Left, "sp") /\ Left.t0 = "any" /\ Left.sp = "left"
        BY FactTypes DEF Kept, Bare, Left, Fact
    <2>2. Runs(p, Bare, AddToSp("sp", p.total), Left)
        BY <1>1, <2>1, AddToSpRuns
    <2> QED BY <2>2
<1>5. Runs(p, Left, ret, Out)
    <2>1. Ok(p, Left, Ret, Out)
        BY FactTypes DEF Ok, Left, Out, Ret, Fact, Kept
    <2> QED BY <2>1, RunsOne
<1>6. loads \in Seq(Final) /\ free \in Seq(Final) /\ ret \in Seq(Final)
    <2>1. "sp" \in Regs /\ total \in Int /\ Ret \in Final
        BY <1>1 DEF Regs, Ret, OtherInst, Final
    <2> HIDE DEF total
    <2> QED BY <2>1, AccessesFinal, AddToSpFinal
<1>7. Len(ret) = 1
    OBVIOUS
<1> HIDE DEF total, loads, free, ret
<1>8. loads \o free \in Seq(Final) /\ Runs(p, Bare, loads \o free, Left)
    BY <1>3, <1>4, <1>6, ConcatProperties, RunsConcat
<1> DEFINE start == loads \o free
<1> HIDE DEF start
<1>9. start \in Seq(Final) /\ Runs(p, Bare, start, Left) /\ EpilogueCode = start \o ret
    BY <1>2, <1>8 DEF start
<1>10. Runs(p, Bare, EpilogueCode, Out)
    BY <1>5, <1>6, <1>9, RunsConcat
<1>11. EpilogueCode \in Seq(Final) /\ EpilogueCode # <<>>
    <2>1. start \o ret \in Seq(Final) /\ Len(start \o ret) = Len(start) + Len(ret)
        BY <1>6, <1>9, ConcatProperties
    <2>2. Len(start) \in Nat
        BY <1>9
    <2> QED BY <1>7, <1>9, <2>1, <2>2
<1>12. InBody(p, a) \in Facts /\ Kept(InBody(p, a), Bare, "none")
    BY FactTypes DEF Kept, InBody, Bare, Fact
<1> QED BY <1>10, <1>11, <1>12, RunsStronger

-----------------------------------------------------------------------------
(***************************************************************************)
(* What adjust_offset makes of an instruction leads to the same facts.     *)
(***************************************************************************)
Known == [total |-> Total(Cardinality(saved)), storage |-> storage,
          base |-> IF omit_frame_pointer THEN "sp" ELSE "fp"]

LEMMA ResolvedAbove ==
    ASSUME storage \in Nat, outgoing \in Nat, saved \subseteq Work, NEW loc \in Loc,
           loc.kind # "RegOffset", NEW k, NEW p, p = Known, Above(p, k, loc)
    PROVE  /\ p.total \in Nat /\ p.base \in {"sp", "fp"}
           /\ k.sp = "frame" /\ (p.base = "sp" \/ k.fp = "top")
           /\ Resolve(loc).base = p.base
           /\ Resolve(loc).offset \in Int
           /\ p.base = "sp" => 0 <= Resolve(loc).offset
           /\ p.base = "fp" => -p.total <= Resolve(loc).offset
<1> DEFINE total == Total(Cardinality(saved))
<1>1. total \in Nat
    <2>1. Cardinality(saved) \in Nat
        BY WorkFinite, FS_Subset, FS_CardinalityType
    <2> QED BY <2>1, TotalHolds
<1>2. storage + outgoing <= total
    <2>1. Cardinality(saved) \in Nat
        BY WorkFinite, FS_Subset, FS_CardinalityType
    <2> QED BY <1>1, <2>1, TotalHolds
<1>3. /\ p.total = total /\ p.storage = storage
      /\ p.base = IF omit_frame_pointer THEN "sp" ELSE "fp"
    BY DEF Known
<1>4. loc.offset \in Int
    BY DEF Loc
<1>5. /\ k.sp = "frame" /\ (p.base = "sp" \/ k.fp = "top")
      /\ \/ loc.kind = "Slot" /\ -storage <= loc.offset
         \/ loc.kind = "Incoming" /\ 0 <= loc.offset
    BY <1>3 DEF Above
<1>6. Resolve(loc) = IF omit_frame_pointer
            THEN RegOffset("sp", loc.offset + IF loc.kind = "Slot" THEN storage + outgoing ELSE total)
            ELSE RegOffset("fp", loc.offset - IF loc.kind = "Slot" THEN total - storage - outgoing ELSE 0)
    BY DEF Resolve
<1> HIDE DEF total
<1>7. CASE omit_frame_pointer
    <2>1. /\ Resolve(loc).base = "sp"
          /\ Resolve(loc).offset = loc.offset + IF loc.kind = "Slot" THEN storage + outgoing ELSE total
        BY <1>6, <1>7 DEF RegOffset
    <2>2. Resolve(loc).offset \in Int /\ 0 <= Resolve(loc).offset
        BY <1>1, <1>4, <1>5, <2>1
    <2>3. p.base = "sp"
        BY <1>3, <1>7
    <2> QED BY <1>1, <1>3, <1>5, <2>1, <2>2, <2>3
<1>8. CASE ~ omit_frame_pointer
    <2>1. /\ Resolve(loc).base = "fp"
          /\ Resolve(loc).offset =
                loc.offset - IF loc.kind = "Slot" THEN total - storage - outgoing ELSE 0
        BY <1>6, <1>8 DEF RegOffset
    <2>2. Resolve(loc).offset \in Int /\ -total <= Resolve(loc).offset
        BY <1>1, <1>2, <1>4, <1>5, <2>1
    <2>3. p.base = "fp"
        BY <1>3, <1>8
    <2> QED BY <1>1, <1>3, <1>5, <2>1, <2>2, <2>3
<1> QED BY <1>7, <1>8

(* A memory access at another location. *)
LEMMA Readdressed ==
    ASSUME NEW inst \in MemInst, NEW loc
    PROVE  LET z == [inst EXCEPT !.loc = loc] IN
           z.op = inst.op /\ z.loc = loc /\ (inst.op = "Load" => z.rd = inst.rd)
BY DEF MemInst

LEMMA AdjustedRuns ==
    ASSUME storage \in Nat, outgoing \in Nat, saved \subseteq Work, NEW inst \in Code,
           NEW p, p = Known, NEW k, NEW l, Ok(p, k, inst, l)
    PROVE  Runs(p, k, Adjusted(inst), l)
<1>1. CASE inst.op \notin {"Load", "Store", "LoadAddr"} \/ inst.loc.kind = "RegOffset"
    BY <1>1, RunsOne DEF Adjusted
<1>2. CASE inst.op \in {"Load", "Store", "LoadAddr"} /\ inst.loc.kind # "RegOffset"
    <2> DEFINE base == Resolve(inst.loc).base
               o == Resolve(inst.loc).offset
               last(loc) == IF inst.op = "LoadAddr"
                            THEN [Addi(inst.rd, loc.base, Bits(loc.offset))
                                    EXCEPT !.emitted = inst.emitted]
                            ELSE [inst EXCEPT !.loc = loc]
    <2>a. inst \in MemInst
        BY <1>2, OtherOps DEF Code
    <2>1. inst.loc \in Loc
        BY <2>a DEF MemInst
    <2>2. /\ k \in Facts /\ l \in Facts /\ l.t0 = "any"
          /\ k.sp \in {"entry", "frame"}
          /\ \/ OkLoad(p, k, inst, l) \/ OkStore(p, k, inst, l) \/ OkLoadAddr(p, k, inst, l)
        BY <1>2 DEF Ok, OkLi, OkLoad, OkStore, OkLoadAddr, OkAddi, OkAdd, OkSub, OkCall, Symbolic
    <2>3. Above(p, k, inst.loc)
        BY <1>2, <2>2 DEF OkLoad, OkStore, OkLoadAddr, Symbolic
    <2>4. /\ p.total \in Nat /\ base \in {"sp", "fp"} /\ o \in Int
          /\ k.sp = "frame" /\ (base = "sp" \/ k.fp = "top")
          /\ base = "sp" => 0 <= o
          /\ base = "fp" => -p.total <= o
        BY <1>2, <2>1, <2>3, ResolvedAbove
    <2>5. Resolve(inst.loc) = RegOffset(base, o)
        BY <2>1, ResolvedLoc
    <2>6. Adjusted(inst) = IF Fits(o) THEN <<last(RegOffset(base, o))>>
              ELSE <<Li("t0", o), Alu("Add", "t0", base, "t0"), last(RegOffset("t0", 0))>>
        <3>1. RegOffset(base, o).offset = o /\ RegOffset(base, o).base = base
            BY DEF RegOffset
        <3> DEFINE new == RegOffset(base, o)
        <3>2. Resolve(inst.loc) = new
            BY <2>5
        <3>3. new.offset = o /\ new.base = base
            BY <3>1
        <3> HIDE DEF new, base, o
        <3>4. Adjusted(inst) =
                 (IF Fits(o) THEN <<>> ELSE <<Li("t0", o), Alu("Add", "t0", base, "t0")>>)
                 \o <<last(IF Fits(o) THEN new ELSE RegOffset("t0", 0))>>
            BY <1>2, <3>2, <3>3 DEF Adjusted
        <3> HIDE DEF last
        <3> QED BY <3>4 DEF new
    <2> HIDE DEF base, o
    <2>7. ASSUME NEW h \in Facts, h.sp = "frame", NEW b, NEW n \in Int, Fits(n),
                 Above(p, h, RegOffset(b, n)), \A r : Kept(k, l, r) => Kept(h, l, r)
          PROVE  Ok(p, h, last(RegOffset(b, n)), l)
        <3> DEFINE loc == RegOffset(b, n)
        <3>1. loc.base = b /\ loc.offset = n /\ loc.kind = "RegOffset"
            BY DEF RegOffset
        <3>2. CASE OkLoad(p, k, inst, l)
            <4>1. last(loc).op = "Load" /\ last(loc).rd = inst.rd /\ last(loc).loc = loc
                BY <2>a, <3>2, Readdressed DEF OkLoad
            <4> HIDE DEF last, loc
            <4>2. OkLoad(p, h, last(loc), l)
                BY <2>2, <2>7, <3>1, <3>2, <4>1 DEF OkLoad, Symbolic
            <4> QED BY <2>2, <2>7, <4>2 DEF Ok, loc
        <3>3. CASE OkStore(p, k, inst, l)
            <4>1. last(loc).op = "Store" /\ last(loc).loc = loc
                BY <2>a, <3>3, Readdressed DEF OkStore
            <4> HIDE DEF last
            <4>2. OkStore(p, h, last(loc), l)
                BY <2>2, <2>7, <3>1, <3>3, <4>1 DEF OkStore, Symbolic
            <4> QED BY <2>2, <2>7, <4>2 DEF Ok
        <3>4. CASE OkLoadAddr(p, k, inst, l)
            <4>1. /\ last(loc).op = "Addi" /\ last(loc).rd = inst.rd
                  /\ last(loc).rs = b /\ last(loc).imm = Bits(n)
                BY <3>1, <3>4 DEF OkLoadAddr, Addi
            <4>2. AsI16(Bits(n)) = n
                BY <2>7, ImmediatesKeepTheirValue
            <4> HIDE DEF last
            <4>3. OkAddi(p, h, last(loc), l)
                BY <2>2, <2>7, <3>1, <3>4, <4>1, <4>2 DEF OkAddi, OkLoadAddr
            <4> QED BY <2>2, <2>7, <4>3 DEF Ok
        <3> QED BY <2>2, <3>2, <3>3, <3>4
    <2> HIDE DEF last
    <2>8. CASE Fits(o)
        <3>1. Above(p, k, RegOffset(base, o))
            BY <2>4 DEF Above, RegOffset
        <3>2. Ok(p, k, last(RegOffset(base, o)), l)
            BY <2>2, <2>4, <2>7, <2>8, <3>1
        <3> QED BY <2>6, <2>8, <3>2, RunsOne
    <2>9. CASE ~ Fits(o)
        <3> DEFINE sum == IF base = "sp" THEN o - p.total ELSE o
                   h == Fact(k.sp, k.fp, k.a0, "known", o)
                   m == Fact(k.sp, k.fp, k.a0, "known", sum)
        <3>1. sum \in Int /\ -p.total <= sum
            BY <2>4
        <3>2. /\ h \in Facts /\ h.sp = k.sp /\ h.fp = k.fp /\ h.a0 = k.a0
              /\ h.t0 = "known" /\ h.n = o
            BY <2>2, <2>4 DEF Facts, Fact
        <3>3. /\ m \in Facts /\ m.sp = k.sp /\ m.fp = k.fp /\ m.a0 = k.a0
              /\ m.t0 = "known" /\ m.n = sum
            BY <2>2, <3>1 DEF Facts, Fact
        <3>4. sum = IF base = "sp" THEN o - p.total ELSE o
            OBVIOUS
        <3> HIDE DEF sum, h, m
        <3>5. OkLi(k, Li("t0", o), h)
            BY <2>4, <3>2 DEF OkLi, Li, Kept
        <3>6. OkAdd(p, h, Alu("Add", "t0", base, "t0"), m)
            BY <2>4, <3>2, <3>3, <3>4 DEF OkAdd, Alu, Kept
        <3>7. Ok(p, k, Li("t0", o), h) /\ Ok(p, h, Alu("Add", "t0", base, "t0"), m)
            BY <2>2, <2>4, <3>2, <3>3, <3>5, <3>6 DEF Ok
        <3>8. \A r : Kept(k, l, r) => Kept(m, l, r)
            BY <2>2, <3>3 DEF Kept
        <3>9. Above(p, m, RegOffset("t0", 0)) /\ Fits(0)
            BY <2>4, <3>1, <3>3 DEF Above, RegOffset, Fits
        <3>10. Ok(p, m, last(RegOffset("t0", 0)), l)
            BY <2>4, <2>7, <3>3, <3>8, <3>9
        <3> QED BY <2>6, <2>9, <3>7, <3>10, RunsThree
    <2> QED BY <2>8, <2>9
<1> QED BY <1>1, <1>2

-----------------------------------------------------------------------------
(***************************************************************************)
(* The machine: what is known of the registers is true of them.            *)
(***************************************************************************)
Holds(p, k) ==
    /\ regs["sp"] = SpAt(p, k)
    /\ k.fp = "top" => regs["fp"] = 0
    /\ k.a0 = "address" => regs["a0"] \in Int /\ -p.total <= regs["a0"]
    /\ k.t0 = "known" => regs["t0"] = k.n

(* One register is set. *)
LEMMA SetRegister ==
    ASSUME DOMAIN regs = Regs, NEW r \in Regs, NEW v, regs' = [regs EXCEPT ![r] = v]
    PROVE  /\ DOMAIN regs' = Regs /\ regs'[r] = v
           /\ \A q \in Regs : q # r => regs'[q] = regs[q]
OBVIOUS

(* What is kept still holds when only r has changed. *)
LEMMA KeptHolds ==
    ASSUME NEW p, NEW k, NEW l, NEW r, Kept(k, l, r), Holds(p, k),
           \A q \in Regs : q # r => regs'[q] = regs[q]
    PROVE  /\ r # "sp" => regs'["sp"] = SpAt(p, l)
           /\ r # "fp" => (l.fp = "top" => regs'["fp"] = 0)
           /\ r # "a0" => (l.a0 = "address" => regs'["a0"] \in Int /\ -p.total <= regs'["a0"])
           /\ r # "t0" => (l.t0 = "known" => regs'["t0"] = l.n)
<1>1. "sp" \in Regs /\ "fp" \in Regs /\ "a0" \in Regs /\ "t0" \in Regs
    BY DEF Regs, Work
<1> QED BY <1>1 DEF Kept, Holds, SpAt

(* An address in the frame or above it is not below the stack pointer.     *)
LEMMA AboveHolds ==
    ASSUME NEW p, p.total \in Nat, NEW k \in Facts, Holds(p, k), NEW b, NEW o \in Int,
           Above(p, k, RegOffset(b, o))
    PROVE  regs[b] + o \in Int /\ regs["sp"] <= regs[b] + o /\ -p.total <= regs[b] + o
<1>1. RegOffset(b, o).kind = "RegOffset" /\ RegOffset(b, o).base = b /\ RegOffset(b, o).offset = o
    BY DEF RegOffset
<1>2. regs["sp"] \in Int /\ -p.total <= regs["sp"] /\ k.n \in Int
    BY DEF Holds, SpAt, Facts
<1>3. CASE b = "sp" /\ 0 <= o
    BY <1>2, <1>3
<1>4. CASE k.sp = "frame"
    <2>1. regs["sp"] = -p.total
        BY <1>4 DEF Holds, SpAt
    <2>2. CASE b = "fp" /\ -p.total <= o /\ k.fp = "top"
        <3>1. regs["fp"] = 0
            BY <2>2 DEF Holds
        <3> QED BY <2>1, <2>2, <3>1
    <2>3. CASE b = "t0" /\ -p.total <= k.n + o /\ k.t0 = "known"
        <3>1. regs["t0"] = k.n
            BY <2>3 DEF Holds
        <3> QED BY <1>2, <2>1, <2>3, <3>1
    <2>4. CASE b = "a0" /\ 0 <= o /\ k.a0 = "address"
        <3>1. regs["a0"] \in Int /\ -p.total <= regs["a0"]
            BY <2>4 DEF Holds
        <3> QED BY <2>1, <2>4, <3>1
    <2> QED BY <1>1, <1>3, <2>2, <2>3, <2>4 DEF Above
<1> QED BY <1>1, <1>3, <1>4 DEF Above

(* What an instruction does to the registers and the memory. *)
Sets(r, v) == regs' = [regs EXCEPT ![r] = v] /\ mem' = mem /\ phase' = phase

LEMMA RunEffect ==
    ASSUME Run, NEW i, i = AllInsts[pc]
    PROVE  \/ i.op = "Li" /\ Sets(i.rd, i.imm)
           \/ i.op = "Addi" /\ Sets(i.rd, regs[i.rs] + AsI16(i.imm))
           \/ i.op = "Add" /\ Sets(i.rd, regs[i.rs1] + regs[i.rs2])
           \/ i.op = "Sub" /\ Sets(i.rd, regs[i.rs1] - regs[i.rs2])
           \/ i.op = "Load" /\ Sets(i.rd, Read(regs[i.loc.base] + i.loc.offset))
           \/ /\ i.op = "Store" /\ regs' = regs /\ phase' = phase
              /\ mem' = Written(regs[i.loc.base] + i.loc.offset, regs[i.rs])
           \/ /\ i.op = "Call" /\ phase' = phase
              /\ regs' = [r \in DOMAIN regs |-> IF r \in CallerSaved THEN Garbage ELSE regs[r]]
              /\ mem' = [a \in {x \in DOMAIN mem : x >= regs["sp"] + outgoing} |-> mem[a]]
           \/ i.op = "Ret" /\ phase' = "done" /\ regs' = regs /\ mem' = mem
BY DEF Run, Sets

(* What StoresAboveSp asks of a step from k to l. *)
Guarded(k, l) ==
    /\ \A a \in DOMAIN mem' \ DOMAIN mem : a >= regs["sp"]
    /\ regs'["sp"] > regs["sp"] => k.sp = "frame" /\ l.sp = "left"

LEMMA RegisterStep ==
    ASSUME DOMAIN regs = Regs, NEW p, p.total \in Nat, NEW k \in Facts, NEW l \in Facts,
           Holds(p, k), NEW r \in Regs, NEW v, Sets(r, v), Kept(k, l, r),
           r = "sp" => v = SpAt(p, l),
           r = "fp" => (l.fp = "top" => v = 0),
           r = "a0" => (l.a0 = "address" => v \in Int /\ -p.total <= v),
           r = "t0" => (l.t0 = "known" => v = l.n),
           k.sp # l.sp => l.sp \in {"frame", "left"} /\ (l.sp = "left" => k.sp = "frame")
    PROVE  DOMAIN regs' = Regs /\ Holds(p, l)' /\ Guarded(k, l)
<1>1. /\ DOMAIN regs' = Regs /\ regs'[r] = v /\ mem' = mem
      /\ \A q \in Regs : q # r => regs'[q] = regs[q]
    BY SetRegister DEF Sets
<1>2. /\ r # "sp" => regs'["sp"] = SpAt(p, l)
      /\ r # "fp" => (l.fp = "top" => regs'["fp"] = 0)
      /\ r # "a0" => (l.a0 = "address" => regs'["a0"] \in Int /\ -p.total <= regs'["a0"])
      /\ r # "t0" => (l.t0 = "known" => regs'["t0"] = l.n)
    BY <1>1, KeptHolds
<1>3. /\ regs'["sp"] = SpAt(p, l)
      /\ l.fp = "top" => regs'["fp"] = 0
      /\ l.a0 = "address" => regs'["a0"] \in Int /\ -p.total <= regs'["a0"]
      /\ l.t0 = "known" => regs'["t0"] = l.n
    BY <1>1, <1>2
<1>4. Holds(p, l)'
    BY <1>3 DEF Holds, SpAt
<1>5. regs["sp"] = SpAt(p, k)
    BY DEF Holds
<1>6. regs'["sp"] > regs["sp"] => k.sp = "frame" /\ l.sp = "left"
    BY <1>3, <1>5 DEF SpAt, Facts
<1> QED BY <1>1, <1>4, <1>6 DEF Guarded

(* A step of the machine leads to what is known of the next place.         *)
LEMMA MachineStep ==
    ASSUME DOMAIN regs = Regs, NEW p, p.total \in Nat, NEW k, NEW l, NEW i \in Final,
           i = AllInsts[pc], Ok(p, k, i, l), Holds(p, k), Run
    PROVE  /\ DOMAIN regs' = Regs /\ Holds(p, l)' /\ Guarded(k, l)
           /\ phase' = IF l.sp = "out" THEN "done" ELSE "run"
<1>1. k \in Facts /\ l \in Facts /\ phase = "run"
    BY DEF Ok, Run
<1>2. "sp" \in Regs /\ "fp" \in Regs /\ "a0" \in Regs /\ "t0" \in Regs
    BY DEF Regs, Work
<1>3. k.n \in Int /\ l.n \in Int
    BY <1>1 DEF Facts
<1>4. CASE OkLi(k, i, l) /\ k.sp \in {"entry", "frame"}
    <2>1. i.op = "Li" /\ i.rd \in Regs /\ i.rd # "sp" /\ Kept(k, l, i.rd)
        BY <1>4 DEF OkLi, Final, OtherInst, MemInst
    <2>2. Sets(i.rd, i.imm)
        BY <2>1, RunEffect
    <2>3. k.sp = l.sp
        BY <2>1 DEF Kept
    <2>4. Lost(l, i.rd) \/ (i.rd = "t0" /\ (l.t0 = "known" => l.n = i.imm))
        BY <1>4 DEF OkLi
    <2>5. /\ i.rd = "fp" => l.fp # "top"
          /\ i.rd = "a0" => l.a0 # "address"
          /\ i.rd = "t0" => (l.t0 = "known" => i.imm = l.n)
        BY <2>4 DEF Lost
    <2>6. DOMAIN regs' = Regs /\ Holds(p, l)' /\ Guarded(k, l)
        BY <1>1, <2>1, <2>2, <2>3, <2>5, RegisterStep
    <2> QED BY <1>1, <1>4, <2>2, <2>3, <2>6 DEF Sets
<1>5. CASE OkLoad(p, k, i, l) /\ k.sp \in {"entry", "frame"}
    <2>1. i.op = "Load" /\ i.rd \in Regs /\ Lost(l, i.rd) /\ Kept(k, l, i.rd)
        BY <1>5 DEF OkLoad, Final, OtherInst, MemInst
    <2>2. PICK v : Sets(i.rd, v)
        BY <2>1, RunEffect
    <2>3. k.sp = l.sp /\ i.rd # "sp"
        BY <2>1 DEF Kept, Lost
    <2>5. /\ i.rd = "fp" => l.fp # "top"
          /\ i.rd = "a0" => l.a0 # "address"
          /\ i.rd = "t0" => l.t0 # "known"
        BY <2>1 DEF Lost
    <2>6. DOMAIN regs' = Regs /\ Holds(p, l)' /\ Guarded(k, l)
        BY <1>1, <2>1, <2>2, <2>3, <2>5, RegisterStep
    <2> QED BY <1>1, <1>5, <2>2, <2>3, <2>6 DEF Sets
<1>6. CASE OkStore(p, k, i, l) /\ k.sp \in {"entry", "frame"}
    <2>1. i.op = "Store" /\ Kept(k, l, "none") /\ Above(p, k, i.loc)
        BY <1>6 DEF OkStore
    <2>2. i.loc = RegOffset(i.loc.base, i.loc.offset) /\ i.loc.offset \in Int
        BY <2>1, OtherOps DEF Final, MemInst, Loc, Direct, RegOffset
    <2>3. regs[i.loc.base] + i.loc.offset \in Int /\ regs["sp"] <= regs[i.loc.base] + i.loc.offset
        BY <1>1, <2>1, <2>2, AboveHolds
    <2>4. /\ regs' = regs /\ phase' = phase
          /\ mem' = Written(regs[i.loc.base] + i.loc.offset, regs[i.rs])
        BY <2>1, RunEffect
    <2> DEFINE a == regs[i.loc.base] + i.loc.offset
    <2>5. DOMAIN mem' = DOMAIN mem \cup {a, a + 4}
        BY <2>4 DEF Written
    <2>6. regs["sp"] \in Int
        BY <1>1 DEF Holds, SpAt
    <2>7. \A x \in DOMAIN mem' \ DOMAIN mem : x >= regs["sp"]
        <3>1. a \in Int /\ regs["sp"] <= a
            BY <2>3
        <3> HIDE DEF a
        <3> QED BY <2>5, <2>6, <3>1
    <2>8. \A q \in Regs : q # "none" => regs'[q] = regs[q]
        BY <2>4
    <2>9. /\ regs'["sp"] = SpAt(p, l)
          /\ l.fp = "top" => regs'["fp"] = 0
          /\ l.a0 = "address" => regs'["a0"] \in Int /\ -p.total <= regs'["a0"]
          /\ l.t0 = "known" => regs'["t0"] = l.n
        BY <2>1, <2>8, KeptHolds
    <2>10. Holds(p, l)'
        BY <2>9 DEF Holds, SpAt
    <2>11. l.sp = k.sp
        BY <2>1 DEF Kept
    <2>12. Guarded(k, l)
        BY <2>4, <2>6, <2>7 DEF Guarded
    <2> QED BY <1>1, <1>6, <2>4, <2>10, <2>11, <2>12
<1>7. CASE OkLoadAddr(p, k, i, l) /\ k.sp \in {"entry", "frame"}
    BY <1>7, FinalEncodable DEF OkLoadAddr
<1>8. CASE OkAddi(p, k, i, l) /\ k.sp \in {"entry", "frame"}
    <2>1. i.op = "Addi" /\ i.rd \in Regs /\ i.rs \in Regs /\ i.imm \in Int
        BY <1>8 DEF OkAddi, Final, OtherInst, MemInst
    <2> DEFINE v == regs[i.rs] + AsI16(i.imm)
    <2>2. Sets(i.rd, v)
        BY <2>1, RunEffect
    <2>3. Kept(k, l, i.rd)
        BY <1>8 DEF OkAddi
    <2>4. AsI16(i.imm) \in Int
        BY <2>1 DEF AsI16
    <2>5. regs["sp"] = SpAt(p, k)
        BY DEF Holds
    <2>6. k.sp = "entry" => regs["sp"] = 0
        BY <2>5 DEF SpAt
    <2>7. k.sp = "frame" => regs["sp"] = -p.total
        BY <2>5 DEF SpAt
    <2>8. i.rd = "a0" => Above(p, k, RegOffset(i.rs, AsI16(i.imm)))
        BY <1>8 DEF OkAddi
    <2>9. i.rd = "a0" => v \in Int /\ -p.total <= v
        BY <1>1, <2>4, <2>8, AboveHolds
    <2>10. i.rd = "sp" => /\ v = SpAt(p, l)
                          /\ l.sp \in {"frame", "left"}
                          /\ l.sp = "left" => k.sp = "frame"
        BY <1>8, <2>6, <2>7 DEF OkAddi, SpAt
    <2>11. i.rd = "fp" => v = 0
        BY <1>8, <2>7 DEF OkAddi
    <2>12. i.rd \in {"sp", "fp", "a0"}
        BY <1>8 DEF OkAddi
    <2>13. i.rd # "sp" => k.sp = l.sp
        BY <2>3 DEF Kept
    <2> HIDE DEF v
    <2>14. DOMAIN regs' = Regs /\ Holds(p, l)' /\ Guarded(k, l)
        BY <1>1, <2>1, <2>2, <2>3, <2>9, <2>10, <2>11, <2>12, <2>13, RegisterStep
    <2> QED BY <1>1, <1>8, <2>2, <2>10, <2>13, <2>14 DEF Sets
<1>9. CASE OkAdd(p, k, i, l) /\ k.sp \in {"entry", "frame"}
    <2>1. i.op = "Add" /\ i.rd \in Regs /\ i.rs2 = "t0" /\ k.t0 = "known" /\ k.sp = "frame"
        BY <1>9 DEF OkAdd, Final, OtherInst, MemInst
    <2> DEFINE v == regs[i.rs1] + regs[i.rs2]
    <2>2. Sets(i.rd, v)
        BY <2>1, RunEffect
    <2>3. Kept(k, l, i.rd)
        BY <1>9 DEF OkAdd
    <2>4. regs["sp"] = -p.total /\ regs["t0"] = k.n /\ (k.fp = "top" => regs["fp"] = 0)
        BY <2>1 DEF Holds, SpAt
    <2>5. i.rd = "sp" => v = SpAt(p, l) /\ l.sp = "left"
        BY <1>9, <2>1, <2>4 DEF OkAdd, SpAt
    <2>6. i.rd = "fp" => v = 0
        BY <1>9, <2>1, <2>4 DEF OkAdd
    <2>7. i.rd = "t0" => (l.t0 = "known" => v = l.n)
        BY <1>3, <1>9, <2>1, <2>4 DEF OkAdd
    <2>8. i.rd \in {"sp", "fp", "t0"}
        BY <1>9 DEF OkAdd
    <2>9. i.rd # "sp" => k.sp = l.sp
        BY <2>3 DEF Kept
    <2> HIDE DEF v
    <2>10. DOMAIN regs' = Regs /\ Holds(p, l)' /\ Guarded(k, l)
        BY <1>1, <2>1, <2>2, <2>3, <2>5, <2>6, <2>7, <2>8, <2>9, RegisterStep
    <2> QED BY <1>1, <2>1, <2>2, <2>5, <2>9, <2>10 DEF Sets
<1>10. CASE OkSub(p, k, i, l) /\ k.sp \in {"entry", "frame"}
    <2>1. /\ i.op = "Sub" /\ i.rd = "sp" /\ i.rs1 = "sp" /\ i.rs2 = "t0"
          /\ k.t0 = "known" /\ k.n = p.total
          /\ k.sp = "entry" /\ l.sp = "frame" /\ Kept(k, l, "sp")
        BY <1>10 DEF OkSub
    <2> DEFINE v == regs[i.rs1] - regs[i.rs2]
    <2>2. Sets("sp", v)
        BY <2>1, RunEffect
    <2>3. regs["sp"] = 0 /\ regs["t0"] = k.n
        BY <2>1 DEF Holds, SpAt
    <2>4. v = SpAt(p, l)
        BY <2>1, <2>3 DEF SpAt
    <2> HIDE DEF v
    <2>5. DOMAIN regs' = Regs /\ Holds(p, l)' /\ Guarded(k, l)
        BY <1>1, <1>2, <2>1, <2>2, <2>4, RegisterStep
    <2> QED BY <1>1, <2>1, <2>2, <2>5 DEF Sets
<1>11. CASE OkCall(k, i, l) /\ k.sp \in {"entry", "frame"}
    <2>1. i.op = "Call" /\ Kept(k, l, "none") /\ l.a0 = "any" /\ l.t0 = "any"
        BY <1>11 DEF OkCall
    <2>2. /\ phase' = phase
          /\ regs' = [r \in DOMAIN regs |-> IF r \in CallerSaved THEN Garbage ELSE regs[r]]
          /\ mem' = [a \in {x \in DOMAIN mem : x >= regs["sp"] + outgoing} |-> mem[a]]
        BY <2>1, RunEffect
    <2>3. DOMAIN regs' = Regs /\ regs'["sp"] = regs["sp"] /\ regs'["fp"] = regs["fp"]
        BY <1>2, <2>2 DEF CallerSaved
    <2>4. l.sp = k.sp /\ (l.fp = "top" => k.fp = "top")
        BY <2>1 DEF Kept
    <2>5. Holds(p, l)'
        BY <2>1, <2>3, <2>4 DEF Holds, SpAt
    <2>6. regs["sp"] \in Int
        BY <1>1 DEF Holds, SpAt
    <2>7. DOMAIN mem' \subseteq DOMAIN mem
        BY <2>2
    <2>8. Guarded(k, l)
        BY <2>3, <2>6, <2>7 DEF Guarded
    <2> QED BY <1>1, <1>11, <2>2, <2>3, <2>4, <2>5, <2>8
<1>12. CASE k.sp = "left" /\ i.op = "Ret" /\ l.sp = "out" /\ Kept(k, l, "sp")
    <2>1. phase' = "done" /\ regs' = regs /\ mem' = mem
        BY <1>12, RunEffect
    <2>2. /\ l.fp = "top" => regs'["fp"] = 0
          /\ l.a0 = "address" => regs'["a0"] \in Int /\ -p.total <= regs'["a0"]
          /\ l.t0 = "known" => regs'["t0"] = l.n
        BY <1>12, <2>1, KeptHolds
    <2>3. regs["sp"] = 0 /\ regs'["sp"] = 0
        BY <1>12, <2>1 DEF Holds, SpAt
    <2>4. Holds(p, l)'
        BY <1>12, <2>2, <2>3 DEF Holds, SpAt
    <2>5. Guarded(k, l)
        BY <2>1, <2>3 DEF Guarded
    <2> QED BY <1>12, <2>1, <2>4, <2>5
<1> QED BY <1>4, <1>5, <1>6, <1>7, <1>8, <1>9, <1>10, <1>11, <1>12 DEF Ok

-----------------------------------------------------------------------------
(***************************************************************************)
(* The invariant.  As long as the body grows, its frame has no size yet:   *)
(* Unsized.  What is known of a place does not depend on the size, as no   *)
(* instruction of the body does.                                           *)
(***************************************************************************)
BodyCode == {i \in Code : i.op \in {"Li", "Load", "Store", "LoadAddr", "Call"}}

Unsized == [total |-> 0, storage |-> storage,
            base |-> IF omit_frame_pointer THEN "sp" ELSE "fp"]

(* The body leads to the facts m; a0 is an address if its last instruction *)
(* loads one.                                                              *)
BodyRuns(a) ==
    /\ RunsAll(Unsized, InBody(Unsized, "any"), blocks, InBody(Unsized, a))
    /\ body # <<>> /\ body[Len(body)].op = "LoadAddr" => a = "address"

(* The machine is at a place of which what is known is true.               *)
Traced(ks) ==
    /\ Chain(Known, ks, AllInsts)
    /\ ks[Len(AllInsts) + 1] = Out
    /\ pc \in 1 .. Len(AllInsts)
    /\ Holds(Known, ks[pc])

TraceInv ==
    /\ DOMAIN regs = Regs
    /\ phase \notin {"run", "done"} => pc = 1 /\ regs = Entry
    /\ body \in Seq(Code)
    /\ phase \in {"select", "prologue"} =>
          /\ blocks \in Seq(Seq(BodyCode)) /\ Len(blocks) >= 1
          /\ \E a \in {"any", "address"} : BodyRuns(a)
    /\ phase = "epilogue" =>
          /\ Len(blocks) >= 1
          /\ \E a \in {"any", "address"} : RunsAll(Known, Start, blocks, InBody(Known, a))
    /\ phase = "adjust" => RunsAll(Known, Start, blocks, Out)
    /\ phase = "run" => \E ks : Traced(ks)

LEMMA BodyIsCode == Seq(Seq(BodyCode)) \subseteq Seq(Seq(Code))
<1>1. Seq(BodyCode) \subseteq Seq(Code)
    BY SeqMonotonic DEF BodyCode
<1> QED BY <1>1, SeqMonotonic

(* The facts of the body do not depend on the size of the frame, and more  *)
(* slots do no harm.                                                       *)
LEMMA OkWiden ==
    ASSUME NEW p, NEW q, p.total = 0, q.total \in Nat, p.storage \in Nat, q.storage \in Nat,
           p.storage <= q.storage, p.base = q.base,
           NEW k, NEW l, NEW i \in BodyCode, Ok(p, k, i, l)
    PROVE  Ok(q, k, i, l)
<1>1. ASSUME NEW loc \in Loc, Above(p, k, loc), k \in Facts PROVE Above(q, k, loc)
    <2>1. loc.offset \in Int /\ k.n \in Int
        BY <1>1 DEF Loc, Facts
    <2> QED BY <1>1, <2>1 DEF Above
<1>2. i.op \in {"Load", "Store", "LoadAddr"} => i.loc \in Loc
    BY OtherOps DEF BodyCode, Code, MemInst
<1>3. /\ k \in Facts /\ l \in Facts
      /\ k.sp \in {"entry", "frame"}
      /\ \/ OkLi(k, i, l) \/ OkLoad(p, k, i, l) \/ OkStore(p, k, i, l)
         \/ OkLoadAddr(p, k, i, l) \/ OkCall(k, i, l)
    BY DEF Ok, OkAddi, OkAdd, OkSub, BodyCode
<1>4. CASE OkLi(k, i, l) \/ OkCall(k, i, l)
    BY <1>3, <1>4 DEF Ok
<1>5. CASE OkLoad(p, k, i, l)
    <2>1. OkLoad(q, k, i, l)
        BY <1>1, <1>2, <1>3, <1>5 DEF OkLoad, Symbolic
    <2> QED BY <1>3, <2>1 DEF Ok
<1>6. CASE OkStore(p, k, i, l)
    <2>1. OkStore(q, k, i, l)
        BY <1>1, <1>2, <1>3, <1>6 DEF OkStore, Symbolic
    <2> QED BY <1>3, <2>1 DEF Ok
<1>7. CASE OkLoadAddr(p, k, i, l)
    <2>1. OkLoadAddr(q, k, i, l)
        BY <1>1, <1>2, <1>3, <1>7 DEF OkLoadAddr
    <2> QED BY <1>3, <2>1 DEF Ok
<1> QED BY <1>3, <1>4, <1>5, <1>6, <1>7

LEMMA RunsWiden ==
    ASSUME NEW p, NEW q, p.total = 0, q.total \in Nat, p.storage \in Nat, q.storage \in Nat,
           p.storage <= q.storage, p.base = q.base,
           NEW k, NEW l, NEW s \in Seq(BodyCode), Runs(p, k, s, l)
    PROVE  Runs(q, k, s, l)
<1>1. PICK ks : ks[1] = k /\ ks[Len(s) + 1] = l /\ Chain(p, ks, s)
    BY DEF Runs
<1>2. ASSUME NEW j \in 1 .. Len(s) PROVE Ok(q, ks[j], s[j], ks[j + 1])
    <2>1. Ok(p, ks[j], s[j], ks[j + 1]) /\ s[j] \in BodyCode
        BY <1>1, ElementOfSeq DEF Chain
    <2> QED BY <2>1, OkWiden
<1>3. Chain(q, ks, s)
    BY <1>2 DEF Chain
<1> QED BY <1>1, <1>3, Zenon DEF Runs

LEMMA RunsAllWiden ==
    ASSUME NEW p, NEW q, p.total = 0, q.total \in Nat, p.storage \in Nat, q.storage \in Nat,
           p.storage <= q.storage, p.base = q.base,
           NEW k, NEW l, NEW ss \in Seq(Seq(BodyCode)), RunsAll(p, k, ss, l)
    PROVE  RunsAll(q, k, ss, l)
<1>1. PICK ks : /\ ks[1] = k /\ ks[Len(ss) + 1] = l
                /\ \A b \in 1 .. Len(ss) : Runs(p, ks[b], ss[b], ks[b + 1])
    BY DEF RunsAll
<1>2. ASSUME NEW b \in 1 .. Len(ss) PROVE Runs(q, ks[b], ss[b], ks[b + 1])
    <2>1. Runs(p, ks[b], ss[b], ks[b + 1]) /\ ss[b] \in Seq(BodyCode)
        BY <1>1, ElementOfSeq
    <2> QED BY <2>1, RunsWiden
<1> QED BY <1>1, <1>2, Zenon DEF RunsAll

LEMMA SameBody == \A p, q, a : p.base = q.base => InBody(p, a) = InBody(q, a)
BY DEF InBody

LEMMA KnownSize ==
    ASSUME storage \in Nat, outgoing \in Nat, saved \subseteq Work
    PROVE  /\ Known.total \in Nat /\ Known.storage = storage
           /\ Known.total = Total(Cardinality(saved))
           /\ Known.base = IF omit_frame_pointer THEN "sp" ELSE "fp"
<1>1. Cardinality(saved) \in Nat
    BY WorkFinite, FS_Subset, FS_CardinalityType
<1> QED BY <1>1, TotalHolds DEF Known

-----------------------------------------------------------------------------
LEMMA TraceInit == Init => TraceInv
<1> SUFFICES ASSUME Init PROVE TraceInv
    OBVIOUS
<1>1. /\ blocks = << <<>> >> /\ phase = "select" /\ body = <<>> /\ pc = 1 /\ regs = Entry
    BY DEF Init
<1>2. DOMAIN Entry = Regs
    BY FrameAssumption DEF Num, Regs
<1>3. << <<>> >> \in Seq(Seq(BodyCode)) /\ Len(<< <<>> >>) = 1 /\ <<>> \in Seq(Code)
    OBVIOUS
<1> DEFINE k == InBody(Unsized, "any")
<1>4. RunsAll(Unsized, k, << <<>> >>, k)
    <2> DEFINE ks == [b \in 1 .. 2 |-> k]
               ss == << <<>> >>
    <2>1. ks[1] = k /\ ks[2] = k /\ Len(ss) = 1 /\ ss[1] = <<>>
        OBVIOUS
    <2> HIDE DEF ks, k, ss
    <2>2. \A b \in 1 .. Len(ss) : Runs(Unsized, ks[b], ss[b], ks[b + 1])
        <3> TAKE b \in 1 .. Len(ss)
        <3>1. b = 1 /\ ks[b] = k /\ ks[b + 1] = k /\ ss[b] = <<>>
            BY <2>1
        <3> QED BY <3>1, RunsEmpty
    <2>3. ks[Len(ss) + 1] = k
        BY <2>1
    <2>4. RunsAll(Unsized, k, ss, k)
        BY <2>1, <2>2, <2>3, Zenon DEF RunsAll
    <2> QED BY <2>4 DEF ss
<1>5. BodyRuns("any")
    BY <1>1, <1>4 DEF BodyRuns
<1> QED BY <1>1, <1>2, <1>3, <1>5 DEF TraceInv

(* One instruction is emitted, which leads from a to b. *)
LEMMA TraceEmit ==
    ASSUME IInv, TraceInv, NEW inst \in BodyCode, Emit(inst), NEW b \in {"any", "address"},
           inst.op = "LoadAddr" => b = "address",
           NEW p, p = Unsized,
           \A a \in {"any", "address"} :
              BodyRuns(a) => Ok(p, InBody(p, a), Emitted(inst), InBody(p, b))
    PROVE  TraceInv'
<1> DEFINE n == Len(blocks)
           new == Append(blocks[n], Emitted(inst))
<1>1. /\ phase = "select" /\ phase' = "select"
      /\ blocks' = [blocks EXCEPT ![n] = new] /\ body' = Append(body, inst)
      /\ UNCHANGED <<omit_frame_pointer, storage, pc, regs>>
    BY DEF Emit, machine
<1>2. /\ blocks \in Seq(Seq(BodyCode)) /\ Len(blocks) >= 1 /\ body \in Seq(Code)
      /\ DOMAIN regs = Regs /\ pc = 1 /\ regs = Entry
    BY <1>1 DEF TraceInv
<1>3. PICK a \in {"any", "address"} : BodyRuns(a)
    BY <1>1 DEF TraceInv
<1>4. n \in 1 .. Len(blocks) /\ Len(blocks) \in Nat
    BY <1>2
<1>5. blocks[n] \in Seq(BodyCode)
    BY <1>2, <1>4, ElementOfSeq
<1>6. Emitted(inst) \in BodyCode
    <2>1. inst \in Code /\ inst.op \in {"Li", "Load", "Store", "LoadAddr", "Call"}
        BY DEF BodyCode
    <2>2. Emitted(inst) \in Code
        BY <2>1, EmittedCode
    <2>3. Emitted(inst).op = inst.op
        BY <2>1 DEF Emitted, Code, OtherInst, MemInst
    <2> QED BY <2>1, <2>2, <2>3 DEF BodyCode
<1> HIDE DEF n
<1>7. new \in Seq(BodyCode) /\ new = blocks[n] \o <<Emitted(inst)>>
    BY <1>5, <1>6, AppendProperties, AppendIsConcat
<1>8. \A h : Runs(p, h, blocks[n], InBody(p, a)) => Runs(p, h, new, InBody(p, b))
    <2> TAKE h
    <2> HAVE Runs(p, h, blocks[n], InBody(p, a))
    <2>1. Runs(p, InBody(p, a), <<Emitted(inst)>>, InBody(p, b))
        BY <1>3, RunsOne
    <2>2. <<Emitted(inst)>> \in Seq(BodyCode)
        BY <1>6
    <2>3. Runs(p, h, blocks[n] \o <<Emitted(inst)>>, InBody(p, b))
        BY <1>5, <2>1, <2>2, RunsConcat
    <2> QED BY <1>7, <2>3
<1> HIDE DEF new
<1>9. RunsAll(p, InBody(p, "any"), blocks, InBody(p, a))
    BY <1>3 DEF BodyRuns
<1>10. RunsAll(p, InBody(p, "any"), blocks', InBody(p, b))
    <2>1. \A h : Runs(p, h, blocks[Len(blocks)], InBody(p, a)) => Runs(p, h, new, InBody(p, b))
        BY <1>8 DEF n
    <2>2. blocks' = [blocks EXCEPT ![Len(blocks)] = new]
        BY <1>1 DEF n
    <2>3. PICK s : s = new
        OBVIOUS
    <2>4. /\ s \in Seq(BodyCode) /\ blocks' = [blocks EXCEPT ![Len(blocks)] = s]
          /\ \A h : Runs(p, h, blocks[Len(blocks)], InBody(p, a)) => Runs(p, h, s, InBody(p, b))
        BY <1>7, <2>1, <2>2, <2>3
    <2>5. PICK k, m, l : k = InBody(p, "any") /\ m = InBody(p, a) /\ l = InBody(p, b)
        OBVIOUS
    <2>6. /\ RunsAll(p, k, blocks, m)
          /\ \A h : Runs(p, h, blocks[Len(blocks)], m) => Runs(p, h, s, l)
        BY <1>9, <2>4, <2>5
    <2>7. RunsAll(p, k, blocks', l)
        BY <1>2, <2>4, <2>6, RunsLast
    <2> QED BY <2>5, <2>7
<1>11. blocks' \in Seq(Seq(BodyCode)) /\ Len(blocks') = Len(blocks)
    BY <1>1, <1>2, <1>4, <1>7, BlockSet
<1>12. Unsized' = p
    BY <1>1 DEF Unsized
<1>13. body' \in Seq(Code) /\ body'[Len(body')] = inst
    <2>1. inst \in Code
        BY DEF BodyCode
    <2> QED BY <1>1, <1>2, <2>1, AppendProperties
<1>14. BodyRuns(b)'
    BY <1>10, <1>12, <1>13 DEF BodyRuns
<1> QED BY <1>1, <1>2, <1>11, <1>13, <1>14 DEF TraceInv

-----------------------------------------------------------------------------
(* The instructions of the body lead from one place of it to the next.     *)
LEMMA BodyLi ==
    ASSUME NEW p, p = Unsized, NEW a \in {"any", "address"}, NEW r \in General, NEW d
    PROVE  Ok(p, InBody(p, a), Emitted(Li(r, d)), InBody(p, "any"))
<1>1. r # "sp" /\ r # "t0" /\ (r = "fp" => p.base = "sp")
    BY DEF General, Work, Unsized
<1>2. InBody(p, a) \in Facts /\ InBody(p, "any") \in Facts
    BY FactTypes
<1>3. OkLi(InBody(p, a), Emitted(Li(r, d)), InBody(p, "any"))
    BY <1>1 DEF OkLi, Emitted, Li, InBody, Fact, Kept, Lost
<1>4. InBody(p, a).sp \in {"entry", "frame"}
    BY DEF InBody, Fact
<1> QED BY <1>2, <1>3, <1>4 DEF Ok

LEMMA BodyCall ==
    ASSUME NEW p, NEW a \in {"any", "address"}
    PROVE  Ok(p, InBody(p, a), Emitted(Call), InBody(p, "any"))
<1>1. InBody(p, a) \in Facts /\ InBody(p, "any") \in Facts
    BY FactTypes
<1>2. OkCall(InBody(p, a), Emitted(Call), InBody(p, "any"))
    BY DEF OkCall, Emitted, Call, InBody, Fact, Kept
<1>3. InBody(p, a).sp \in {"entry", "frame"}
    BY DEF InBody, Fact
<1> QED BY <1>1, <1>2, <1>3 DEF Ok

LEMMA BodyAbove ==
    ASSUME IInv, NEW p, p = Unsized, NEW a \in {"any", "address"}, NEW loc \in Locs
    PROVE  Above(p, InBody(p, a), loc)
<1>1. /\ p.storage = storage /\ p.base \in {"sp", "fp"} /\ storage \in Nat /\ outgoing \in Nat
    BY DEF Unsized, IInv, TypeOK
<1>2. InBody(p, a).sp = "frame" /\ (p.base = "sp" \/ InBody(p, a).fp = "top")
    BY DEF InBody, Fact
<1>3. CASE loc \in SlotCells
    <2>1. PICK s \in slots : s.size >= 8 /\ (loc = Slot(s.offset) \/ loc = Slot(s.offset + s.size - 8))
        BY <1>3 DEF SlotCells
    <2>2. s.offset \in Int /\ s.size \in Nat /\ -storage <= s.offset
        BY DEF IInv, SlotsInv
    <2>3. PICK o \in Int : loc = Slot(o) /\ -storage <= o
        <3>1. s.offset + s.size - 8 \in Int /\ -storage <= s.offset + s.size - 8
            BY <1>1, <2>1, <2>2
        <3> QED BY <2>1, <2>2, <3>1
    <2>4. loc.kind = "Slot" /\ loc.offset = o
        BY <2>3 DEF Slot
    <2> QED BY <1>1, <1>2, <2>3, <2>4 DEF Above
<1>4. CASE loc \in InCells
    <2>1. PICK o \in Nat : loc = In(o)
        BY <1>4, FrameAssumption DEF InCells
    <2>2. loc.kind = "Incoming" /\ loc.offset = o
        BY <2>1 DEF In
    <2> QED BY <1>2, <2>2 DEF Above
<1>5. CASE loc \in {RegOffset("sp", o) : o \in {n \in OutOffset : Fits(n)}}
    <2>1. PICK o \in OutOffset : loc = RegOffset("sp", o)
        BY <1>5
    <2>2. PICK i \in 0 .. ((outgoing \div 8) - 1) : o = 8 * i
        BY DEF OutOffset
    <2>3. 0 <= o
        BY <2>2
    <2>4. loc.kind = "RegOffset" /\ loc.base = "sp" /\ loc.offset = o
        BY <2>1 DEF RegOffset
    <2> QED BY <2>3, <2>4 DEF Above
<1> QED BY <1>3, <1>4, <1>5 DEF Locs

(* A load or store of a location, or through the address in a0. *)
LEMMA BodyAccess ==
    ASSUME NEW p, p = Unsized, NEW a \in {"any", "address"}, NEW r \in General, NEW loc,
           Above(p, InBody(p, a), loc)
    PROVE  /\ Ok(p, InBody(p, a), Emitted(Load(r, loc)), InBody(p, "any"))
           /\ Ok(p, InBody(p, a), Emitted(Store(r, loc)), InBody(p, "any"))
           /\ loc.kind # "RegOffset" =>
                 Ok(p, InBody(p, a), Emitted(LoadAddr("a0", loc)), InBody(p, "address"))
<1> DEFINE k == InBody(p, a)
           l == InBody(p, "any")
           m == InBody(p, "address")
<1>1. r # "sp" /\ r # "t0" /\ (r = "fp" => p.base = "sp")
    BY DEF General, Work, Unsized
<1>2. k \in Facts /\ l \in Facts /\ m \in Facts /\ k.sp \in {"entry", "frame"}
    BY FactTypes DEF InBody, Fact
<1>3. Kept(k, l, r) /\ Lost(l, r) /\ Kept(k, l, "none") /\ Kept(k, m, "a0")
    BY <1>1 DEF Kept, Lost, InBody, Fact
<1>4. l.t0 = "any" /\ m.t0 = "any" /\ Above(p, k, loc)
    BY DEF InBody, Fact
<1> HIDE DEF k, l, m
<1>5. /\ Emitted(Load(r, loc)).op = "Load" /\ Emitted(Load(r, loc)).rd = r
      /\ Emitted(Load(r, loc)).loc = loc
    BY DEF Emitted, Load
<1>6. Emitted(Store(r, loc)).op = "Store" /\ Emitted(Store(r, loc)).loc = loc
    BY DEF Emitted, Store
<1>7. /\ Emitted(LoadAddr("a0", loc)).op = "LoadAddr" /\ Emitted(LoadAddr("a0", loc)).rd = "a0"
      /\ Emitted(LoadAddr("a0", loc)).loc = loc
    BY DEF Emitted, LoadAddr
<1>8. OkLoad(p, k, Emitted(Load(r, loc)), l)
    BY <1>3, <1>4, <1>5 DEF OkLoad, Symbolic
<1>9. OkStore(p, k, Emitted(Store(r, loc)), l)
    BY <1>3, <1>4, <1>6 DEF OkStore, Symbolic
<1>10. loc.kind # "RegOffset" => OkLoadAddr(p, k, Emitted(LoadAddr("a0", loc)), m)
    BY <1>3, <1>4, <1>7 DEF OkLoadAddr
<1>11. /\ Ok(p, k, Emitted(Load(r, loc)), l) /\ Ok(p, k, Emitted(Store(r, loc)), l)
       /\ loc.kind # "RegOffset" => Ok(p, k, Emitted(LoadAddr("a0", loc)), m)
    BY <1>2, <1>8, <1>9, <1>10 DEF Ok
<1> QED BY <1>11 DEF k, l, m

LEMMA TraceEmitOther ==
    ASSUME IInv, TraceInv, EmitOther
    PROVE  TraceInv'
<1>1. General \subseteq Regs /\ "a0" \in Regs
    BY DEF General, Regs, Work
<1>2. PICK p : p = Unsized
    OBVIOUS
<1>3. ASSUME NEW r \in General, NEW d \in Data, Emit(Li(r, d)) PROVE TraceInv'
    <2>1. Li(r, d) \in BodyCode /\ Li(r, d).op # "LoadAddr"
        BY <1>1 DEF Li, OtherInst, Code, BodyCode
    <2>2. \A a \in {"any", "address"} :
             Ok(p, InBody(p, a), Emitted(Li(r, d)), InBody(p, "any"))
        BY <1>2, BodyLi
    <2> QED BY <1>2, <1>3, <2>1, <2>2, TraceEmit
<1>4. ASSUME NEW r \in General, NEW loc \in Locs, Emit(Load(r, loc)) \/ Emit(Store(r, loc))
      PROVE  TraceInv'
    <2>1. loc \in Loc /\ (loc.kind = "RegOffset" => Direct(loc)) /\ r \in Regs
        BY <1>1, LocsAreLocations
    <2>2. Load(r, loc) \in Code /\ Store(r, loc) \in Code
        BY <2>1, CodeMem
    <2>3. Load(r, loc).op = "Load" /\ Store(r, loc).op = "Store"
        BY DEF Load, Store
    <2>4. \A a \in {"any", "address"} :
             /\ Ok(p, InBody(p, a), Emitted(Load(r, loc)), InBody(p, "any"))
             /\ Ok(p, InBody(p, a), Emitted(Store(r, loc)), InBody(p, "any"))
        BY <1>2, BodyAbove, BodyAccess
    <2>5. Load(r, loc) \in BodyCode /\ Store(r, loc) \in BodyCode
        BY <2>2, <2>3 DEF BodyCode
    <2>6. CASE Emit(Load(r, loc))
        BY <1>2, <2>3, <2>4, <2>5, <2>6, TraceEmit
    <2>7. CASE Emit(Store(r, loc))
        BY <1>2, <2>3, <2>4, <2>5, <2>7, TraceEmit
    <2> QED BY <1>4, <2>6, <2>7
<1>5. ASSUME NEW loc \in Locs, loc.kind # "RegOffset", Emit(LoadAddr("a0", loc)) PROVE TraceInv'
    <2>1. loc \in Loc /\ (loc.kind = "RegOffset" => Direct(loc))
        BY LocsAreLocations
    <2>2. LoadAddr("a0", loc) \in Code
        BY <1>1, <1>5, <2>1, CodeMem
    <2>3. LoadAddr("a0", loc).op = "LoadAddr"
        BY DEF LoadAddr
    <2>4. "a0" \in General
        BY DEF General, Work
    <2>5. \A a \in {"any", "address"} :
             Ok(p, InBody(p, a), Emitted(LoadAddr("a0", loc)), InBody(p, "address"))
        BY <1>2, <1>5, <2>4, BodyAbove, BodyAccess
    <2>6. LoadAddr("a0", loc) \in BodyCode
        BY <2>2, <2>3 DEF BodyCode
    <2> QED BY <1>2, <1>5, <2>5, <2>6, TraceEmit
<1>6. ASSUME body # <<>>, body[Len(body)].op = "LoadAddr", NEW r \in General,
             Emit(Load(r, RegOffset("a0", 0))) \/ Emit(Store(r, RegOffset("a0", 0)))
      PROVE  TraceInv'
    <2> DEFINE loc == RegOffset("a0", 0)
    <2>1. Fits(0) /\ r \in Regs
        BY <1>1 DEF Fits
    <2>2. Load(r, loc) \in Code /\ Store(r, loc) \in Code
        <3>1. Load(r, loc) \in Final /\ Store(r, loc) \in Final
            BY <1>1, <2>1, FinalMem
        <3> QED BY <3>1, FinalIsCode
    <2>3. Load(r, loc).op = "Load" /\ Store(r, loc).op = "Store"
        BY DEF Load, Store
    <2>4. \A a \in {"any", "address"} : BodyRuns(a) => Above(p, InBody(p, a), loc)
        <3> TAKE a \in {"any", "address"}
        <3> HAVE BodyRuns(a)
        <3>1. a = "address"
            BY <1>6 DEF BodyRuns
        <3> QED BY <3>1 DEF Above, RegOffset, InBody, Fact
    <2> HIDE DEF loc
    <2>5. \A a \in {"any", "address"} : BodyRuns(a) =>
             /\ Ok(p, InBody(p, a), Emitted(Load(r, loc)), InBody(p, "any"))
             /\ Ok(p, InBody(p, a), Emitted(Store(r, loc)), InBody(p, "any"))
        BY <1>2, <2>4, BodyAccess
    <2>6. Load(r, loc) \in BodyCode /\ Store(r, loc) \in BodyCode
        BY <2>2, <2>3 DEF BodyCode
    <2>7. CASE Emit(Load(r, loc))
        BY <1>2, <2>3, <2>5, <2>6, <2>7, TraceEmit
    <2>8. CASE Emit(Store(r, loc))
        BY <1>2, <2>3, <2>5, <2>6, <2>8, TraceEmit
    <2> QED BY <1>6, <2>7, <2>8 DEF loc
<1> QED BY <1>3, <1>4, <1>5, <1>6 DEF EmitOther

LEMMA TraceEmitCall ==
    ASSUME IInv, TraceInv, Emit(Call)
    PROVE  TraceInv'
<1>1. PICK p : p = Unsized
    OBVIOUS
<1>2. Call \in BodyCode /\ Call.op # "LoadAddr"
    BY DEF Call, OtherInst, Code, BodyCode
<1>3. \A a \in {"any", "address"} : Ok(p, InBody(p, a), Emitted(Call), InBody(p, "any"))
    BY BodyCall
<1> QED BY <1>1, <1>2, <1>3, TraceEmit

(* A slot more, or a block. *)
LEMMA TraceAllocSlot ==
    ASSUME IInv, TraceInv, NEW size \in SlotSizes, AllocSlot(size)
    PROVE  TraceInv'
<1>1. /\ phase = "select" /\ phase' = "select" /\ storage' = storage + size
      /\ UNCHANGED <<omit_frame_pointer, blocks, body, pc, regs>>
    BY DEF AllocSlot, machine
<1>2. storage \in Nat /\ storage' \in Nat /\ storage <= storage'
    BY <1>1, FrameAssumption DEF IInv, TypeOK
<1>3. /\ blocks \in Seq(Seq(BodyCode)) /\ Len(blocks) >= 1 /\ body \in Seq(Code)
      /\ DOMAIN regs = Regs /\ pc = 1 /\ regs = Entry
    BY <1>1 DEF TraceInv
<1>4. PICK a \in {"any", "address"} : BodyRuns(a)
    BY <1>1 DEF TraceInv
<1>5. PICK p, q : p = Unsized /\ q = Unsized'
    OBVIOUS
<1>6. /\ p.total = 0 /\ q.total = 0 /\ p.storage = storage /\ q.storage = storage'
      /\ p.base = q.base
    BY <1>1, <1>5 DEF Unsized
<1>7. InBody(q, "any") = InBody(p, "any") /\ InBody(q, a) = InBody(p, a)
    BY <1>6, SameBody
<1>8. RunsAll(p, InBody(p, "any"), blocks, InBody(p, a))
    BY <1>4, <1>5 DEF BodyRuns
<1>9. RunsAll(q, InBody(p, "any"), blocks, InBody(p, a))
    <2>1. q.total \in Nat /\ p.storage \in Nat /\ q.storage \in Nat /\ p.storage <= q.storage
        BY <1>2, <1>6
    <2> QED BY <1>3, <1>6, <1>8, <2>1, RunsAllWiden
<1>10. BodyRuns(a)'
    BY <1>1, <1>4, <1>5, <1>7, <1>9 DEF BodyRuns
<1> QED BY <1>1, <1>3, <1>10 DEF TraceInv

LEMMA TraceNewBlock ==
    ASSUME TraceInv, NewBlock
    PROVE  TraceInv'
<1>1. /\ phase = "select" /\ phase' = "select" /\ blocks' = Append(blocks, <<>>)
      /\ UNCHANGED <<omit_frame_pointer, storage, body, pc, regs>>
    BY DEF NewBlock, machine, frame
<1>2. /\ blocks \in Seq(Seq(BodyCode)) /\ Len(blocks) >= 1 /\ body \in Seq(Code)
      /\ DOMAIN regs = Regs /\ pc = 1 /\ regs = Entry
    BY <1>1 DEF TraceInv
<1>3. PICK a \in {"any", "address"} : BodyRuns(a)
    BY <1>1 DEF TraceInv
<1>4. blocks' \in Seq(Seq(BodyCode)) /\ Len(blocks') >= 1
    <2> DEFINE B == Seq(BodyCode)
    <2>1. <<>> \in B
        OBVIOUS
    <2> HIDE DEF B
    <2>2. blocks \in Seq(B)
        BY <1>2 DEF B
    <2>3. blocks' \in Seq(B) /\ Len(blocks') = Len(blocks) + 1
        BY <1>1, <2>1, <2>2, AppendProperties
    <2> QED BY <1>2, <2>2, <2>3 DEF B
<1>5. Unsized' = Unsized
    BY <1>1 DEF Unsized
<1>6. RunsAll(Unsized, InBody(Unsized, "any"), blocks, InBody(Unsized, a))
    BY <1>3 DEF BodyRuns
<1>7. RunsAll(Unsized, InBody(Unsized, "any"), blocks', InBody(Unsized, a))
    BY <1>1, <1>2, <1>6, RunsMore
<1>8. BodyRuns(a)'
    BY <1>1, <1>3, <1>5, <1>7 DEF BodyRuns
<1> QED BY <1>1, <1>2, <1>4, <1>8 DEF TraceInv

-----------------------------------------------------------------------------
(* The frame gets its size, and the prologue and the epilogue their code.  *)
LEMMA TraceLower ==
    ASSUME TraceInv, Lower
    PROVE  TraceInv'
<1>1. /\ phase = "select" /\ phase' = "prologue"
      /\ UNCHANGED <<omit_frame_pointer, storage, blocks, body, pc, regs>>
    BY DEF Lower, machine, frame
<1>2. /\ blocks \in Seq(Seq(BodyCode)) /\ Len(blocks) >= 1 /\ body \in Seq(Code)
      /\ DOMAIN regs = Regs /\ pc = 1 /\ regs = Entry
    BY <1>1 DEF TraceInv
<1>3. PICK a \in {"any", "address"} : BodyRuns(a)
    BY <1>1 DEF TraceInv
<1>4. Unsized' = Unsized
    BY <1>1 DEF Unsized
<1>5. BodyRuns(a)'
    BY <1>1, <1>3, <1>4 DEF BodyRuns
<1> QED BY <1>1, <1>2, <1>5 DEF TraceInv

LEMMA TracePrologue ==
    ASSUME IInv, TraceInv, GenPrologue
    PROVE  TraceInv'
<1>1. /\ phase = "prologue" /\ phase' = "epilogue" /\ saved' = ToSave
      /\ blocks' = [blocks EXCEPT ![1] = PrologueCode(ToSave) \o blocks[1]]
      /\ UNCHANGED <<omit_frame_pointer, storage, outgoing, body, pc, regs>>
    BY DEF GenPrologue, machine
<1>2. /\ blocks \in Seq(Seq(BodyCode)) /\ Len(blocks) >= 1 /\ body \in Seq(Code)
      /\ DOMAIN regs = Regs /\ pc = 1 /\ regs = Entry
    BY <1>1 DEF TraceInv
<1>3. PICK a \in {"any", "address"} : BodyRuns(a)
    BY <1>1 DEF TraceInv
<1>4. storage \in Nat /\ outgoing \in Nat /\ ToSave \subseteq Work
    BY DEF IInv, TypeOK, ToSave, Work
<1>5. PICK p, q : p = Unsized /\ q = Known'
    OBVIOUS
<1>6. /\ p.total = 0 /\ p.storage = storage /\ q.storage = storage /\ p.base = q.base
      /\ q.base = IF omit_frame_pointer THEN "sp" ELSE "fp"
      /\ q.total = Total(Cardinality(ToSave))
    BY <1>1, <1>5 DEF Unsized, Known, Total
<1>7. q.total \in Nat
    <2>1. Cardinality(ToSave) \in Nat
        BY <1>4, WorkFinite, FS_Subset, FS_CardinalityType
    <2> QED BY <1>4, <1>6, <2>1, TotalHolds
<1>8. InBody(q, "any") = InBody(p, "any") /\ InBody(q, a) = InBody(p, a)
    BY <1>6, SameBody
<1>9. PICK k, m : k = InBody(q, "any") /\ m = InBody(q, a)
    OBVIOUS
<1>10. RunsAll(q, k, blocks, m)
    <2>1. RunsAll(p, k, blocks, m)
        BY <1>3, <1>5, <1>8, <1>9 DEF BodyRuns
    <2>2. p.storage \in Nat /\ q.storage \in Nat /\ p.storage <= q.storage
        BY <1>4, <1>6
    <2> QED BY <1>2, <1>6, <1>7, <2>1, <2>2, RunsAllWiden
<1>11. PICK c : c = PrologueCode(ToSave)
    OBVIOUS
<1>12. c \in Seq(Code) /\ Runs(q, Start, c, k)
    <2>1. c \in Seq(Final)
        BY <1>4, <1>11, PrologueFinal
    <2>2. Runs(q, Start, c, k)
        BY <1>4, <1>6, <1>9, <1>11, PrologueRuns
    <2> QED BY <2>1, <2>2, FinalIsCode, SeqMonotonic
<1>13. blocks \in Seq(Seq(Code)) /\ 1 \in 1 .. Len(blocks) /\ blocks[1] \in Seq(Code)
    <2>1. blocks \in Seq(Seq(Code))
        BY <1>2, BodyIsCode
    <2>2. 1 \in 1 .. Len(blocks)
        BY <1>2
    <2> QED BY <2>1, <2>2, ElementOfSeq
<1>14. PICK s : s = c \o blocks[1]
    OBVIOUS
<1>15. s \in Seq(Code) /\ blocks' = [blocks EXCEPT ![1] = s]
    BY <1>1, <1>11, <1>12, <1>13, <1>14, ConcatProperties
<1>16. \A h : Runs(q, k, blocks[1], h) => Runs(q, Start, s, h)
    <2> TAKE h
    <2> HAVE Runs(q, k, blocks[1], h)
    <2>1. Runs(q, Start, c \o blocks[1], h)
        BY <1>12, <1>13, RunsConcat
    <2> QED BY <1>14, <2>1
<1>17. RunsAll(q, Start, blocks', m)
    BY <1>2, <1>10, <1>13, <1>15, <1>16, RunsFirst
<1>18. Len(blocks') = Len(blocks)
    BY <1>13, <1>15, BlockSet
<1>19. (\E b \in {"any", "address"} : RunsAll(Known, Start, blocks, InBody(Known, b)))'
    BY <1>5, <1>9, <1>17
<1> QED BY <1>1, <1>2, <1>18, <1>19 DEF TraceInv

LEMMA TraceEpilogue ==
    ASSUME IInv, CodeInv, TraceInv, GenEpilogue
    PROVE  TraceInv'
<1>1. /\ phase = "epilogue" /\ phase' = "adjust"
      /\ blocks' = [blocks EXCEPT ![Len(blocks)] = blocks[Len(blocks)] \o EpilogueCode]
      /\ UNCHANGED <<omit_frame_pointer, storage, outgoing, saved, body, pc, regs>>
    BY DEF GenEpilogue, machine, frame
<1>2. /\ Len(blocks) >= 1 /\ body \in Seq(Code) /\ DOMAIN regs = Regs /\ pc = 1 /\ regs = Entry
    BY <1>1 DEF TraceInv
<1>3. PICK a \in {"any", "address"} : RunsAll(Known, Start, blocks, InBody(Known, a))
    BY <1>1 DEF TraceInv
<1>4. storage \in Nat /\ outgoing \in Nat /\ saved \subseteq Work
    BY DEF IInv, TypeOK
<1>5. PICK p : p = Known
    OBVIOUS
<1>6. Known' = p /\ p.total = Total(Cardinality(saved))
    BY <1>1, <1>5 DEF Known, Total
<1>7. PICK k, c : k = InBody(p, a) /\ c = EpilogueCode
    OBVIOUS
<1>8. RunsAll(p, Start, blocks, k)
    BY <1>3, <1>5, <1>7
<1>9. c \in Seq(Code) /\ Runs(p, k, c, Out)
    <2>1. c \in Seq(Final)
        BY <1>4, <1>7, EpilogueFinal
    <2>2. Runs(p, k, c, Out)
        BY <1>4, <1>6, <1>7, EpilogueRuns
    <2> QED BY <2>1, <2>2, FinalIsCode, SeqMonotonic
<1>10. blocks \in Seq(Seq(Code)) /\ Len(blocks) \in 1 .. Len(blocks) /\ blocks[Len(blocks)] \in Seq(Code)
    <2>1. blocks \in Seq(Seq(Code)) /\ Len(blocks) \in 1 .. Len(blocks)
        BY <1>2 DEF CodeInv
    <2> QED BY <2>1, ElementOfSeq
<1>11. PICK s : s = blocks[Len(blocks)] \o c
    OBVIOUS
<1>12. s \in Seq(Code) /\ blocks' = [blocks EXCEPT ![Len(blocks)] = s]
    BY <1>1, <1>7, <1>9, <1>10, <1>11, ConcatProperties
<1>13. \A h : Runs(p, h, blocks[Len(blocks)], k) => Runs(p, h, s, Out)
    <2> TAKE h
    <2> HAVE Runs(p, h, blocks[Len(blocks)], k)
    <2>1. Runs(p, h, blocks[Len(blocks)] \o c, Out)
        BY <1>9, <1>10, RunsConcat
    <2> QED BY <1>11, <2>1
<1>14. RunsAll(p, Start, blocks', Out)
    BY <1>2, <1>8, <1>10, <1>12, <1>13, RunsLast
<1>15. RunsAll(Known, Start, blocks, Out)'
    BY <1>6, <1>14
<1> QED BY <1>1, <1>2, <1>15 DEF TraceInv

(* The code that replaces an instruction leads where the instruction did.  *)
LEMMA RunsSingle ==
    ASSUME NEW p, NEW k, NEW i, NEW l, Runs(p, k, <<i>>, l)
    PROVE  Ok(p, k, i, l)
<1> DEFINE s == <<i>>
<1>1. Len(s) = 1 /\ s[1] = i
    OBVIOUS
<1> HIDE DEF s
<1>2. PICK ks : ks[1] = k /\ ks[Len(s) + 1] = l /\ Chain(p, ks, s)
    BY DEF Runs, s
<1>3. Ok(p, ks[1], s[1], ks[1 + 1])
    BY <1>1, <1>2 DEF Chain
<1> QED BY <1>1, <1>2, <1>3

LEMMA SplitAt ==
    ASSUME NEW S, NEW s \in Seq(S), NEW i \in 1 .. Len(s)
    PROVE  /\ SubSeq(s, 1, i - 1) \in Seq(S) /\ SubSeq(s, i + 1, Len(s)) \in Seq(S)
           /\ s = (SubSeq(s, 1, i - 1) \o <<s[i]>>) \o SubSeq(s, i + 1, Len(s))
<1> DEFINE x == SubSeq(s, 1, i - 1)
           y == SubSeq(s, i + 1, Len(s))
<1>1. Len(s) \in Nat /\ i - 1 \in 0 .. Len(s) /\ i + 1 \in 1 .. (Len(s) + 1)
    OBVIOUS
<1>2. /\ x \in Seq(S) /\ Len(x) = i - 1
      /\ \A j \in 1 .. (i - 1) : x[j] = s[j]
    BY <1>1
<1>3. /\ y \in Seq(S) /\ Len(y) = Len(s) - i
      /\ \A j \in 1 .. (Len(s) - i) : y[j] = s[i + j]
    BY <1>1
<1>4. s[i] \in S /\ <<s[i]>> \in Seq(S) /\ Len(<<s[i]>>) = 1 /\ <<s[i]>>[1] = s[i]
    OBVIOUS
<1> HIDE DEF x, y
<1> DEFINE w == x \o <<s[i]>>
<1>5. /\ w \in Seq(S) /\ Len(w) = i
      /\ \A j \in 1 .. i : w[j] = s[j]
    BY <1>2, <1>4, ConcatProperties
<1> HIDE DEF w
<1>6. /\ w \o y \in Seq(S) /\ Len(w \o y) = Len(s)
      /\ \A j \in 1 .. Len(s) : (w \o y)[j] = s[j]
    <2>1. w \in Seq(S) /\ y \in Seq(S)
        BY <1>3, <1>5
    <2>2. /\ w \o y \in Seq(S) /\ Len(w \o y) = Len(w) + Len(y)
          /\ \A j \in 1 .. (Len(w) + Len(y)) :
                (w \o y)[j] = IF j <= Len(w) THEN w[j] ELSE y[j - Len(w)]
        BY <2>1, ConcatProperties
    <2>3. i \in Nat /\ i + (Len(s) - i) = Len(s) /\ i <= Len(s)
        BY <1>1
    <2>4. Len(w \o y) = Len(s)
        BY <1>3, <1>5, <2>2, <2>3
    <2>5. ASSUME NEW j \in 1 .. Len(s) PROVE (w \o y)[j] = s[j]
        <3>1. (w \o y)[j] = IF j <= i THEN w[j] ELSE y[j - i]
            BY <1>3, <1>5, <2>2, <2>3
        <3>2. CASE j <= i
            BY <1>5, <3>1, <3>2
        <3>3. CASE j > i
            <4>1. j - i \in 1 .. (Len(s) - i) /\ i + (j - i) = j
                BY <1>1, <2>3, <3>3
            <4>2. y[j - i] = s[i + (j - i)]
                BY <1>3, <4>1
            <4> QED BY <2>3, <3>1, <3>3, <4>1, <4>2
        <3>4. j \in Int /\ i \in Int
            BY <1>1, <2>3
        <3>5. j <= i \/ j > i
            BY <3>4
        <3> QED BY <3>2, <3>3, <3>5
    <2> QED BY <2>2, <2>4, <2>5
<1>7. w \o y = s
    BY <1>6, SeqEqual
<1> QED BY <1>2, <1>3, <1>7 DEF w, x, y

LEMMA TraceAdjust ==
    ASSUME IInv, CodeInv, TraceInv, AdjustInst
    PROVE  TraceInv'
<1>1. PICK b, i : b = at[1] /\ i = at[2]
    OBVIOUS
<1>2. PICK s, t : s = blocks[b] /\ t = Adjusted(s[i])
    OBVIOUS
<1>3. /\ phase = "adjust" /\ phase' = "adjust" /\ i <= Len(s)
      /\ blocks' = [blocks EXCEPT ![b] = SubSeq(s, 1, i - 1) \o t \o SubSeq(s, i + 1, Len(s))]
      /\ UNCHANGED <<omit_frame_pointer, storage, outgoing, saved, body, pc, regs>>
    BY <1>1, <1>2 DEF AdjustInst, machine, frame
<1>4. /\ body \in Seq(Code) /\ DOMAIN regs = Regs /\ pc = 1 /\ regs = Entry
      /\ RunsAll(Known, Start, blocks, Out)
    BY <1>3 DEF TraceInv
<1>5. blocks \in Seq(Seq(Code)) /\ b \in 1 .. Len(blocks) /\ i \in Nat \ {0}
    BY <1>1 DEF CodeInv
<1>6. s \in Seq(Code)
    BY <1>2, <1>5, ElementOfSeq
<1>7. i \in 1 .. Len(s)
    BY <1>3, <1>5, <1>6
<1>8. s[i] \in Code /\ <<s[i]>> \in Seq(Code)
    BY <1>6, <1>7, ElementOfSeq
<1>9. storage \in Nat /\ outgoing \in Nat /\ saved \subseteq Work
    BY DEF IInv, TypeOK
<1>10. t \in Seq(Code)
    <2>1. t \in Seq(Final)
        BY <1>2, <1>8, <1>9, AdjustedFinal
    <2> QED BY <2>1, FinalIsCode, SeqMonotonic
<1>11. PICK p : p = Known
    OBVIOUS
<1>12. Known' = p
    BY <1>3, <1>11 DEF Known, Total
<1>13. PICK x, y, j : x = SubSeq(s, 1, i - 1) /\ y = SubSeq(s, i + 1, Len(s)) /\ j = s[i]
    OBVIOUS
<1>14. x \in Seq(Code) /\ y \in Seq(Code) /\ s = (x \o <<j>>) \o y
    BY <1>6, <1>7, <1>13, SplitAt
<1>15. /\ x \o <<j>> \in Seq(Code) /\ x \o t \in Seq(Code) /\ (x \o t) \o y \in Seq(Code)
    <2>1. <<j>> \in Seq(Code)
        BY <1>8, <1>13
    <2>2. x \o <<j>> \in Seq(Code) /\ x \o t \in Seq(Code)
        BY <1>10, <1>14, <2>1, ConcatProperties
    <2> QED BY <1>14, <2>2, ConcatProperties
<1>16. ASSUME NEW h, NEW m, Runs(p, h, s, m) PROVE Runs(p, h, (x \o t) \o y, m)
    <2>1. Runs(p, h, (x \o <<j>>) \o y, m)
        BY <1>14, <1>16
    <2>2. PICK g : Runs(p, h, x \o <<j>>, g) /\ Runs(p, g, y, m)
        BY <1>14, <1>15, <2>1, RunsApart
    <2>3. <<j>> \in Seq(Code)
        BY <1>8, <1>13
    <2>4. PICK f : Runs(p, h, x, f) /\ Runs(p, f, <<j>>, g)
        BY <1>14, <2>2, <2>3, RunsApart
    <2>5. Ok(p, f, j, g)
        BY <2>4, RunsSingle
    <2>6. Runs(p, f, Adjusted(j), g)
        BY <1>8, <1>9, <1>11, <1>13, <2>5, AdjustedRuns
    <2>7. Runs(p, f, t, g)
        BY <1>2, <1>13, <2>6
    <2>8. Runs(p, h, x \o t, g)
        BY <1>10, <1>14, <2>4, <2>7, RunsConcat
    <2> QED BY <1>14, <1>15, <2>2, <2>8, RunsConcat
<1>17. PICK z : z = (x \o t) \o y
    OBVIOUS
<1>18. /\ z \in Seq(Code) /\ blocks' = [blocks EXCEPT ![b] = z]
       /\ \A h, m : Runs(p, h, blocks[b], m) => Runs(p, h, z, m)
    BY <1>2, <1>3, <1>13, <1>15, <1>16, <1>17
<1>19. RunsAll(p, Start, blocks, Out)
    BY <1>4, <1>11
<1>20. RunsAll(p, Start, blocks', Out)
    BY <1>5, <1>18, <1>19, RunsBlock
<1>21. RunsAll(Known, Start, blocks, Out)'
    BY <1>12, <1>20
<1> QED BY <1>3, <1>4, <1>21 DEF TraceInv

(* The code is complete: the machine starts at its first place.            *)
LEMMA TraceNextBlock ==
    ASSUME IInv, CodeInv, TraceInv, AdjustNextBlock
    PROVE  TraceInv'
<1>1. /\ phase = "adjust" /\ phase' \in {"adjust", "run"}
      /\ UNCHANGED <<omit_frame_pointer, storage, outgoing, saved, blocks, body, pc, regs>>
    BY DEF AdjustNextBlock, machine, frame
<1>2. /\ body \in Seq(Code) /\ DOMAIN regs = Regs /\ pc = 1 /\ regs = Entry
      /\ RunsAll(Known, Start, blocks, Out)
    BY <1>1 DEF TraceInv
<1>3. blocks \in Seq(Seq(Code))
    BY DEF CodeInv
<1>4. PICK p : p = Known
    OBVIOUS
<1>5. Known' = p /\ AllInsts' = AllInsts
    BY <1>1, <1>4 DEF Known, Total, AllInsts
<1>6. RunsAll(p, Start, blocks, Out)
    BY <1>2, <1>4
<1>7. AllInsts \in Seq(Code) /\ Runs(p, Start, AllInsts, Out)
    BY <1>3, <1>6, FlattenType, RunsFlat DEF AllInsts
<1>8. PICK ks : ks[1] = Start /\ ks[Len(AllInsts) + 1] = Out /\ Chain(p, ks, AllInsts)
    BY <1>7 DEF Runs
<1>9. pc \in 1 .. Len(AllInsts)
    <2>1. Start # Out
        BY DEF Start, Out, Fact
    <2>2. Len(AllInsts) \in Nat
        BY <1>7
    <2>3. Len(AllInsts) # 0
        BY <1>8, <2>1
    <2> QED BY <1>2, <2>2, <2>3
<1>10. Holds(p, ks[pc])
    <2>1. regs["sp"] = 0
        BY <1>2, FrameAssumption
    <2> QED BY <1>2, <1>8, <2>1 DEF Holds, SpAt, Start, Fact
<1>11. RunsAll(Known, Start, blocks, Out)'
    BY <1>1, <1>5, <1>6
<1>12. Traced(ks)'
    <2>1. pc' = pc /\ regs' = regs
        BY <1>1
    <2>2. Holds(p, ks[pc])'
        BY <1>10, <2>1 DEF Holds, SpAt
    <2>3. Chain(p, ks, AllInsts')
        BY <1>5, <1>8
    <2>4. pc' \in 1 .. Len(AllInsts') /\ ks[Len(AllInsts') + 1] = Out
        BY <1>5, <1>8, <1>9, <2>1
    <2> QED BY <1>5, <2>2, <2>3, <2>4 DEF Traced
<1> QED BY <1>1, <1>2, <1>11, <1>12 DEF TraceInv

(* A step of the code. *)
LEMMA TracedStep ==
    ASSUME IInv, CodeInv, TraceInv, Run, NEW ks, Traced(ks)
    PROVE  /\ DOMAIN regs' = Regs
           /\ phase' = "done" \/ (phase' = "run" /\ Traced(ks)')
           /\ \A a \in DOMAIN mem' \ DOMAIN mem : a >= regs["sp"]
           /\ regs'["sp"] > regs["sp"] => phase' = "run" /\ AllInsts[pc + 1].op = "Ret"
<1>1. /\ phase = "run" /\ pc' = pc + 1
      /\ UNCHANGED <<omit_frame_pointer, storage, outgoing, saved, blocks>>
    BY DEF Run, frame
<1>2. PICK p : p = Known
    OBVIOUS
<1>3. Known' = p /\ AllInsts' = AllInsts
    BY <1>1, <1>2 DEF Known, Total, AllInsts
<1>4. /\ Chain(p, ks, AllInsts) /\ ks[Len(AllInsts) + 1] = Out
      /\ pc \in 1 .. Len(AllInsts) /\ Holds(p, ks[pc])
    BY <1>2 DEF Traced
<1>5. PICK k, l, i, j : k = ks[pc] /\ l = ks[pc + 1] /\ i = AllInsts[pc] /\ j = AllInsts[pc + 1]
    OBVIOUS
<1>6. AllInsts \in Seq(Final)
    <2>1. blocks \in Seq(Seq(Final))
        BY <1>1 DEF CodeInv
    <2> QED BY <2>1, FlattenType DEF AllInsts
<1>7. i \in Final /\ p.total \in Nat /\ DOMAIN regs = Regs
    <2>1. AllInsts[pc] \in Final
        BY <1>4, <1>6, ElementOfSeq
    <2>2. p.total \in Nat
        BY <1>2, KnownSize DEF IInv, TypeOK
    <2> QED BY <1>5, <2>1, <2>2 DEF TraceInv
<1>8. Ok(p, k, i, l) /\ Holds(p, k)
    BY <1>4, <1>5 DEF Chain
<1>9. /\ DOMAIN regs' = Regs /\ Holds(p, l)' /\ Guarded(k, l)
      /\ phase' = IF l.sp = "out" THEN "done" ELSE "run"
    BY <1>5, <1>7, <1>8, MachineStep
<1>10. l.sp # "out" => pc + 1 \in 1 .. Len(AllInsts)
    <2>1. Len(AllInsts) \in Nat /\ Out.sp = "out"
        BY <1>6 DEF Out, Fact
    <2>2. CASE pc = Len(AllInsts)
        BY <1>4, <1>5, <2>1, <2>2
    <2>3. CASE pc # Len(AllInsts)
        BY <1>4, <2>1, <2>3
    <2> QED BY <2>2, <2>3
<1>11. l.sp # "out" => Traced(ks)'
    <2> HAVE l.sp # "out"
    <2>1. pc' \in 1 .. Len(AllInsts')
        BY <1>1, <1>3, <1>10
    <2>2. ks[pc'] = l
        BY <1>1, <1>5
    <2>3. Holds(p, ks[pc])'
        BY <1>9, <2>2 DEF Holds, SpAt
    <2>4. Chain(p, ks, AllInsts') /\ ks[Len(AllInsts') + 1] = Out
        BY <1>3, <1>4
    <2> QED BY <1>3, <2>1, <2>3, <2>4 DEF Traced
<1>12. l.sp = "left" => phase' = "run" /\ j.op = "Ret"
    <2> HAVE l.sp = "left"
    <2>1. pc + 1 \in 1 .. Len(AllInsts) /\ phase' = "run"
        BY <1>9, <1>10
    <2>2. Ok(p, ks[pc + 1], AllInsts[pc + 1], ks[(pc + 1) + 1])
        BY <1>4, <2>1 DEF Chain
    <2>3. Ok(p, l, j, ks[(pc + 1) + 1])
        BY <1>5, <2>2
    <2> QED BY <2>1, <2>3 DEF Ok
<1>13. /\ \A a \in DOMAIN mem' \ DOMAIN mem : a >= regs["sp"]
       /\ regs'["sp"] > regs["sp"] => l.sp = "left"
    BY <1>9 DEF Guarded
<1> QED BY <1>5, <1>9, <1>11, <1>12, <1>13

LEMMA TraceNext == IInv /\ CodeInv /\ TraceInv /\ [Next]_vars => TraceInv'
<1> SUFFICES ASSUME IInv, CodeInv, TraceInv, [Next]_vars PROVE TraceInv'
    OBVIOUS
<1>1. ASSUME NEW size \in SlotSizes, AllocSlot(size) PROVE TraceInv'
    BY <1>1, TraceAllocSlot
<1>2. ASSUME NEW size \in ArgSizes, EmitCall(size) PROVE TraceInv'
    BY <1>2, TraceEmitCall DEF EmitCall
<1>3. CASE EmitOther
    BY <1>3, TraceEmitOther
<1>4. CASE NewBlock
    BY <1>4, TraceNewBlock
<1>5. CASE Lower
    BY <1>5, TraceLower
<1>6. CASE GenPrologue
    BY <1>6, TracePrologue
<1>7. CASE GenEpilogue
    BY <1>7, TraceEpilogue
<1>8. CASE AdjustInst
    BY <1>8, TraceAdjust
<1>9. CASE AdjustNextBlock
    BY <1>9, TraceNextBlock
<1>10. CASE Run
    <2>1. phase = "run" /\ body' = body
        BY <1>10 DEF Run
    <2>2. PICK ks : Traced(ks)
        BY <2>1 DEF TraceInv
    <2>3. /\ DOMAIN regs' = Regs
          /\ phase' = "done" \/ (phase' = "run" /\ Traced(ks)')
        BY <1>10, <2>2, TracedStep
    <2>4. body' \in Seq(Code)
        BY <2>1 DEF TraceInv
    <2>5. CASE phase' = "done"
        BY <2>3, <2>4, <2>5 DEF TraceInv
    <2>6. CASE phase' = "run" /\ Traced(ks)'
        BY <2>3, <2>4, <2>6 DEF TraceInv
    <2> QED BY <2>3, <2>5, <2>6
<1>11. CASE Done \/ UNCHANGED vars
    <2>1. UNCHANGED vars
        BY <1>11 DEF Done
    <2>2. /\ UNCHANGED <<omit_frame_pointer, storage, outgoing, saved, blocks, body, phase, pc>>
          /\ regs' = regs
        BY <2>1 DEF vars, frame, machine
    <2>3. Known' = Known /\ Unsized' = Unsized /\ AllInsts' = AllInsts
        BY <2>2 DEF Known, Total, Unsized, AllInsts
    <2>4. ASSUME NEW a, BodyRuns(a) PROVE BodyRuns(a)'
        BY <2>2, <2>3, <2>4 DEF BodyRuns
    <2>5. ASSUME NEW ks, Traced(ks) PROVE Traced(ks)'
        <3>1. Holds(Known, ks[pc]) /\ regs' = regs /\ pc' = pc /\ Known' = Known
            BY <2>2, <2>3, <2>5 DEF Traced
        <3>2. Holds(Known, ks[pc])'
            BY <3>1 DEF Holds, SpAt
        <3> QED BY <2>2, <2>3, <2>5, <3>2 DEF Traced
    <2> QED BY <2>2, <2>3, <2>4, <2>5 DEF TraceInv
<1> QED BY <1>1, <1>2, <1>3, <1>4, <1>5, <1>6, <1>7, <1>8, <1>9, <1>10, <1>11 DEF Next

(* In every step of every run, memory is only written at or above the      *)
(* stack pointer, and the stack pointer only rises just before the return, *)
(* when the saved registers have been read back: the order in which        *)
(* gen_func_prologue and gen_func_epilogue put their instructions, and     *)
(* adjust_offset its own between them, for all slots, calls, registers and *)
(* frame sizes.                                                            *)
THEOREM StoresStayAbove == Spec => StoresAboveSp
<1> DEFINE Guard == /\ \A a \in DOMAIN mem' \ DOMAIN mem : a >= regs["sp"]
                    /\ regs'["sp"] > regs["sp"] => phase' = "run" /\ AllInsts[pc + 1].op = "Ret"
<1>1. Init => IInv /\ CodeInv /\ TraceInv
    BY InvInit, CodeInit, TraceInit
<1>2. IInv /\ CodeInv /\ TraceInv /\ [Next]_vars => (IInv /\ CodeInv /\ TraceInv)'
    BY InvNext, CodeNext, TraceNext
<1>3. IInv /\ CodeInv /\ TraceInv /\ [Next]_vars => [Guard]_vars
    <2> SUFFICES ASSUME IInv, CodeInv, TraceInv, [Next]_vars PROVE [Guard]_vars
        OBVIOUS
    <2>1. CASE Run
        <3>1. PICK ks : Traced(ks)
            BY <2>1 DEF TraceInv, Run
        <3> QED BY <2>1, <3>1, TracedStep
    <2>2. CASE UNCHANGED vars
        BY <2>2
    <2>3. ASSUME ~ Run, ~ UNCHANGED vars PROVE Guard
        <3>1. mem' = mem /\ regs' = regs /\ regs = Entry
            <4>1. mem' = mem /\ regs' = regs /\ phase \in {"select", "prologue", "epilogue", "adjust"}
                BY <2>3 DEF Next, AllocSlot, EmitCall, EmitOther, Emit, NewBlock, Lower,
                            GenPrologue, GenEpilogue, AdjustInst, AdjustNextBlock, Done, machine
            <4> QED BY <4>1 DEF TraceInv
        <3>2. regs["sp"] = 0
            BY <3>1, FrameAssumption
        <3> QED BY <3>1, <3>2
    <2> QED BY <2>1, <2>2, <2>3
<1> QED BY <1>1, <1>2, <1>3, PTL DEF Spec, StoresAboveSp
=============================================================================
