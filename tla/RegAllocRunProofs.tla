------------------------- MODULE RegAllocRunProofs --------------------------
(***************************************************************************)
(* What the instructions of RegAlloc do, and what runs of its code see.    *)
(* The reports of the instructions are complete (IInv).  What one step of  *)
(* a run does to the machine (Went, Effect), and where the blocks of the   *)
(* code are in memory (Layout).  Runs of two codes side by side: if each   *)
(* instruction, or piece, of one is matched by one of the other, and the   *)
(* machines agree on the registers still needed (Related, Goes), both runs *)
(* are seen to do the same (WalkEnds, WalkSees).  Renaming registers that  *)
(* do not interfere is such a case (AllocEqual), and so is what selection  *)
(* emits for what it is asked for (Chosen, SelectEqual), however far the   *)
(* body has grown.                                                         *)
(***************************************************************************)
EXTENDS RegAlloc, FiniteSetTheorems, WellFoundedInduction, TLAPS

(* The instructions over a set R of registers. *)
Locations(R) == [kind : {"RegOffset"}, base : R, offset : Int]
                  \cup [kind : {"Slot", "Incoming"}, offset : Int]

Instructions(R) ==
    [kind : {"Li"}, rd : R, imm : Int]
      \cup [kind : {"AluRRI"}, rd : R, rs : R, imm : Int]
      \cup [kind : {"AluRRR"}, rd : R, rs1 : R, rs2 : R]
      \cup [kind : {"Load", "LoadAddr"}, rd : R, loc : Locations(R)]
      \cup [kind : {"Store"}, src : R, loc : Locations(R)]
      \cup [kind : {"Call"}, arg_regs : SUBSET R]
      \cup [kind : {"J"}, block : Int]
      \cup [kind : {"Br"}, rs1 : R, rs2 : R, block : Int]

Regs == PRegs \cup {V(i) : i \in 0 .. (vreg_counter - 1)}

-----------------------------------------------------------------------------
(* One instruction. *)

(* A machine that has not run yet, with the registers h. *)
Machine(h) == [regs |-> h, mem |-> [a \in {} |-> Unknown], seen |-> <<>>,
               asked |-> 0, pc |-> 1]

(* What an instruction does to registers, to memory and to what is seen. *)
Does(inst, h, omit, regs, mem, seen) ==
    /\ Effect(inst, Machine(h), omit).regs = regs
    /\ Effect(inst, Machine(h), omit).mem = mem
    /\ Effect(inst, Machine(h), omit).seen = seen

Untouched == [a \in {} |-> Unknown]
At(inst, h, omit) == Address(Machine(h), inst.loc, omit)
Scratched(inst, h) == IF OnStack(inst.loc) THEN [h EXCEPT ![t0] = Unknown] ELSE h

LEMMA LiDoes ==
    ASSUME NEW inst, inst.kind = "Li", NEW h, NEW omit
    PROVE  Does(inst, h, omit, [h EXCEPT ![inst.rd] = Number(inst.imm)], Untouched, <<>>)
BY DEF Does, Effect, Machine, Untouched

LEMMA AluRRIDoes ==
    ASSUME NEW inst, inst.kind = "AluRRI", NEW h, NEW omit
    PROVE  Does(inst, h, omit, [h EXCEPT ![inst.rd] = Sum2(h[inst.rs], Number(inst.imm))],
                Untouched, <<>>)
BY DEF Does, Effect, Machine, Untouched

LEMMA AluRRRDoes ==
    ASSUME NEW inst, inst.kind = "AluRRR", NEW h, NEW omit
    PROVE  Does(inst, h, omit, [h EXCEPT ![inst.rd] = Sum2(h[inst.rs1], h[inst.rs2])],
                Untouched, <<>>)
BY DEF Does, Effect, Machine, Untouched

LEMMA LoadAddrDoes ==
    ASSUME NEW inst, inst.kind = "LoadAddr", NEW h, NEW omit
    PROVE  Does(inst, h, omit,
                [Scratched(inst, h) EXCEPT ![inst.rd] = At(inst, h, omit)], Untouched, <<>>)
BY DEF Does, Effect, Machine, Untouched, At, Scratched

LEMMA LoadDoes ==
    ASSUME NEW inst, inst.kind = "Load", NEW h, NEW omit
    PROVE  Does(inst, h, omit,
                [Scratched(inst, h) EXCEPT ![inst.rd] = <<"memory", At(inst, h, omit)>>],
                Untouched, <<>>)
BY DEF Does, Effect, Machine, Untouched, At, Scratched, Contents

LEMMA StoreDoes ==
    ASSUME NEW inst, inst.kind = "Store", NEW h, NEW omit
    PROVE  Does(inst, h, omit, Scratched(inst, h),
                [a \in {At(inst, h, omit)} |-> Scratched(inst, h)[inst.src]],
                IF OnStack(inst.loc) THEN <<>>
                ELSE <<<<"store", At(inst, h, omit), Scratched(inst, h)[inst.src]>>>>)
BY DEF Does, Effect, Machine, Untouched, At, Scratched, Saw

LEMMA CallDoes ==
    ASSUME NEW inst, inst.kind = "Call", NEW h, NEW omit
    PROVE  Does(inst, h, omit,
                [r \in DOMAIN h |-> IF r \in RETURN_REGS THEN <<"result", 0>>
                                    ELSE IF r \in CALLER_SAVED_REGS THEN Unknown ELSE h[r]],
                Untouched, <<<<"call", [r \in inst.arg_regs |-> h[r]]>>>>)
<1> DEFINE m == Machine(h)
           args == [r \in inst.arg_regs |-> m.regs[r]]
           called == Saw(m, <<"call", args>>)
           after == [r \in DOMAIN called.regs |->
                       IF r \in RETURN_REGS THEN <<"result", Len(m.seen)>>
                       ELSE IF r \in CALLER_SAVED_REGS THEN Unknown ELSE called.regs[r]]
<1>1. m.regs = h /\ m.mem = Untouched /\ m.seen = <<>>
    BY DEF Machine, Untouched
<1>2. called.regs = h /\ called.mem = Untouched
    BY <1>1 DEF Saw, Machine
<1>3. called.seen = <<<<"call", args>>>>
    BY <1>1 DEF Saw, Machine
<1>4. Effect(inst, m, omit) = [called EXCEPT !.regs = after, !.pc = called.pc + 1]
    BY DEF Effect
<1>5. called = [regs |-> h, mem |-> Untouched, seen |-> <<<<"call", args>>>>,
                asked |-> 0, pc |-> 1]
    BY DEF Saw, Machine, Untouched
<1>6. Len(m.seen) = 0
    BY <1>1
<1>7. after = [r \in DOMAIN h |-> IF r \in RETURN_REGS THEN <<"result", 0>>
                  ELSE IF r \in CALLER_SAVED_REGS THEN Unknown ELSE h[r]]
    BY <1>2, <1>6
<1>8. args = [r \in inst.arg_regs |-> h[r]]
    BY <1>1
<1> HIDE DEF after, args, called, m
<1> QED
    BY <1>4, <1>5, <1>7, <1>8 DEF Does, m
-----------------------------------------------------------------------------
(* One instruction acts as it reports. *)

Named0 == [r \in Regs |-> <<"entry", r>>]
Blurred(r) == [Named0 EXCEPT ![r] = Unknown]

(* What ActsAsReported asks, in terms of what the instruction does. *)
LEMMA ActsIf ==
    ASSUME NEW inst,
           NEW end, NEW mem, NEW seen,
           Does(inst, Named0, omit_frame_pointer, end, mem, seen),
           \A r \in Regs \ (Clobbers(inst) \cup {t0}) : end[r] = Named0[r],
           \A r \in Regs \ Uses(inst, omit_frame_pointer) : \E other :
               /\ Does(inst, Blurred(r), omit_frame_pointer, other, mem, seen)
               /\ \A q \in Defs(inst) : other[q] = end[q]
    PROVE  ActsAsReported(inst)
<1> DEFINE m == [Entry(PRegs, vreg_counter) EXCEPT !.regs = [r \in DOMAIN @ |-> <<"entry", r>>]]
<1>1. Entry(PRegs, vreg_counter).regs
        = [r \in Regs |-> IF IsVReg(r) THEN Unknown
                          ELSE IF r = zero THEN Number(0) ELSE <<"entry", r>>]
    BY DEF Entry, Regs
<1>2. DOMAIN Entry(PRegs, vreg_counter).regs = Regs
    BY <1>1
<1>3. m = Machine(Named0)
    <2>1. Named0 = [r \in DOMAIN Entry(PRegs, vreg_counter).regs |-> <<"entry", r>>]
        BY <1>2 DEF Named0
    <2>2. PICK h : Entry(PRegs, vreg_counter) = Machine(h)
        BY DEF Entry, Machine
    <2>3. [Machine(h) EXCEPT !.regs = Named0] = Machine(Named0)
        BY DEF Machine
    <2> QED BY <2>1, <2>2, <2>3
<1>4. m.regs = Named0 /\ DOMAIN m.regs = Regs
    BY <1>3 DEF Machine, Named0
<1>5. ASSUME NEW r PROVE [m EXCEPT !.regs[r] = Unknown] = Machine(Blurred(r))
    <2>1. [Machine(Named0) EXCEPT !.regs[r] = Unknown] = Machine([Named0 EXCEPT ![r] = Unknown])
        BY DEF Machine
    <2> QED BY <1>3, <2>1 DEF Blurred
<1> HIDE DEF m
<1>6. Effect(inst, m, omit_frame_pointer).regs = end
      /\ Effect(inst, m, omit_frame_pointer).mem = mem
      /\ Effect(inst, m, omit_frame_pointer).seen = seen
    BY <1>3 DEF Does
<1>7. ASSUME NEW r \in DOMAIN m.regs \ (Clobbers(inst) \cup {t0})
      PROVE  Effect(inst, m, omit_frame_pointer).regs[r] = m.regs[r]
    BY <1>4, <1>6
<1>8. ASSUME NEW r \in DOMAIN m.regs \ Uses(inst, omit_frame_pointer)
      PROVE  LET other == Effect(inst, [m EXCEPT !.regs[r] = Unknown], omit_frame_pointer)
                 e == Effect(inst, m, omit_frame_pointer)
             IN /\ other.seen = e.seen /\ other.mem = e.mem
                /\ \A q \in Defs(inst) : other.regs[q] = e.regs[q]
    <2>1. PICK other : /\ Does(inst, Blurred(r), omit_frame_pointer, other, mem, seen)
                       /\ \A q \in Defs(inst) : other[q] = end[q]
        BY <1>4
    <2>2. [m EXCEPT !.regs[r] = Unknown] = Machine(Blurred(r))
        BY <1>5
    <2> QED BY <1>6, <2>1, <2>2 DEF Does
<1> QED
    BY <1>7, <1>8 DEF ActsAsReported, m

LEMMA AtSame ==
    ASSUME NEW inst, inst.loc \in Locations(Regs),
           NEW r \in Regs \ LocUses(inst.loc, omit_frame_pointer)
    PROVE  At(inst, Blurred(r), omit_frame_pointer) = At(inst, Named0, omit_frame_pointer)
<1> DEFINE base == IF OnStack(inst.loc) THEN (IF omit_frame_pointer THEN sp ELSE fp)
                                       ELSE inst.loc.base
<1>1. base \in Regs /\ base # r
    BY RegAllocAssumption DEF Locations, LocUses, OnStack, Regs
<1>2. Blurred(r)[base] = Named0[base]
    BY <1>1 DEF Blurred, Named0
<1>3. \A h : Machine(h).regs = h
    BY DEF Machine
<1>4. CASE OnStack(inst.loc)
    <2>1. base = IF omit_frame_pointer THEN sp ELSE fp
        BY <1>4
    <2>2. \A h : At(inst, h, omit_frame_pointer) = <<"frame", h[base], inst.loc>>
        BY <1>3, <1>4, <2>1 DEF At, Address
    <2> QED BY <1>2, <2>2
<1>5. CASE ~OnStack(inst.loc)
    <2>1. base = inst.loc.base
        BY <1>5
    <2>2. \A h : At(inst, h, omit_frame_pointer) = Sum2(h[base], Number(inst.loc.offset))
        BY <1>3, <1>5, <2>1 DEF At, Address
    <2> QED BY <1>2, <2>2
<1> QED BY <1>4, <1>5

LEMMA ScratchedSame ==
    ASSUME NEW inst, NEW r \in Regs, NEW q \in Regs, q # r
    PROVE  Scratched(inst, Blurred(r))[q] = Scratched(inst, Named0)[q]
BY DEF Scratched, Blurred, Named0

LEMMA Acts ==
    ASSUME NEW inst \in Instructions(Regs), ~IsTerminator(inst)
    PROVE  ActsAsReported(inst)
<1> DEFINE o == omit_frame_pointer
           f == Named0
<1>1. CASE inst.kind = "Li"
    <2> DEFINE does(h) == [h EXCEPT ![inst.rd] = Number(inst.imm)]
    <2>1. \A h : Does(inst, h, o, does(h), Untouched, <<>>)
        BY <1>1, LiDoes
    <2>2. inst.rd \in Regs /\ Clobbers(inst) = {inst.rd} /\ Defs(inst) = {inst.rd}
        BY <1>1 DEF Instructions, Clobbers, Defs, Defining
    <2>3. \A r \in Regs : does(Blurred(r))[inst.rd] = does(f)[inst.rd]
        BY <2>2 DEF Named0, Blurred
    <2>4. \A r \in Regs \ {inst.rd} : does(f)[r] = f[r]
        BY <2>2 DEF Named0
    <2> HIDE DEF does
    <2> QED BY <2>1, <2>2, <2>3, <2>4, ActsIf
<1>2. CASE inst.kind = "AluRRI"
    <2> DEFINE does(h) == [h EXCEPT ![inst.rd] = Sum2(h[inst.rs], Number(inst.imm))]
    <2>1. \A h : Does(inst, h, o, does(h), Untouched, <<>>)
        BY <1>2, AluRRIDoes
    <2>2. /\ inst.rd \in Regs /\ inst.rs \in Regs
          /\ Clobbers(inst) = {inst.rd} /\ Defs(inst) = {inst.rd} /\ Uses(inst, o) = {inst.rs}
        BY <1>2 DEF Instructions, Clobbers, Defs, Uses, Defining
    <2>3. \A r \in Regs \ {inst.rs} : Blurred(r)[inst.rs] = f[inst.rs]
        BY <2>2 DEF Named0, Blurred
    <2>4. \A r \in Regs \ {inst.rs} : does(Blurred(r))[inst.rd] = does(f)[inst.rd]
        BY <2>2, <2>3 DEF Named0, Blurred
    <2>5. \A r \in Regs \ {inst.rd} : does(f)[r] = f[r]
        BY <2>2 DEF Named0
    <2> HIDE DEF does
    <2> QED BY <2>1, <2>2, <2>4, <2>5, ActsIf
<1>3. CASE inst.kind = "AluRRR"
    <2> DEFINE does(h) == [h EXCEPT ![inst.rd] = Sum2(h[inst.rs1], h[inst.rs2])]
    <2>1. \A h : Does(inst, h, o, does(h), Untouched, <<>>)
        BY <1>3, AluRRRDoes
    <2>2. /\ inst.rd \in Regs /\ inst.rs1 \in Regs /\ inst.rs2 \in Regs
          /\ Clobbers(inst) = {inst.rd} /\ Defs(inst) = {inst.rd}
          /\ Uses(inst, o) = {inst.rs1, inst.rs2}
        BY <1>3 DEF Instructions, Clobbers, Defs, Uses, Defining
    <2>3. \A r \in Regs \ {inst.rs1, inst.rs2} :
             Blurred(r)[inst.rs1] = f[inst.rs1] /\ Blurred(r)[inst.rs2] = f[inst.rs2]
        BY <2>2 DEF Named0, Blurred
    <2>4. \A r \in Regs \ {inst.rs1, inst.rs2} : does(Blurred(r))[inst.rd] = does(f)[inst.rd]
        BY <2>2, <2>3 DEF Named0, Blurred
    <2>5. \A r \in Regs \ {inst.rd} : does(f)[r] = f[r]
        BY <2>2 DEF Named0
    <2> HIDE DEF does
    <2> QED BY <2>1, <2>2, <2>4, <2>5, ActsIf
<1>4. CASE inst.kind \in {"Load", "LoadAddr"}
    <2> DEFINE v(h) == IF inst.kind = "Load" THEN <<"memory", At(inst, h, o)>> ELSE At(inst, h, o)
               does(h) == [Scratched(inst, h) EXCEPT ![inst.rd] = v(h)]
    <2>1. ASSUME NEW h PROVE Does(inst, h, o, does(h), Untouched, <<>>)
        <3>1. CASE inst.kind = "Load"
            BY <3>1, LoadDoes
        <3>2. CASE inst.kind = "LoadAddr"
            BY <3>2, LoadAddrDoes
        <3> QED BY <1>4, <3>1, <3>2
    <2>2. /\ inst.rd \in Regs /\ inst.loc \in Locations(Regs)
          /\ Clobbers(inst) = {inst.rd} /\ Defs(inst) = {inst.rd}
          /\ Uses(inst, o) = LocUses(inst.loc, o)
        BY <1>4 DEF Instructions, Clobbers, Defs, Uses, Defining
    <2>3. \A r \in Regs \ LocUses(inst.loc, o) : v(Blurred(r)) = v(f)
        BY <2>2, AtSame
    <2>4. \A r \in Regs : inst.rd \in DOMAIN Scratched(inst, Blurred(r))
        BY <2>2 DEF Scratched, Blurred, Named0
    <2>5. inst.rd \in DOMAIN Scratched(inst, f)
        BY <2>2 DEF Scratched, Named0
    <2> HIDE DEF v
    <2>6. \A r \in Regs \ LocUses(inst.loc, o) : does(Blurred(r))[inst.rd] = does(f)[inst.rd]
        BY <2>3, <2>4, <2>5
    <2>7. \A r \in Regs \ ({inst.rd} \cup {t0}) : does(f)[r] = f[r]
        BY DEF Scratched, Named0
    <2> HIDE DEF does
    <2>8. \A r \in Regs \ (Clobbers(inst) \cup {t0}) : does(f)[r] = f[r]
        BY <2>2, <2>7
    <2>9. ASSUME NEW r \in Regs \ Uses(inst, o)
          PROVE  /\ Does(inst, Blurred(r), o, does(Blurred(r)), Untouched, <<>>)
                 /\ \A q \in Defs(inst) : does(Blurred(r))[q] = does(f)[q]
        BY <2>1, <2>2, <2>6
    <2>10. Does(inst, f, o, does(f), Untouched, <<>>)
        BY <2>1
    <2> QED BY <2>8, <2>9, <2>10, ActsIf
<1>5. CASE inst.kind = "Store"
    <2> DEFINE v(h) == Scratched(inst, h)[inst.src]
               mem(h) == [a \in {At(inst, h, o)} |-> v(h)]
               seen(h) == IF OnStack(inst.loc) THEN <<>>
                          ELSE <<<<"store", At(inst, h, o), v(h)>>>>
    <2>1. ASSUME NEW h PROVE Does(inst, h, o, Scratched(inst, h), mem(h), seen(h))
        BY <1>5, StoreDoes
    <2>2. /\ inst.src \in Regs /\ inst.loc \in Locations(Regs)
          /\ Clobbers(inst) = {} /\ Defs(inst) = {}
          /\ Uses(inst, o) = {inst.src} \cup LocUses(inst.loc, o)
        BY <1>5 DEF Instructions, Clobbers, Defs, Uses, Defining
    <2>3. ASSUME NEW r \in Regs \ Uses(inst, o)
          PROVE  At(inst, Blurred(r), o) = At(inst, f, o) /\ v(Blurred(r)) = v(f)
        BY <2>2, AtSame, ScratchedSame
    <2>4. ASSUME NEW r \in Regs \ Uses(inst, o)
          PROVE  mem(Blurred(r)) = mem(f) /\ seen(Blurred(r)) = seen(f)
        BY <2>3
    <2>5. \A r \in Regs \ {t0} : Scratched(inst, f)[r] = f[r]
        BY DEF Scratched, Named0
    <2> HIDE DEF mem, seen
    <2>6. ASSUME NEW r \in Regs \ Uses(inst, o)
          PROVE  Does(inst, Blurred(r), o, Scratched(inst, Blurred(r)), mem(f), seen(f))
        <3>1. Does(inst, Blurred(r), o, Scratched(inst, Blurred(r)), mem(Blurred(r)), seen(Blurred(r)))
            BY <2>1
        <3> QED BY <2>4, <3>1
    <2> QED BY <2>1, <2>2, <2>5, <2>6, ActsIf
<1>6. CASE inst.kind = "Call"
    <2> DEFINE does(h) == [r \in DOMAIN h |-> IF r \in RETURN_REGS THEN <<"result", 0>>
                                    ELSE IF r \in CALLER_SAVED_REGS THEN Unknown ELSE h[r]]
               args(h) == [r \in inst.arg_regs |-> h[r]]
    <2>1. ASSUME NEW h PROVE Does(inst, h, o, does(h), Untouched, <<<<"call", args(h)>>>>)
        BY <1>6, CallDoes
    <2>2. /\ inst.arg_regs \in SUBSET Regs
          /\ Clobbers(inst) = CALLER_SAVED_REGS /\ Defs(inst) = RETURN_REGS
          /\ Uses(inst, o) = inst.arg_regs
        BY <1>6 DEF Instructions, Clobbers, Defs, Uses, Defining
    <2>3. ASSUME NEW r \in Regs \ Uses(inst, o)
          PROVE  args(Blurred(r)) = args(f)
        <3>1. \A q \in inst.arg_regs : Blurred(r)[q] = f[q]
            BY <2>2 DEF Blurred, Named0
        <3> QED BY <3>1
    <2>4. RETURN_REGS \subseteq Regs /\ RETURN_REGS \subseteq CALLER_SAVED_REGS
        BY RegAllocAssumption DEF RETURN_REGS, CALLER_SAVED_REGS, Regs, a0
    <2>5. DOMAIN f = Regs /\ \A r \in Regs : DOMAIN Blurred(r) = Regs
        BY DEF Named0, Blurred
    <2>6. \A r \in Regs, q \in RETURN_REGS : does(Blurred(r))[q] = does(f)[q]
        BY <2>4, <2>5
    <2>7. \A r \in Regs \ (CALLER_SAVED_REGS \cup {t0}) : does(f)[r] = f[r]
        BY <2>4, <2>5
    <2> HIDE DEF does, args
    <2>8. ASSUME NEW r \in Regs \ Uses(inst, o)
          PROVE  Does(inst, Blurred(r), o, does(Blurred(r)), Untouched, <<<<"call", args(f)>>>>)
        <3>1. Does(inst, Blurred(r), o, does(Blurred(r)), Untouched, <<<<"call", args(Blurred(r))>>>>)
            BY <2>1
        <3> QED BY <2>3, <3>1
    <2> QED BY <2>1, <2>2, <2>6, <2>7, <2>8, ActsIf
<1> QED
    BY <1>1, <1>2, <1>3, <1>4, <1>5, <1>6 DEF Instructions, IsTerminator

-----------------------------------------------------------------------------
(* Until registers are spilled or allocated, the code is made of           *)
(* instructions over the registers there are.                              *)

Selecting == phase \in {"select", "selected"}

IInv == Selecting =>
    /\ vreg_counter \in Nat
    /\ curr_block \in 1 .. Blocks
    /\ code \in [1 .. Blocks -> Seq(Instructions(Regs))]
    /\ DOMAIN defined = 1 .. Blocks
    /\ Readable \subseteq Regs

LEMMA ConstantRegs == {zero, sp, a0} \subseteq Regs
BY RegAllocAssumption DEF Regs

LEMMA InitInv == Init => IInv
<1> SUFFICES ASSUME Init PROVE IInv
    OBVIOUS
<1>1. vreg_counter = 1 /\ curr_block = 1 /\ code = Opening
    BY DEF Init
<1>2. V(0) \in Regs /\ a0 \in Regs
    BY <1>1, ConstantRegs DEF Regs
<1>3. AluRRI(V(0), a0, 0) \in Instructions(Regs)
    BY <1>2 DEF AluRRI, Instructions
<1>4. code \in [1 .. Blocks -> Seq(Instructions(Regs))]
    BY <1>1, <1>3 DEF Opening
<1>5. DOMAIN defined = 1 .. Blocks
    BY DEF Init
<1>6. defined[1] = {a0} \cup {V(n) : n \in 0 .. 0}
    BY RegAllocAssumption DEF Init
<1>7. Readable \subseteq Regs
    BY <1>1, <1>2, <1>6 DEF Readable
<1> QED
    BY <1>1, <1>4, <1>5, <1>7, RegAllocAssumption DEF IInv

LEMMA LongerRange ==
    ASSUME NEW k \in Nat, NEW n \in Nat, k <= n
    PROVE  0 .. (k - 1) \subseteq 0 .. (n - 1)
OBVIOUS

LEMMA MoreRegs ==
    ASSUME vreg_counter \in Nat, vreg_counter' \in Nat, vreg_counter <= vreg_counter'
    PROVE  /\ Regs \subseteq Regs'
           /\ Instructions(Regs) \subseteq Instructions(Regs')
           /\ Seq(Instructions(Regs)) \subseteq Seq(Instructions(Regs'))
<1>1. Regs \subseteq Regs'
    <2>1. 0 .. (vreg_counter - 1) \subseteq 0 .. (vreg_counter' - 1)
        BY LongerRange
    <2> QED BY <2>1 DEF Regs
<1>2. Locations(Regs) \subseteq Locations(Regs')
    BY <1>1 DEF Locations
<1>3. Instructions(Regs) \subseteq Instructions(Regs')
    BY <1>1, <1>2 DEF Instructions
<1> QED BY <1>1, <1>3

LEMMA EmitInv ==
    ASSUME IInv, NEW request, NEW insts, Emit(request, insts),
           vreg_counter' \in Nat, vreg_counter <= vreg_counter',
           insts \in Seq(Instructions(Regs')),
           DOMAIN defined' = 1 .. Blocks,
           Readable' \subseteq Regs'
    PROVE  IInv'
<1>1. /\ phase = "select" /\ phase' = phase /\ curr_block' = curr_block
      /\ code' = [code EXCEPT ![curr_block] = @ \o insts]
    BY DEF Emit
<1>2. /\ vreg_counter \in Nat /\ curr_block \in 1 .. Blocks
      /\ code \in [1 .. Blocks -> Seq(Instructions(Regs))]
    BY <1>1 DEF IInv, Selecting
<1>3. Seq(Instructions(Regs)) \subseteq Seq(Instructions(Regs'))
    BY <1>2, MoreRegs
<1>4. code[curr_block] \o insts \in Seq(Instructions(Regs'))
    BY <1>2, <1>3
<1>5. code' \in [1 .. Blocks -> Seq(Instructions(Regs'))]
    BY <1>1, <1>2, <1>3, <1>4
<1> QED BY <1>1, <1>2, <1>5 DEF IInv

(* An instruction into a new register. *)
LEMMA NewInv ==
    ASSUME IInv, NEW inst, Emit(inst, <<inst>>), inst \in Instructions(Regs'),
           vreg_counter' = vreg_counter + 1, Defining1(NewVReg(0))
    PROVE  IInv'
<1>1. /\ phase = "select" /\ vreg_counter \in Nat /\ curr_block \in 1 .. Blocks
      /\ DOMAIN defined = 1 .. Blocks /\ Readable \subseteq Regs /\ curr_block' = curr_block
    BY DEF IInv, Selecting, Emit
<1>2. NewVReg(0) \in Regs' /\ Regs \subseteq Regs'
    BY <1>1, MoreRegs DEF NewVReg, Regs
<1>3. Readable' = Readable \cup {NewVReg(0)} /\ DOMAIN defined' = 1 .. Blocks
    BY <1>1 DEF Readable, Defining1
<1>4. <<inst>> \in Seq(Instructions(Regs'))
    OBVIOUS
<1>5. vreg_counter' \in Nat /\ vreg_counter <= vreg_counter'
    BY <1>1
<1>6. Readable' \subseteq Regs'
    BY <1>1, <1>2, <1>3
<1> QED BY <1>3, <1>4, <1>5, <1>6, EmitInv

(* An instruction that defines no new register. *)
LEMMA OldInv ==
    ASSUME IInv, NEW inst, Emit(inst, <<inst>>), inst \in Instructions(Regs),
           UNCHANGED vreg_counter,
           UNCHANGED defined \/ Defining1(a0)
    PROVE  IInv'
<1>1. /\ phase = "select" /\ vreg_counter \in Nat /\ curr_block \in 1 .. Blocks
      /\ DOMAIN defined = 1 .. Blocks /\ Readable \subseteq Regs /\ curr_block' = curr_block
    BY DEF IInv, Selecting, Emit
<1>2. Regs' = Regs
    BY DEF Regs
<1>3. Readable' \subseteq Readable \cup {a0} /\ DOMAIN defined' = 1 .. Blocks
    BY <1>1 DEF Readable, Defining1
<1>4. <<inst>> \in Seq(Instructions(Regs'))
    BY <1>2
<1>5. a0 \in Regs
    BY ConstantRegs
<1>6. vreg_counter' \in Nat /\ vreg_counter <= vreg_counter'
    BY <1>1
<1>7. Readable' \subseteq Regs'
    BY <1>1, <1>2, <1>3, <1>5
<1> QED BY <1>3, <1>4, <1>6, <1>7, EmitInv

LEMMA EmitLiInv == IInv /\ EmitLi => IInv'
<1> SUFFICES ASSUME IInv, NEW n \in Imms,
                    vreg_counter < MaxVRegs,
                    Emit(Li(NewVReg(0), n), <<Li(NewVReg(0), n)>>),
                    vreg_counter' = vreg_counter + 1,
                    Defining1(NewVReg(0))
             PROVE  IInv'
    BY DEF EmitLi, EmitNew
<1>1. NewVReg(0) \in Regs'
    BY DEF Regs, NewVReg, IInv, Selecting, Emit
<1>2. Li(NewVReg(0), n) \in Instructions(Regs')
    BY <1>1, RegAllocAssumption DEF Li, Instructions
<1> QED BY <1>2, NewInv

LEMMA EmitAluInv == IInv /\ EmitAlu => IInv'
<1> SUFFICES ASSUME IInv, EmitAlu PROVE IInv'
    OBVIOUS
<1>1. /\ vreg_counter \in Nat /\ Readable \subseteq Regs /\ vreg_counter' = vreg_counter + 1
    BY DEF IInv, Selecting, Emit, EmitAlu, EmitNew
<1>2. NewVReg(0) \in Regs' /\ Regs \subseteq Regs'
    BY <1>1, MoreRegs DEF Regs, NewVReg
<1>3. Locals \cup (Readable \cap {a0}) \subseteq Regs'
    BY <1>1, <1>2 DEF Locals
<1>4. CASE \E r \in Locals \cup (Readable \cap {a0}) : EmitNew(AluRRI(NewVReg(0), r, 0))
    <2>1. PICK r \in Locals \cup (Readable \cap {a0}) :
             /\ Emit(AluRRI(NewVReg(0), r, 0), <<AluRRI(NewVReg(0), r, 0)>>)
             /\ Defining1(NewVReg(0))
        BY <1>4 DEF EmitNew
    <2>2. AluRRI(NewVReg(0), r, 0) \in Instructions(Regs')
        BY <1>2, <1>3 DEF AluRRI, Instructions
    <2> QED BY <1>1, <2>1, <2>2, NewInv
<1>5. CASE \E r, q \in Locals : r[2] <= q[2] /\ EmitNew(AluRRR(NewVReg(0), r, q))
    <2>1. PICK r \in Locals, q \in Locals :
             /\ Emit(AluRRR(NewVReg(0), r, q), <<AluRRR(NewVReg(0), r, q)>>)
             /\ Defining1(NewVReg(0))
        BY <1>5 DEF EmitNew
    <2>2. AluRRR(NewVReg(0), r, q) \in Instructions(Regs')
        BY <1>2, <1>3 DEF AluRRR, Instructions
    <2> QED BY <1>1, <2>1, <2>2, NewInv
<1> QED BY <1>4, <1>5 DEF EmitAlu

LEMMA EmitMoveInv == IInv /\ EmitMove => IInv'
<1> SUFFICES ASSUME IInv,
                    NEW rd \in Locals \ Constants, NEW r \in Locals,
                    Emit(AluRRI(rd, r, 0), <<AluRRI(rd, r, 0)>>),
                    UNCHANGED <<vreg_counter, defined>>
             PROVE  IInv'
    BY DEF EmitMove
<1>1. Readable \subseteq Regs
    BY DEF IInv, Selecting, Emit
<1>2. AluRRI(rd, r, 0) \in Instructions(Regs)
    BY <1>1 DEF AluRRI, Instructions, Locals
<1> QED BY <1>2, OldInv

LEMMA LocsOver ==
    ASSUME Readable \subseteq Regs
    PROVE  Locs \subseteq Locations(Regs)
BY DEF Locs, Locals, Locations, ProgramSlot, Slot, RegOffset

LEMMA EmitMemoryInv == IInv /\ EmitMemory => IInv'
<1> SUFFICES ASSUME IInv, EmitMemory PROVE IInv'
    OBVIOUS
<1>1. phase = "select" /\ vreg_counter \in Nat /\ Readable \subseteq Regs
    BY DEF IInv, Selecting, Emit, EmitMemory, EmitNew
<1>2. CASE \E loc \in Locs : EmitNew(Load(NewVReg(0), loc))
    <2>1. PICK loc \in Locs :
             /\ Emit(Load(NewVReg(0), loc), <<Load(NewVReg(0), loc)>>)
             /\ vreg_counter' = vreg_counter + 1
             /\ Defining1(NewVReg(0))
        BY <1>2 DEF EmitNew
    <2>2. NewVReg(0) \in Regs' /\ loc \in Locations(Regs')
        <3>1. NewVReg(0) \in Regs' /\ Regs \subseteq Regs'
            BY <1>1, <2>1, MoreRegs DEF Regs, NewVReg
        <3>2. loc \in Locations(Regs)
            BY <1>1, LocsOver
        <3> QED BY <3>1, <3>2 DEF Locations
    <2>3. Load(NewVReg(0), loc) \in Instructions(Regs')
        BY <2>2 DEF Load, Instructions
    <2> QED BY <2>1, <2>3, NewInv
<1>3. CASE EmitNew(LoadAddr(NewVReg(0), ProgramSlot))
    <2>1. /\ Emit(LoadAddr(NewVReg(0), ProgramSlot), <<LoadAddr(NewVReg(0), ProgramSlot)>>)
          /\ vreg_counter' = vreg_counter + 1
          /\ Defining1(NewVReg(0))
        BY <1>3 DEF EmitNew
    <2>2. NewVReg(0) \in Regs' /\ ProgramSlot \in Locations(Regs')
        BY <1>1, <2>1 DEF Regs, NewVReg, Locations, ProgramSlot, Slot
    <2>3. LoadAddr(NewVReg(0), ProgramSlot) \in Instructions(Regs')
        BY <2>2 DEF LoadAddr, Instructions
    <2> QED BY <2>1, <2>3, NewInv
<1>4. CASE \E r \in Locals, loc \in Locs :
             /\ Emit(Store(r, loc), <<Store(r, loc)>>)
             /\ UNCHANGED <<vreg_counter, defined>>
    <2>1. PICK r \in Locals, loc \in Locs :
             /\ Emit(Store(r, loc), <<Store(r, loc)>>)
             /\ UNCHANGED <<vreg_counter, defined>>
        BY <1>4
    <2>2. r \in Regs /\ loc \in Locations(Regs)
        BY <1>1, LocsOver DEF Locals
    <2>3. Store(r, loc) \in Instructions(Regs)
        BY <2>2 DEF Store, Instructions
    <2> QED BY <2>1, <2>3, OldInv
<1> QED BY <1>2, <1>3, <1>4 DEF EmitMemory

LEMMA EmitCallInv == IInv /\ EmitCall => IInv'
<1> SUFFICES ASSUME IInv, EmitCall PROVE IInv'
    OBVIOUS
<1>1. Readable \subseteq Regs
    BY DEF IInv, Selecting, Emit, EmitCall
<1>2. CASE \E r \in Locals : /\ Emit(MoveTo(r), <<MoveTo(r)>>)
                             /\ Defining1(a0)
                             /\ UNCHANGED vreg_counter
    <2>1. PICK r \in Locals : /\ Emit(MoveTo(r), <<MoveTo(r)>>)
                              /\ Defining1(a0)
                              /\ UNCHANGED vreg_counter
        BY <1>2
    <2>2. MoveTo(r) \in Instructions(Regs)
        BY <1>1, ConstantRegs DEF MoveTo, AluRRI, Instructions, Locals
    <2> QED BY <2>1, <2>2, OldInv
<1>3. CASE \E args \in SUBSET (Readable \cap {a0}) :
             /\ Emit(Call(args), <<Call(args)>>)
             /\ Defining1(a0)
             /\ UNCHANGED vreg_counter
    <2>1. PICK args \in SUBSET (Readable \cap {a0}) :
             /\ Emit(Call(args), <<Call(args)>>)
             /\ Defining1(a0)
             /\ UNCHANGED vreg_counter
        BY <1>3
    <2>2. args \in SUBSET Regs
        BY <1>1
    <2>3. Call(args) \in Instructions(Regs)
        BY <2>2 DEF Call, Instructions
    <2> QED BY <2>1, <2>3, OldInv
<1> QED BY <1>2, <1>3 DEF EmitCall

LEMMA EmitSpAdjustInv == IInv /\ EmitSpAdjust => IInv'
<1> SUFFICES ASSUME IInv, NEW offset \in SpOffsets,
                    Emit(SpAdjust(offset), GenSpAdjust(offset)),
                    vreg_counter' = vreg_counter + (IF Fits(offset) THEN 0 ELSE 1),
                    UNCHANGED defined
             PROVE  IInv'
    BY DEF EmitSpAdjust
<1>1. /\ vreg_counter \in Nat /\ Readable \subseteq Regs /\ DOMAIN defined = 1 .. Blocks
      /\ curr_block' = curr_block
    BY DEF IInv, Selecting, Emit
<1>2. vreg_counter' \in Nat /\ vreg_counter <= vreg_counter'
    BY <1>1
<1>3. Regs \subseteq Regs' /\ Readable' \subseteq Regs'
    BY <1>1, <1>2, MoreRegs DEF Readable
<1>4. sp \in Regs' /\ offset \in Int
    BY <1>3, ConstantRegs, RegAllocAssumption
<1>5. CASE Fits(offset)
    <2>1. offset \in Int => Bits(offset) \in Int
        BY DEF Bits
    <2>2. AsI16(Bits(offset)) \in Int
        BY <1>4, <2>1 DEF AsI16
    <2>3. AluRRI(sp, sp, AsI16(Bits(offset))) \in Instructions(Regs')
        BY <1>4, <2>2 DEF AluRRI, Instructions
    <2>4. GenSpAdjust(offset) \in Seq(Instructions(Regs'))
        BY <1>5, <2>3 DEF GenSpAdjust
    <2> QED BY <1>1, <1>2, <1>3, <2>4, EmitInv
<1>6. CASE ~Fits(offset)
    <2>1. NewVReg(0) \in Regs'
        BY <1>1, <1>6 DEF NewVReg, Regs
    <2>2. Li(NewVReg(0), offset) \in Instructions(Regs')
        BY <1>4, <2>1 DEF Li, Instructions
    <2>3. AluRRR(sp, sp, NewVReg(0)) \in Instructions(Regs')
        BY <1>4, <2>1 DEF AluRRR, Instructions
    <2>4. GenSpAdjust(offset) \in Seq(Instructions(Regs'))
        BY <1>6, <2>2, <2>3 DEF GenSpAdjust
    <2> QED BY <1>1, <1>2, <1>3, <2>4, EmitInv
<1> QED BY <1>5, <1>6

(* The end of a block that leads to the next one. *)
LEMMA EndInv ==
    ASSUME IInv, NEW request, NEW insts, NEW targets,
           EndBlock(request, insts, targets),
           insts \in Seq(Instructions(Regs)), curr_block + 1 \in targets
    PROVE  IInv'
<1>1. /\ phase' = phase /\ curr_block' = curr_block + 1 /\ curr_block < Blocks
      /\ code' = [code EXCEPT ![curr_block] = @ \o insts]
      /\ defined' = [b \in 1 .. Blocks |->
                        IF b \in targets THEN defined[b] \cap Readable ELSE defined[b]]
      /\ vreg_counter' = vreg_counter
    BY DEF EndBlock
<1>2. /\ vreg_counter \in Nat /\ curr_block \in 1 .. Blocks
      /\ code \in [1 .. Blocks -> Seq(Instructions(Regs))]
      /\ Readable \subseteq Regs
    BY DEF IInv, Selecting, EndBlock
<1>3. Regs' = Regs
    BY <1>1 DEF Regs
<1>4. curr_block' \in 1 .. Blocks
    BY <1>1, <1>2, RegAllocAssumption
<1>5. code[curr_block] \o insts \in Seq(Instructions(Regs))
    BY <1>2
<1>6. code' \in [1 .. Blocks -> Seq(Instructions(Regs'))]
    BY <1>1, <1>2, <1>3, <1>5
<1>7. Readable' \subseteq Readable
    BY <1>1, <1>4 DEF Readable
<1> QED BY <1>1, <1>2, <1>3, <1>4, <1>6, <1>7 DEF IInv

LEMMA JumpInv == IInv /\ Jump => IInv'
<1> SUFFICES ASSUME IInv, Jump PROVE IInv'
    OBVIOUS
<1>1. curr_block + 1 \in Int
    BY DEF IInv, Selecting, Jump, EndBlock
<1>2. <<J(curr_block + 1)>> \in Seq(Instructions(Regs))
    <2>1. J(curr_block + 1) \in Instructions(Regs)
        BY <1>1 DEF J, Instructions
    <2> QED BY <2>1
<1> QED BY <1>2, EndInv DEF Jump

LEMMA CondBranchInv == IInv /\ CondBranch => IInv'
<1> SUFFICES ASSUME IInv,
                    NEW cond \in Conditions, NEW dst \in (curr_block + 2) .. Blocks,
                    EndBlock(<<CondBr(cond, dst), J(curr_block + 1)>>,
                             GenCondBr(cond, dst) \o <<J(curr_block + 1)>>,
                             {dst, curr_block + 1})
             PROVE  IInv'
    BY DEF CondBranch
<1>1. curr_block + 1 \in Int /\ dst \in Int /\ Readable \subseteq Regs
    BY DEF IInv, Selecting, EndBlock
<1>2. J(curr_block + 1) \in Instructions(Regs) /\ J(dst) \in Instructions(Regs)
    BY <1>1 DEF J, Instructions
<1>3. GenCondBr(cond, dst) \in Seq(Instructions(Regs))
    <2>1. CASE \E r \in Locals : cond = InReg(r)
        <3>1. cond.kind = "Reg" /\ cond.reg \in Regs
            BY <1>1, <2>1 DEF InReg, Locals
        <3>2. Bne(cond.reg, zero, dst) \in Instructions(Regs)
            BY <1>1, <3>1, ConstantRegs DEF Bne, Instructions
        <3> QED BY <3>1, <3>2 DEF GenCondBr
    <2>2. CASE cond.kind = "Imm"
        BY <1>2, <2>2 DEF GenCondBr
    <2>3. CASE cond = Undef
        BY <2>3 DEF GenCondBr, Undef
    <2> QED BY <2>1, <2>2, <2>3 DEF Conditions, Imm
<1>4. GenCondBr(cond, dst) \o <<J(curr_block + 1)>> \in Seq(Instructions(Regs))
    BY <1>2, <1>3
<1> QED BY <1>4, EndInv

LEMMA ReturnInv == IInv /\ Return => IInv'
<1> SUFFICES ASSUME IInv, NEW r \in Locals,
                    phase = "select", curr_block = Blocks,
                    code' = [code EXCEPT ![curr_block] = <<MoveTo(r)>>],
                    phase' = "selected",
                    UNCHANGED <<curr_block, vreg_counter, defined>>
             PROVE  IInv'
    BY DEF Return
<1>1. /\ vreg_counter \in Nat /\ curr_block \in 1 .. Blocks
      /\ code \in [1 .. Blocks -> Seq(Instructions(Regs))]
      /\ DOMAIN defined = 1 .. Blocks /\ Readable \subseteq Regs
    BY DEF IInv, Selecting
<1>2. Regs' = Regs /\ Readable' = Readable
    BY DEF Regs, Readable
<1>3. MoveTo(r) \in Instructions(Regs)
    BY <1>1, ConstantRegs DEF MoveTo, AluRRI, Instructions, Locals
<1>4. code' \in [1 .. Blocks -> Seq(Instructions(Regs'))]
    BY <1>1, <1>2, <1>3
<1> QED BY <1>1, <1>2, <1>4 DEF IInv

LEMMA NextInv == IInv /\ [Next]_vars => IInv'
<1> SUFFICES ASSUME IInv, [Next]_vars PROVE IInv'
    OBVIOUS
<1>1. CASE UNCHANGED vars
    BY <1>1 DEF vars, IInv, Selecting, Regs, Readable
<1>2. ASSUME NEW v, Spill(v) PROVE IInv'
    BY <1>2 DEF Spill, IInv, Selecting
<1>3. CASE Allocate
    BY <1>3 DEF Allocate, IInv, Selecting
<1> QED
    BY <1>1, <1>2, <1>3, EmitLiInv, EmitAluInv, EmitMoveInv, EmitMemoryInv, EmitCallInv,
       EmitSpAdjustInv, JumpInv, CondBranchInv, ReturnInv DEF Next

(* Whatever is selected, for any set of registers, immediates and blocks:  *)
(* no instruction depends on a register it does not report to use          *)
(* (RvInst::uses), and none changes one it does not report to clobber      *)
(* (RvInst::clobbers), the scratch register excepted.                      *)
THEOREM ReportsAreComplete == Spec => []EffectsReported
<1>1. IInv => EffectsReported
    <2> SUFFICES ASSUME IInv, phase = "selected",
                        NEW b \in 1 .. Blocks, NEW i \in DOMAIN code[b],
                        ~IsTerminator(code[b][i])
                 PROVE  ActsAsReported(code[b][i])
        BY DEF EffectsReported
    <2>1. code[b] \in Seq(Instructions(Regs))
        BY DEF IInv, Selecting
    <2>2. code[b][i] \in Instructions(Regs)
        BY <2>1
    <2> QED BY <2>2, Acts
<1> QED BY InitInv, NextInv, <1>1, PTL DEF Spec

-----------------------------------------------------------------------------
(* The registers of code with n virtual registers that it names; the       *)
(* scratch register is none of them.                                       *)
RegsOf(n) == PRegs \cup {V(i) : i \in 0 .. (n - 1)}
CodeRegs(n) == {zero, sp, fp, a0} \cup {V(i) : i \in 0 .. (n - 1)}

LEMMA RegsDiffer ==
    /\ zero = <<"P", 0>> /\ ra = <<"P", 1>> /\ sp = <<"P", 2>> /\ t0 = <<"P", 5>>
    /\ fp = <<"P", 8>> /\ a0 = <<"P", 10>>
    /\ zero # sp /\ zero # t0 /\ zero # fp /\ zero # a0 /\ sp # t0 /\ sp # fp /\ sp # a0
    /\ t0 # fp /\ t0 # a0 /\ fp # a0
    /\ \A i : V(i) = <<"V", i>> /\ IsVReg(V(i))
    /\ \A i : V(i) # zero /\ V(i) # sp /\ V(i) # t0 /\ V(i) # fp /\ V(i) # a0
    /\ \A i, j : V(i) = V(j) => i = j
    /\ \A r \in AllPRegs : ~IsVReg(r)
    /\ ~IsVReg(zero) /\ ~IsVReg(sp) /\ ~IsVReg(t0) /\ ~IsVReg(fp) /\ ~IsVReg(a0)
BY DEF zero, ra, sp, t0, fp, a0, P, V, IsVReg, AllPRegs

LEMMA CodeRegsIn ==
    ASSUME NEW n
    PROVE  /\ CodeRegs(n) \subseteq RegsOf(n) \ {t0}
           /\ {zero, sp, fp, a0, t0} \subseteq RegsOf(n)
           /\ {zero, sp, fp, a0} \subseteq CodeRegs(n)
           /\ \A r \in RegsOf(n) : IsVReg(r) <=> r \notin PRegs
           /\ \A r \in CodeRegs(n) : IsVReg(r) <=> \E i \in 0 .. (n - 1) : r = V(i)
BY RegAllocAssumption, RegsDiffer DEF CodeRegs, RegsOf

-----------------------------------------------------------------------------
(* The machine. *)

Mach(m, n) ==
    /\ m = [regs |-> m.regs, mem |-> m.mem, seen |-> m.seen, asked |-> m.asked, pc |-> m.pc]
    /\ m.regs = [r \in RegsOf(n) |-> m.regs[r]]
    /\ m.mem = [a \in DOMAIN m.mem |-> m.mem[a]]
    /\ m.pc \in Nat

(* Step, with what it reads of the state as an argument. *)
StepO(inst, m, blocks, oracle, undef, omit) ==
    CASE inst.kind = "J" -> [m EXCEPT !.pc = Start(blocks, inst.block)]
      [] inst.kind = "Br" ->
           Branch(m, Difference(m.regs[inst.rs1], m.regs[inst.rs2]), oracle,
                  Start(blocks, inst.block))
      [] inst.kind = "CondBr" ->
           IF inst.cond.kind = "Undef"
           THEN [m EXCEPT !.pc = IF undef THEN Start(blocks, inst.block) ELSE @ + 1]
           ELSE Branch(m, m.regs[inst.cond.reg], oracle, Start(blocks, inst.block))
      [] inst.kind = "SpAdjust" ->
           [m EXCEPT !.regs[sp] = Sum2(@, Number(inst.offset)), !.pc = @ + 1]
      [] OTHER -> Effect(inst, m, omit)

LEMMA StepIs ==
    ASSUME NEW inst, NEW m, NEW blocks, NEW oracle, NEW undef
    PROVE  Step(inst, m, blocks, oracle, undef)
             = StepO(inst, m, blocks, oracle, undef, omit_frame_pointer)
BY DEF Step, StepO

(* m with the registers h, and so on. *)
Went(m, regs, mem, seen) ==
    [regs |-> regs, mem |-> mem, seen |-> seen, asked |-> m.asked, pc |-> m.pc + 1]

LocAddress(m, loc, omit) == Address(m, loc, omit)
ScratchedIn(m, loc) == IF OnStack(loc) THEN [m.regs EXCEPT ![t0] = Unknown] ELSE m.regs

LEMMA EffectLi ==
    ASSUME NEW n, NEW m, Mach(m, n), NEW inst, inst.kind = "Li", NEW omit
    PROVE  Effect(inst, m, omit)
             = Went(m, [m.regs EXCEPT ![inst.rd] = Number(inst.imm)], m.mem, m.seen)
BY DEF Effect, Mach, Went

LEMMA EffectAluRRI ==
    ASSUME NEW n, NEW m, Mach(m, n), NEW inst, inst.kind = "AluRRI", NEW omit
    PROVE  Effect(inst, m, omit)
             = Went(m, [m.regs EXCEPT ![inst.rd] = Sum2(m.regs[inst.rs], Number(inst.imm))],
                    m.mem, m.seen)
BY DEF Effect, Mach, Went

LEMMA EffectAluRRR ==
    ASSUME NEW n, NEW m, Mach(m, n), NEW inst, inst.kind = "AluRRR", NEW omit
    PROVE  Effect(inst, m, omit)
             = Went(m, [m.regs EXCEPT ![inst.rd] = Sum2(m.regs[inst.rs1], m.regs[inst.rs2])],
                    m.mem, m.seen)
BY DEF Effect, Mach, Went

LEMMA EffectLoadAddr ==
    ASSUME NEW n, NEW m, Mach(m, n), NEW inst, inst.kind = "LoadAddr", NEW omit
    PROVE  Effect(inst, m, omit)
             = Went(m, [ScratchedIn(m, inst.loc) EXCEPT ![inst.rd] = Address(m, inst.loc, omit)],
                    m.mem, m.seen)
BY DEF Effect, Mach, Went, ScratchedIn

LEMMA EffectLoad ==
    ASSUME NEW n, NEW m, Mach(m, n), NEW inst, inst.kind = "Load", NEW omit
    PROVE  Effect(inst, m, omit)
             = Went(m, [ScratchedIn(m, inst.loc)
                          EXCEPT ![inst.rd] = Contents(m, Address(m, inst.loc, omit))],
                    m.mem, m.seen)
BY DEF Effect, Mach, Went, ScratchedIn

LEMMA EffectStore ==
    ASSUME NEW n, NEW m, Mach(m, n), NEW inst, inst.kind = "Store", NEW omit
    PROVE  LET address == Address(m, inst.loc, omit)
               v == ScratchedIn(m, inst.loc)[inst.src]
           IN Effect(inst, m, omit)
                = Went(m, ScratchedIn(m, inst.loc),
                       [a \in DOMAIN m.mem \cup {address} |-> IF a = address THEN v ELSE m.mem[a]],
                       IF OnStack(inst.loc) THEN m.seen
                       ELSE Append(m.seen, <<"store", address, v>>))
BY DEF Effect, Mach, Went, ScratchedIn, Saw

LEMMA SawIs ==
    ASSUME NEW n, NEW m, Mach(m, n), NEW e
    PROVE  Saw(m, e) = [regs |-> m.regs, mem |-> m.mem, seen |-> Append(m.seen, e),
                        asked |-> m.asked, pc |-> m.pc]
<1> DEFINE x == Append(m.seen, e)
<1> HIDE DEF x
<1>1. [m EXCEPT !.seen = x] = [regs |-> m.regs, mem |-> m.mem, seen |-> x,
                               asked |-> m.asked, pc |-> m.pc]
    BY DEF Mach
<1> QED BY <1>1, Zenon DEF Saw, x

LEMMA EffectCall ==
    ASSUME NEW n, NEW m, Mach(m, n), NEW inst, inst.kind = "Call", NEW omit
    PROVE  Effect(inst, m, omit)
             = Went(m, [r \in DOMAIN m.regs |->
                          IF r \in RETURN_REGS THEN <<"result", Len(m.seen)>>
                          ELSE IF r \in CALLER_SAVED_REGS THEN Unknown ELSE m.regs[r]],
                    m.mem, Append(m.seen, <<"call", [r \in inst.arg_regs |-> m.regs[r]]>>))
<1> DEFINE args == [r \in inst.arg_regs |-> m.regs[r]]
           called == Saw(m, <<"call", args>>)
           after == [r \in DOMAIN called.regs |->
                       IF r \in RETURN_REGS THEN <<"result", Len(m.seen)>>
                       ELSE IF r \in CALLER_SAVED_REGS THEN Unknown ELSE called.regs[r]]
<1> HIDE DEF args
<1>1. called = [regs |-> m.regs, mem |-> m.mem, seen |-> Append(m.seen, <<"call", args>>),
                asked |-> m.asked, pc |-> m.pc]
    BY SawIs
<1> HIDE DEF called
<1>5. called.regs = m.regs
    BY <1>1
<1>2. Effect(inst, m, omit) = [called EXCEPT !.regs = after, !.pc = called.pc + 1]
    BY DEF Effect, args, called
<1>3. after = [r \in DOMAIN m.regs |->
                 IF r \in RETURN_REGS THEN <<"result", Len(m.seen)>>
                 ELSE IF r \in CALLER_SAVED_REGS THEN Unknown ELSE m.regs[r]]
    BY <1>5
<1> HIDE DEF after
<1>4. Effect(inst, m, omit)
        = [regs |-> after, mem |-> m.mem, seen |-> Append(m.seen, <<"call", args>>),
           asked |-> m.asked, pc |-> m.pc + 1]
    BY <1>1, <1>2
<1> QED BY <1>3, <1>4 DEF Went, args

-----------------------------------------------------------------------------
(* An instruction over other registers does the same to them.              *)

(* loc2 is loc, and i2 inst, with the registers renamed by h.              *)
LocTo(loc, loc2, h) ==
    IF OnStack(loc) THEN loc2 = loc
    ELSE ~OnStack(loc2) /\ loc2.base = h[loc.base] /\ loc2.offset = loc.offset

InstTo(inst, i2, h) ==
    /\ i2.kind = inst.kind
    /\ inst.kind \in Defining => i2.rd = h[inst.rd]
    /\ inst.kind \in {"Li", "AluRRI"} => i2.imm = inst.imm
    /\ inst.kind = "AluRRI" => i2.rs = h[inst.rs]
    /\ inst.kind \in {"AluRRR", "Br"} => i2.rs1 = h[inst.rs1] /\ i2.rs2 = h[inst.rs2]
    /\ inst.kind \in {"Load", "LoadAddr", "Store"} => LocTo(inst.loc, i2.loc, h)
    /\ inst.kind = "Store" => i2.src = h[inst.src]
    /\ inst.kind = "Call" => i2.arg_regs = inst.arg_regs
    /\ inst.kind \in {"J", "Br"} => i2.block = inst.block

(* The registers the hardware and the convention name are not renamed.     *)
Renaming(h, n) ==
    /\ h \in [CodeRegs(n) -> RegsOf(n) \ {t0}]
    /\ h[sp] = sp /\ h[fp] = fp /\ h[zero] = zero /\ h[a0] = a0

(* The same memory, but for the addresses X. *)
SameMem(X, m, k) ==
    \A a : a \notin X => /\ a \in DOMAIN m.mem <=> a \in DOMAIN k.mem
                         /\ a \in DOMAIN m.mem => m.mem[a] = k.mem[a]

Unseen(X, m, k) ==
    m.seen = k.seen /\ m.asked = k.asked /\ SameMem(X, m, k)

(* What comes of m and k by inst and i2. *)
SameDone(inst, i2, h, X, m, k, e, f, n) ==
    /\ Mach(e, n) /\ Mach(f, n) /\ e.pc = m.pc + 1 /\ f.pc = k.pc + 1
    /\ Unseen(X, e, f)
    /\ \A a \in X : Contents(f, a) = Contents(k, a)
    /\ \A d \in Defs(inst) : f.regs[h[d]] = e.regs[d]
    /\ \A q \in RegsOf(n) \ (Clobbers(inst) \cup {t0}) : e.regs[q] = m.regs[q]
    /\ \A q \in RegsOf(n) \ (Clobbers(i2) \cup {t0}) : f.regs[q] = k.regs[q]
    /\ \A q \in (Clobbers(inst) \cap RegsOf(n)) \ Defs(inst) : e.regs[q] = f.regs[q]

LEMMA WentMach ==
    ASSUME NEW n, NEW m, Mach(m, n), NEW regs, NEW mem, NEW seen,
           regs = [r \in RegsOf(n) |-> regs[r]], mem = [a \in DOMAIN mem |-> mem[a]]
    PROVE  LET e == Went(m, regs, mem, seen)
           IN Mach(e, n) /\ e.regs = regs /\ e.mem = mem /\ e.seen = seen
              /\ e.asked = m.asked /\ e.pc = m.pc + 1
BY DEF Mach, Went

LEMMA SetIs ==
    ASSUME NEW n, NEW h, h = [r \in RegsOf(n) |-> h[r]], NEW r \in RegsOf(n), NEW v
    PROVE  /\ [h EXCEPT ![r] = v] = [q \in RegsOf(n) |-> [h EXCEPT ![r] = v][q]]
           /\ [h EXCEPT ![r] = v][r] = v
           /\ \A q \in RegsOf(n) \ {r} : [h EXCEPT ![r] = v][q] = h[q]
OBVIOUS

LEMMA ScratchedIs ==
    ASSUME NEW n, NEW m, Mach(m, n), NEW loc
    PROVE  /\ ScratchedIn(m, loc) = [q \in RegsOf(n) |-> ScratchedIn(m, loc)[q]]
           /\ \A q \in RegsOf(n) \ {t0} : ScratchedIn(m, loc)[q] = m.regs[q]
<1>1. t0 \in RegsOf(n) /\ m.regs = [r \in RegsOf(n) |-> m.regs[r]]
    BY CodeRegsIn DEF Mach
<1> QED BY <1>1, SetIs DEF ScratchedIn

LEMMA SameSet ==
    ASSUME NEW n, NEW m, NEW k, Mach(m, n), Mach(k, n), NEW h, Renaming(h, n), NEW X,
           Unseen(X, m, k),
           NEW inst, NEW i2, inst.kind \in Defining, InstTo(inst, i2, h), inst.rd \in CodeRegs(n),
           NEW a, NEW b, NEW v,
           a = [q \in RegsOf(n) |-> a[q]], b = [q \in RegsOf(n) |-> b[q]],
           \A q \in RegsOf(n) \ {t0} : a[q] = m.regs[q] /\ b[q] = k.regs[q]
    PROVE  SameDone(inst, i2, h, X, m, k, Went(m, [a EXCEPT ![inst.rd] = v], m.mem, m.seen),
                    Went(k, [b EXCEPT ![i2.rd] = v], k.mem, k.seen), n)
<1> DEFINE g == [a EXCEPT ![inst.rd] = v]
           l == [b EXCEPT ![i2.rd] = v]
           e == Went(m, g, m.mem, m.seen)
           f == Went(k, l, k.mem, k.seen)
<1>1. /\ i2.rd = h[inst.rd] /\ inst.rd \in RegsOf(n) \ {t0} /\ i2.rd \in RegsOf(n) \ {t0}
      /\ i2.kind = inst.kind
    BY CodeRegsIn DEF InstTo, Renaming
<1>2. /\ g = [q \in RegsOf(n) |-> g[q]] /\ g[inst.rd] = v
      /\ \A q \in RegsOf(n) \ {inst.rd} : g[q] = a[q]
    BY <1>1, SetIs
<1>3. /\ l = [q \in RegsOf(n) |-> l[q]] /\ l[i2.rd] = v
      /\ \A q \in RegsOf(n) \ {i2.rd} : l[q] = b[q]
    BY <1>1, SetIs
<1> HIDE DEF g, l
<1>4. /\ Mach(e, n) /\ e.regs = g /\ e.mem = m.mem /\ e.seen = m.seen
      /\ e.asked = m.asked /\ e.pc = m.pc + 1
    BY <1>2, WentMach DEF Mach
<1>5. /\ Mach(f, n) /\ f.regs = l /\ f.mem = k.mem /\ f.seen = k.seen
      /\ f.asked = k.asked /\ f.pc = k.pc + 1
    BY <1>3, WentMach DEF Mach
<1> HIDE DEF e, f
<1>6. /\ Defs(inst) = {inst.rd} /\ Clobbers(inst) = {inst.rd} /\ Clobbers(i2) = {i2.rd}
    BY <1>1 DEF Defs, Clobbers, Defining
<1>7. Unseen(X, e, f) /\ \A x \in X : Contents(f, x) = Contents(k, x)
    BY <1>4, <1>5 DEF Unseen, SameMem, Contents
<1>8. /\ \A d \in Defs(inst) : f.regs[h[d]] = e.regs[d]
      /\ \A q \in RegsOf(n) \ (Clobbers(inst) \cup {t0}) : e.regs[q] = m.regs[q]
      /\ \A q \in RegsOf(n) \ (Clobbers(i2) \cup {t0}) : f.regs[q] = k.regs[q]
      /\ \A q \in (Clobbers(inst) \cap RegsOf(n)) \ Defs(inst) : e.regs[q] = f.regs[q]
    BY <1>1, <1>2, <1>3, <1>4, <1>5, <1>6
<1>9. SameDone(inst, i2, h, X, m, k, e, f, n)
    BY <1>4, <1>5, <1>7, <1>8 DEF SameDone
<1> QED BY <1>9 DEF e, f, g, l

LEMMA SameAddress ==
    ASSUME NEW n, NEW m, NEW k, NEW h, Renaming(h, n), NEW omit,
           NEW loc \in Locations(CodeRegs(n)), NEW loc2, LocTo(loc, loc2, h),
           \A u \in LocUses(loc, omit) : k.regs[h[u]] = m.regs[u]
    PROVE  Address(k, loc2, omit) = Address(m, loc, omit)
<1>1. CASE OnStack(loc)
    <2> DEFINE r == IF omit THEN sp ELSE fp
    <2>1. k.regs[r] = m.regs[r]
        BY <1>1 DEF LocUses, Renaming
    <2> QED BY <1>1, <2>1 DEF Address, LocTo
<1>2. CASE ~OnStack(loc)
    <2>1. k.regs[h[loc.base]] = m.regs[loc.base]
        BY <1>2 DEF LocUses
    <2> QED BY <1>2, <2>1 DEF Address, LocTo
<1> QED BY <1>1, <1>2

LEMMA SameContents ==
    ASSUME NEW X, NEW m, NEW k, SameMem(X, m, k), NEW a, a \notin X
    PROVE  Contents(m, a) = Contents(k, a)
BY DEF SameMem, Contents

LEMMA SameEffect ==
    ASSUME NEW n, NEW m, NEW k, Mach(m, n), Mach(k, n), NEW h, Renaming(h, n), NEW X,
           Unseen(X, m, k), NEW omit,
           NEW inst \in Instructions(CodeRegs(n)), NEW i2, ~IsTerminator(inst),
           InstTo(inst, i2, h),
           inst.kind = "Call" => inst.arg_regs \subseteq {a0},
           \A u \in Uses(inst, omit) : k.regs[h[u]] = m.regs[u],
           inst.kind \in {"Load", "Store"} => Address(m, inst.loc, omit) \notin X
    PROVE  SameDone(inst, i2, h, X, m, k, Effect(inst, m, omit), Effect(i2, k, omit), n)
<1> DEFINE S(e, f) == SameDone(inst, i2, h, X, m, k, e, f, n)
<1>a. /\ m.regs = [q \in RegsOf(n) |-> m.regs[q]] /\ k.regs = [q \in RegsOf(n) |-> k.regs[q]]
    BY DEF Mach
<1>1. CASE inst.kind = "Li"
    <2>1. i2.kind = "Li" /\ i2.imm = inst.imm /\ inst.rd \in CodeRegs(n) /\ inst.kind \in Defining
        BY <1>1 DEF InstTo, Instructions, Defining
    <2>2. S(Went(m, [m.regs EXCEPT ![inst.rd] = Number(inst.imm)], m.mem, m.seen),
            Went(k, [k.regs EXCEPT ![i2.rd] = Number(inst.imm)], k.mem, k.seen))
        BY <1>a, <2>1, SameSet
    <2> QED BY <1>1, <2>1, <2>2, EffectLi
<1>2. CASE inst.kind = "AluRRI"
    <2> DEFINE v == Sum2(m.regs[inst.rs], Number(inst.imm))
    <2>1. /\ i2.kind = "AluRRI" /\ i2.imm = inst.imm /\ inst.rd \in CodeRegs(n)
          /\ inst.kind \in Defining /\ i2.rs = h[inst.rs] /\ Uses(inst, omit) = {inst.rs}
        BY <1>2 DEF InstTo, Instructions, Defining, Uses
    <2>2. k.regs[i2.rs] = m.regs[inst.rs]
        BY <2>1
    <2>3. Sum2(k.regs[i2.rs], Number(i2.imm)) = v
        BY <2>1, <2>2
    <2> HIDE DEF v
    <2>4. S(Went(m, [m.regs EXCEPT ![inst.rd] = v], m.mem, m.seen),
            Went(k, [k.regs EXCEPT ![i2.rd] = v], k.mem, k.seen))
        BY <1>a, <2>1, SameSet
    <2>5. /\ Effect(inst, m, omit) = Went(m, [m.regs EXCEPT ![inst.rd] = v], m.mem, m.seen)
          /\ Effect(i2, k, omit) = Went(k, [k.regs EXCEPT ![i2.rd] = v], k.mem, k.seen)
        BY <1>2, <2>1, <2>3, EffectAluRRI DEF v
    <2> QED BY <2>4, <2>5
<1>3. CASE inst.kind = "AluRRR"
    <2> DEFINE v == Sum2(m.regs[inst.rs1], m.regs[inst.rs2])
    <2>1. /\ i2.kind = "AluRRR" /\ inst.rd \in CodeRegs(n) /\ inst.kind \in Defining
          /\ i2.rs1 = h[inst.rs1] /\ i2.rs2 = h[inst.rs2]
          /\ Uses(inst, omit) = {inst.rs1, inst.rs2}
        BY <1>3 DEF InstTo, Instructions, Defining, Uses
    <2>2. k.regs[i2.rs1] = m.regs[inst.rs1] /\ k.regs[i2.rs2] = m.regs[inst.rs2]
        BY <2>1
    <2>3. Sum2(k.regs[i2.rs1], k.regs[i2.rs2]) = v
        BY <2>2
    <2> HIDE DEF v
    <2>4. S(Went(m, [m.regs EXCEPT ![inst.rd] = v], m.mem, m.seen),
            Went(k, [k.regs EXCEPT ![i2.rd] = v], k.mem, k.seen))
        BY <1>a, <2>1, SameSet
    <2>5. /\ Effect(inst, m, omit) = Went(m, [m.regs EXCEPT ![inst.rd] = v], m.mem, m.seen)
          /\ Effect(i2, k, omit) = Went(k, [k.regs EXCEPT ![i2.rd] = v], k.mem, k.seen)
        BY <1>3, <2>1, <2>3, EffectAluRRR DEF v
    <2> QED BY <2>4, <2>5
<1>4. CASE inst.kind \in {"Load", "LoadAddr"}
    <2> DEFINE a == Address(m, inst.loc, omit)
               v == IF inst.kind = "Load" THEN Contents(m, a) ELSE a
    <2>1. /\ i2.kind = inst.kind /\ inst.rd \in CodeRegs(n) /\ inst.kind \in Defining
          /\ inst.loc \in Locations(CodeRegs(n)) /\ LocTo(inst.loc, i2.loc, h)
          /\ Uses(inst, omit) = LocUses(inst.loc, omit)
        BY <1>4 DEF InstTo, Instructions, Defining, Uses
    <2>2. Address(k, i2.loc, omit) = a
        BY <2>1, SameAddress
    <2>3. inst.kind = "Load" => Contents(k, a) = Contents(m, a)
        BY SameContents DEF Unseen
    <2> HIDE DEF a
    <2>4. Effect(inst, m, omit) = Went(m, [ScratchedIn(m, inst.loc) EXCEPT ![inst.rd] = v],
                                       m.mem, m.seen)
        BY <1>4, EffectLoad, EffectLoadAddr DEF a
    <2>5. Effect(i2, k, omit) = Went(k, [ScratchedIn(k, i2.loc) EXCEPT ![i2.rd] = v],
                                     k.mem, k.seen)
        BY <1>4, <2>1, <2>2, <2>3, EffectLoad, EffectLoadAddr
    <2> HIDE DEF v
    <2>6. /\ ScratchedIn(m, inst.loc) = [q \in RegsOf(n) |-> ScratchedIn(m, inst.loc)[q]]
          /\ ScratchedIn(k, i2.loc) = [q \in RegsOf(n) |-> ScratchedIn(k, i2.loc)[q]]
          /\ \A q \in RegsOf(n) \ {t0} : /\ ScratchedIn(m, inst.loc)[q] = m.regs[q]
                                         /\ ScratchedIn(k, i2.loc)[q] = k.regs[q]
        BY ScratchedIs
    <2>7. S(Went(m, [ScratchedIn(m, inst.loc) EXCEPT ![inst.rd] = v], m.mem, m.seen),
            Went(k, [ScratchedIn(k, i2.loc) EXCEPT ![i2.rd] = v], k.mem, k.seen))
        BY <2>1, <2>6, SameSet
    <2> QED BY <2>4, <2>5, <2>7
<1>5. CASE inst.kind = "Store"
    <2> DEFINE a == Address(m, inst.loc, omit)
               v == ScratchedIn(m, inst.loc)[inst.src]
               Mem(j) == [x \in DOMAIN j.mem \cup {a} |-> IF x = a THEN v ELSE j.mem[x]]
               Seen(j) == IF OnStack(inst.loc) THEN j.seen ELSE Append(j.seen, <<"store", a, v>>)
               e == Went(m, ScratchedIn(m, inst.loc), Mem(m), Seen(m))
               f == Went(k, ScratchedIn(k, i2.loc), Mem(k), Seen(k))
    <2>1. /\ i2.kind = inst.kind /\ inst.src \in CodeRegs(n) /\ i2.src = h[inst.src]
          /\ inst.loc \in Locations(CodeRegs(n)) /\ LocTo(inst.loc, i2.loc, h)
          /\ Uses(inst, omit) = {inst.src} \cup LocUses(inst.loc, omit)
        BY <1>5 DEF InstTo, Instructions, Uses
    <2>2. Address(k, i2.loc, omit) = a /\ k.regs[i2.src] = m.regs[inst.src]
        BY <2>1, SameAddress
    <2>3. inst.src \in RegsOf(n) \ {t0} /\ i2.src \in RegsOf(n) \ {t0}
        BY <2>1, CodeRegsIn DEF Renaming
    <2>4. /\ ScratchedIn(m, inst.loc) = [q \in RegsOf(n) |-> ScratchedIn(m, inst.loc)[q]]
          /\ ScratchedIn(k, i2.loc) = [q \in RegsOf(n) |-> ScratchedIn(k, i2.loc)[q]]
          /\ \A q \in RegsOf(n) \ {t0} : /\ ScratchedIn(m, inst.loc)[q] = m.regs[q]
                                         /\ ScratchedIn(k, i2.loc)[q] = k.regs[q]
        BY ScratchedIs
    <2>5. ScratchedIn(k, i2.loc)[i2.src] = v
        BY <2>2, <2>3, <2>4
    <2>6. OnStack(i2.loc) <=> OnStack(inst.loc)
        BY <2>1 DEF LocTo
    <2>7. a \notin X
        BY <1>5
    <2> HIDE DEF a, v
    <2>8. Effect(inst, m, omit) = e
        BY <1>5, EffectStore DEF a, v
    <2>9. Effect(i2, k, omit) = f
        <3>1. Effect(i2, k, omit)
                = Went(k, ScratchedIn(k, i2.loc),
                       [x \in DOMAIN k.mem \cup {a} |-> IF x = a THEN v ELSE k.mem[x]],
                       IF OnStack(i2.loc) THEN k.seen
                       ELSE Append(k.seen, <<"store", a, v>>))
            BY <1>5, <2>1, <2>2, <2>5, EffectStore
        <3> QED BY <2>6, <3>1
    <2>10. Seen(m) = Seen(k)
        BY DEF Unseen
    <2>11. /\ Mem(m) = [x \in DOMAIN Mem(m) |-> Mem(m)[x]]
           /\ Mem(k) = [x \in DOMAIN Mem(k) |-> Mem(k)[x]]
        OBVIOUS
    <2>12. \A x : x \notin X => /\ x \in DOMAIN Mem(m) <=> x \in DOMAIN Mem(k)
                                /\ x \in DOMAIN Mem(m) => Mem(m)[x] = Mem(k)[x]
        BY DEF Unseen, SameMem
    <2>13. \A x \in X : /\ x \in DOMAIN Mem(k) <=> x \in DOMAIN k.mem
                        /\ x \in DOMAIN k.mem => Mem(k)[x] = k.mem[x]
        BY <2>7
    <2> HIDE DEF Mem, Seen
    <2>14. /\ Mach(e, n) /\ e.regs = ScratchedIn(m, inst.loc) /\ e.mem = Mem(m)
           /\ e.seen = Seen(m) /\ e.asked = m.asked /\ e.pc = m.pc + 1
        BY <2>4, <2>11, WentMach
    <2>15. /\ Mach(f, n) /\ f.regs = ScratchedIn(k, i2.loc) /\ f.mem = Mem(k)
           /\ f.seen = Seen(k) /\ f.asked = k.asked /\ f.pc = k.pc + 1
        BY <2>4, <2>11, WentMach
    <2> HIDE DEF e, f
    <2>16. Unseen(X, e, f)
        BY <2>10, <2>12, <2>14, <2>15 DEF Unseen, SameMem
    <2>17. \A x \in X : Contents(f, x) = Contents(k, x)
        BY <2>13, <2>15 DEF Contents
    <2>18. Defs(inst) = {} /\ Clobbers(inst) = {} /\ Clobbers(i2) = {}
        BY <1>5, <2>1 DEF Defs, Clobbers, Defining
    <2> QED BY <2>4, <2>8, <2>9, <2>14, <2>15, <2>16, <2>17, <2>18 DEF SameDone
<1>6. CASE inst.kind = "Call"
    <2> DEFINE After(j) == [r \in DOMAIN j.regs |->
                              IF r \in RETURN_REGS THEN <<"result", Len(j.seen)>>
                              ELSE IF r \in CALLER_SAVED_REGS THEN Unknown ELSE j.regs[r]]
               Args(j) == [r \in inst.arg_regs |-> j.regs[r]]
               Seen(j) == Append(j.seen, <<"call", Args(j)>>)
               e == Went(m, After(m), m.mem, Seen(m))
               f == Went(k, After(k), k.mem, Seen(k))
    <2>1. i2.kind = "Call" /\ i2.arg_regs = inst.arg_regs /\ Uses(inst, omit) = inst.arg_regs
        BY <1>6 DEF InstTo, Uses
    <2>2. \A r \in inst.arg_regs : k.regs[r] = m.regs[r]
        BY <1>6, <2>1 DEF Renaming
    <2>3. Args(m) = Args(k)
        BY <2>2
    <2>4. Effect(inst, m, omit) = e
        BY <1>6, EffectCall
    <2>5. Effect(i2, k, omit) = f
        BY <2>1, EffectCall
    <2> HIDE DEF Args
    <2>6. Seen(m) = Seen(k)
        BY <2>3 DEF Unseen
    <2>7. DOMAIN m.regs = RegsOf(n) /\ DOMAIN k.regs = RegsOf(n) /\ m.seen = k.seen
        BY <1>a DEF Unseen
    <2>8. /\ After(m) = [r \in RegsOf(n) |-> After(m)[r]]
          /\ After(k) = [r \in RegsOf(n) |-> After(k)[r]]
          /\ \A r \in RegsOf(n) : /\ r \in CALLER_SAVED_REGS => After(m)[r] = After(k)[r]
                                  /\ r \notin CALLER_SAVED_REGS \cup RETURN_REGS =>
                                        After(m)[r] = m.regs[r] /\ After(k)[r] = k.regs[r]
        BY <2>7
    <2>9. Defs(inst) = {a0} /\ Clobbers(inst) = CALLER_SAVED_REGS /\ Clobbers(i2) = CALLER_SAVED_REGS
        BY <1>6, <2>1 DEF Defs, Clobbers, RETURN_REGS
    <2>10. a0 \in CALLER_SAVED_REGS /\ RETURN_REGS = {a0} /\ a0 \in RegsOf(n) /\ h[a0] = a0
        <3>1. a0 \in CALLER_SAVED_REGS
            BY DEF a0, P, CALLER_SAVED_REGS
        <3> QED BY <3>1, CodeRegsIn DEF RETURN_REGS, Renaming
    <2> HIDE DEF After, Seen
    <2>11. /\ Mach(e, n) /\ e.regs = After(m) /\ e.mem = m.mem
           /\ e.seen = Seen(m) /\ e.asked = m.asked /\ e.pc = m.pc + 1
        BY <2>8, WentMach DEF Mach
    <2>12. /\ Mach(f, n) /\ f.regs = After(k) /\ f.mem = k.mem
           /\ f.seen = Seen(k) /\ f.asked = k.asked /\ f.pc = k.pc + 1
        BY <2>8, WentMach DEF Mach
    <2> HIDE DEF e, f
    <2>13. Unseen(X, e, f) /\ \A x \in X : Contents(f, x) = Contents(k, x)
        BY <2>6, <2>11, <2>12 DEF Unseen, SameMem, Contents
    <2>14. /\ \A d \in Defs(inst) : f.regs[h[d]] = e.regs[d]
           /\ \A q \in RegsOf(n) \ (Clobbers(inst) \cup {t0}) : e.regs[q] = m.regs[q]
           /\ \A q \in RegsOf(n) \ (Clobbers(i2) \cup {t0}) : f.regs[q] = k.regs[q]
           /\ \A q \in (Clobbers(inst) \cap RegsOf(n)) \ Defs(inst) : e.regs[q] = f.regs[q]
        BY <2>8, <2>9, <2>10, <2>11, <2>12
    <2> QED BY <2>4, <2>5, <2>11, <2>12, <2>13, <2>14 DEF SameDone
<1> QED
    BY <1>1, <1>2, <1>3, <1>4, <1>5, <1>6 DEF Instructions, IsTerminator

Less == {p \in Nat \X Nat : p[1] < p[2]}

LEMMA LeastMember ==
    ASSUME NEW T \in SUBSET Nat, T # {}
    PROVE  \E x \in T : \A y \in T : x <= y
<1>1. IsWellFoundedOn(Less, Nat)
    BY NatLessThanWellFounded DEF Less, OpToRel
<1>2. PICK x \in T : \A y \in T : <<y, x>> \notin Less
    BY <1>1, WFMin, Zenon
<1>3. \A y \in T : ~ (y < x)
    BY <1>2 DEF Less
<1> QED BY <1>3

-----------------------------------------------------------------------------
(* Where the parts of a flattened sequence are. *)

Layout(bl, B, st) ==
    /\ st \in [1 .. (B + 1) -> Nat \ {0}]
    /\ st[1] = 1
    /\ \A b \in 1 .. B : st[b + 1] = st[b] + Len(bl[b])
    /\ Len(FlattenSeq(bl)) = st[B + 1] - 1
    /\ \A b \in 1 .. B : \A i \in 1 .. Len(bl[b]) : FlattenSeq(bl)[st[b] + i - 1] = bl[b][i]
    /\ \A b \in 1 .. B : Start(bl, b) = st[b]

Flattens(f, bl, k) ==
    f = [i \in 1 .. k |-> IF i = 1 THEN bl[i] ELSE f[i - 1] \o bl[i]]

LEMMA FlattensExists ==
    ASSUME NEW bl, NEW k \in Nat
    PROVE  \E f : Flattens(f, bl, k)
<1> DEFINE T == {n \in Nat : ~ \E f : Flattens(f, bl, n)}
<1>1. ASSUME T # {} PROVE FALSE
    <2>1. PICK n \in T : \A m \in T : n <= m
        BY <1>1, LeastMember
    <2>2. n # 0
        <3>1. Flattens([i \in 1 .. 0 |-> <<>>], bl, 0)
            BY DEF Flattens
        <3> QED BY <3>1
    <2>a. n \in Nat /\ n - 1 \in Nat
        <3>1. n \in Nat
            BY <2>1
        <3> QED BY <2>2, <3>1
    <2>b. n - 1 \notin T
        <3> HIDE DEF T
        <3> QED BY <2>1, <2>a
    <2>3. n - 1 \in Nat /\ n - 1 \notin T
        BY <2>a, <2>b
    <2>4. PICK f : Flattens(f, bl, n - 1)
        BY <2>3
    <2> DEFINE last == IF n = 1 THEN bl[n] ELSE f[n - 1] \o bl[n]
               longer == [i \in 1 .. n |-> IF i = n THEN last ELSE f[i]]
    <2>5. \A i \in 1 .. n :
             longer[i] = IF i = 1 THEN bl[i] ELSE longer[i - 1] \o bl[i]
        <3>1. ASSUME NEW i \in 1 .. n
              PROVE  longer[i] = IF i = 1 THEN bl[i] ELSE longer[i - 1] \o bl[i]
            <4>1. n \in Nat /\ i \in Nat /\ 1 <= i /\ i <= n
                BY <2>a
            <4> HIDE DEF T, last
            <4>2. CASE i = n
                <5>1. longer[i] = last
                    BY <4>2
                <5>2. i # 1 => longer[i - 1] = f[i - 1]
                    BY <4>1, <4>2
                <5> QED BY <4>2, <5>1, <5>2 DEF last
            <4>3. CASE i # n
                <5>1. i \in 1 .. (n - 1) /\ longer[i] = f[i]
                    BY <4>1, <4>3
                <5>2. i # 1 => longer[i - 1] = f[i - 1]
                    BY <4>1, <4>3
                <5>3. f[i] = IF i = 1 THEN bl[i] ELSE f[i - 1] \o bl[i]
                    BY <2>4, <5>1 DEF Flattens
                <5> QED BY <5>1, <5>2, <5>3
            <4> QED BY <4>2, <4>3
        <3> HIDE DEF longer
        <3> QED BY <3>1
    <2>6. Flattens(longer, bl, n)
        BY <2>5 DEF Flattens
    <2> QED BY <2>6
<1> QED BY <1>1

LEMMA FlattenIs ==
    ASSUME NEW bl, Len(bl) \in Nat \ {0}
    PROVE  \E f : Flattens(f, bl, Len(bl)) /\ FlattenSeq(bl) = f[Len(bl)]
<1> DEFINE g == CHOOSE f : Flattens(f, bl, Len(bl))
<1>1. Flattens(g, bl, Len(bl))
    BY FlattensExists, Zenon
<1>2. FlattenSeq(bl) = g[Len(bl)]
    BY DEF FlattenSeq, Flattens
<1> QED BY <1>1, <1>2

(* The first parts flatten to the beginning of the whole. *)
LEMMA FlattensAgree ==
    ASSUME NEW f, NEW g, NEW bl, NEW cl, NEW k \in Nat, NEW l \in Nat, l <= k,
           Flattens(f, bl, k), Flattens(g, cl, l), \A i \in 1 .. l : cl[i] = bl[i]
    PROVE  \A i \in 1 .. l : g[i] = f[i]
<1> DEFINE T == {i \in Nat : i \in 1 .. l /\ g[i] # f[i]}
<1>1. ASSUME T # {} PROVE FALSE
    <2>1. PICK i \in T : \A j \in T : i <= j
        BY <1>1, LeastMember
    <2>2. i \in 1 .. l /\ i \in 1 .. k /\ g[i] # f[i]
        BY <2>1
    <2>3. /\ g[i] = IF i = 1 THEN cl[i] ELSE g[i - 1] \o cl[i]
          /\ f[i] = IF i = 1 THEN bl[i] ELSE f[i - 1] \o bl[i]
        BY <2>2 DEF Flattens
    <2>4. i # 1 => g[i - 1] = f[i - 1]
        BY <2>1, <2>2
    <2> QED BY <2>2, <2>3, <2>4
<1> QED BY <1>1

LEMMA ConcatIs ==
    ASSUME NEW S, NEW s \in Seq(S), NEW t \in Seq(S)
    PROVE  /\ s \o t \in Seq(S) /\ Len(s \o t) = Len(s) + Len(t)
           /\ Len(s) \in Nat /\ Len(t) \in Nat
           /\ \A i \in 1 .. Len(s) : (s \o t)[i] = s[i]
           /\ \A i \in 1 .. Len(t) : (s \o t)[Len(s) + i] = t[i]
OBVIOUS

LEMMA StartIs ==
    ASSUME NEW bl, NEW B \in Nat, Len(bl) = B, NEW f, Flattens(f, bl, B),
           NEW b \in 1 .. B, b # 1
    PROVE  Start(bl, b) = Len(f[b - 1]) + 1
<1>1. PICK l \in Nat \ {0} : l = b - 1 /\ l <= B
    OBVIOUS
<1>2. PICK cl : cl = SubSeq(bl, 1, b - 1)
    OBVIOUS
<1>3. Len(cl) = l /\ \A i \in 1 .. l : cl[i] = bl[i]
    BY <1>1, <1>2
<1>4. PICK g : Flattens(g, cl, l) /\ FlattenSeq(cl) = g[l]
    BY <1>3, FlattenIs
<1>5. \A i \in 1 .. l : g[i] = f[i]
    <2>1. /\ Flattens(f, bl, B) /\ Flattens(g, cl, l) /\ l \in Nat /\ B \in Nat /\ l <= B
          /\ \A i \in 1 .. l : cl[i] = bl[i]
        BY <1>1, <1>3, <1>4
    <2> QED BY <2>1, FlattensAgree
<1>6. l \in 1 .. l
    BY <1>1
<1>7. FlattenSeq(cl) = f[b - 1]
    BY <1>1, <1>4, <1>5, <1>6
<1> QED BY <1>2, <1>7 DEF Start

(* Arithmetic of places. *)
LEMMA PieceInside ==
    ASSUME NEW x \in Nat, NEW y \in Nat, NEW z, z = x + y, NEW j \in 1 .. y
    PROVE  (x + 1) + j - 1 = x + j /\ x + j <= z
OBVIOUS

LEMMA PlaceBefore ==
    ASSUME NEW x \in Nat, NEW y \in Nat, NEW z \in Nat, x + y <= z, NEW i \in 0 .. y, i < y,
           NEW q, q = x + i
    PROVE  q < z
OBVIOUS

LEMMA PlaceFirst ==
    ASSUME NEW q \in Nat
    PROVE  q = q + 0
OBVIOUS

LEMMA NextPlace ==
    ASSUME NEW lo, NEW hi, NEW z, z \in Nat, lo \in 0 .. z, hi \in 0 .. z, hi = lo + 1
    PROVE  lo < z /\ lo + 1 \in 1 .. z /\ (lo + 1) - 1 = lo
OBVIOUS

LEMMA LaterBlock ==
    ASSUME NEW b \in 1 .. Blocks, NEW d \in (b + 1) .. Blocks
    PROVE  d \in 1 .. Blocks
BY RegAllocAssumption

LEMMA FlattenLayout ==
    ASSUME NEW S, NEW B \in Nat \ {0}, NEW bl \in [1 .. B -> Seq(S)]
    PROVE  /\ FlattenSeq(bl) \in Seq(S)
           /\ \E st : Layout(bl, B, st)
<1>1. Len(bl) = B
    OBVIOUS
<1>2. PICK f : Flattens(f, bl, B) /\ FlattenSeq(bl) = f[B]
    BY <1>1, FlattenIs
<1>3. \A i \in 1 .. B : f[i] = IF i = 1 THEN bl[i] ELSE f[i - 1] \o bl[i]
    BY <1>2 DEF Flattens
<1> DEFINE st == [b \in 1 .. (B + 1) |-> IF b = 1 THEN 1 ELSE Len(f[b - 1]) + 1]
           Good(i) == /\ f[i] \in Seq(S)
                      /\ \A b \in 1 .. i : st[b] \in Nat \ {0}
                      /\ \A b \in 1 .. i : st[b + 1] = st[b] + Len(bl[b])
                      /\ \A b \in 1 .. i : \A j \in 1 .. Len(bl[b]) : /\ f[i][st[b] + j - 1] = bl[b][j]
                                                                     /\ st[b] + j - 1 <= Len(f[i])
           T == {i \in Nat : i \in 1 .. B /\ ~Good(i)}
<1>4. ASSUME T # {} PROVE FALSE
    <2>1. PICK i \in T : \A j \in T : i <= j
        BY <1>4, LeastMember
    <2>2. i \in 1 .. B /\ ~Good(i) /\ i \in Nat
        BY <2>1
    <2>3. CASE i = 1
        <3>1. f[1] = bl[1] /\ st[1] = 1 /\ st[2] = Len(f[1]) + 1 /\ bl[1] \in Seq(S)
            BY <1>3, <2>2
        <3>2. Len(bl[1]) \in Nat
            BY <3>1
        <3> HIDE DEF st
        <3>3. Good(1)
            BY <3>1, <3>2
        <3> QED BY <2>2, <2>3, <3>3
    <2>4. CASE i # 1
        <3>a. i - 1 \in 1 .. B /\ i - 1 \in Nat
            <4> HIDE DEF Good, st
            <4> QED BY <2>2, <2>4
        <3>b. i - 1 \notin T
            <4> HIDE DEF Good, T, st
            <4> QED BY <2>1, <2>2, <3>a
        <3>1. i - 1 \in 1 .. B /\ Good(i - 1)
            <4> HIDE DEF Good, st
            <4> QED BY <3>a, <3>b
        <3>c. f[i - 1] \in Seq(S)
            BY <3>1
        <3>2. f[i] = f[i - 1] \o bl[i] /\ bl[i] \in Seq(S) /\ f[i - 1] \in Seq(S)
            <4> HIDE DEF Good, T, st
            <4> QED BY <1>3, <2>2, <2>4, <3>c
        <3>3. /\ f[i] \in Seq(S) /\ Len(f[i]) = Len(f[i - 1]) + Len(bl[i])
              /\ Len(f[i - 1]) \in Nat /\ Len(bl[i]) \in Nat
              /\ \A j \in 1 .. Len(f[i - 1]) : f[i][j] = f[i - 1][j]
              /\ \A j \in 1 .. Len(bl[i]) : f[i][Len(f[i - 1]) + j] = bl[i][j]
            <4> HIDE DEF Good, T, st
            <4> DEFINE p == f[i - 1]
                       q == bl[i]
            <4>1. p \in Seq(S) /\ q \in Seq(S) /\ f[i] = p \o q
                BY <3>2
            <4> HIDE DEF p, q
            <4>2. /\ p \o q \in Seq(S) /\ Len(p \o q) = Len(p) + Len(q)
                  /\ Len(p) \in Nat /\ Len(q) \in Nat
                  /\ \A j \in 1 .. Len(p) : (p \o q)[j] = p[j]
                  /\ \A j \in 1 .. Len(q) : (p \o q)[Len(p) + j] = q[j]
                BY <4>1, ConcatIs
            <4> QED BY <4>1, <4>2 DEF p, q
        <3>4. st[i] = Len(f[i - 1]) + 1 /\ st[i + 1] = Len(f[i]) + 1
            <4> HIDE DEF Good, T
            <4>1. i \in 1 .. (B + 1) /\ i + 1 \in 1 .. (B + 1) /\ i + 1 # 1 /\ (i + 1) - 1 = i
                BY <2>2
            <4> QED BY <2>4, <4>1
        <3> HIDE DEF st
        <3>5. st[i] \in Nat \ {0} /\ st[i + 1] = st[i] + Len(bl[i])
            <4> DEFINE p == Len(f[i - 1])
                       q == Len(f[i])
                       n == Len(bl[i])
            <4>0. p \in Nat /\ n \in Nat /\ q = p + n
                BY <3>3, Zenon
            <4> HIDE DEF p, q, n
            <4>a. p + 1 \in Nat \ {0} /\ q + 1 = (p + 1) + n
                BY <4>0
            <4>1. /\ Len(f[i - 1]) + 1 \in Nat \ {0}
                  /\ Len(f[i]) + 1 = (Len(f[i - 1]) + 1) + Len(bl[i])
                BY <4>a, Zenon DEF p, q, n
            <4> QED BY <3>4, <4>1, Zenon
        <3>6. ASSUME NEW b \in 1 .. (i - 1), NEW j \in 1 .. Len(bl[b])
              PROVE  f[i][st[b] + j - 1] = bl[b][j] /\ st[b] + j - 1 <= Len(f[i])
            <4>1. /\ f[i - 1][st[b] + j - 1] = bl[b][j] /\ st[b] + j - 1 <= Len(f[i - 1])
                  /\ st[b] \in Nat \ {0}
                <5> HIDE DEF T
                <5>1. b \in 1 .. (i - 1) /\ j \in 1 .. Len(bl[b])
                    OBVIOUS
                <5>2. st[b] \in Nat \ {0}
                    BY <3>1, <5>1
                <5> QED BY <3>1, <5>1, <5>2
            <4>2. bl[b] \in Seq(S)
                BY <2>2
            <4>3. Len(bl[b]) \in Nat /\ j \in Nat /\ 1 <= j
                BY <4>2
            <4> HIDE DEF Good, T
            <4>4. st[b] + j - 1 \in 1 .. Len(f[i - 1])
                BY <3>3, <4>1, <4>3
            <4>5. st[b] + j - 1 <= Len(f[i])
                <5> DEFINE x == st[b] + j - 1
                           y == Len(f[i - 1])
                           z == Len(bl[i])
                <5>1. x \in 1 .. y /\ y \in Nat /\ z \in Nat /\ Len(f[i]) = y + z
                    BY <3>3, <4>4
                <5> HIDE DEF x, y, z
                <5>2. x <= y + z
                    BY <5>1
                <5> QED BY <5>1, <5>2 DEF x
            <4> QED BY <3>3, <4>1, <4>4, <4>5
        <3>7. ASSUME NEW j \in 1 .. Len(bl[i])
              PROVE  f[i][st[i] + j - 1] = bl[i][j] /\ st[i] + j - 1 <= Len(f[i])
            <4>1. /\ (Len(f[i - 1]) + 1) + j - 1 = Len(f[i - 1]) + j
                  /\ Len(f[i - 1]) + j <= Len(f[i])
                BY <3>3, PieceInside, Zenon
            <4>2. f[i][Len(f[i - 1]) + j] = bl[i][j]
                BY <3>3, Zenon
            <4> QED BY <3>4, <4>1, <4>2, Zenon
        <3>8. \A b \in 1 .. i : b \in 1 .. (i - 1) \/ b = i
            BY <2>2
        <3>9. Good(i)
            BY <3>1, <3>3, <3>5, <3>6, <3>7, <3>8
        <3> QED BY <2>2, <3>9
    <2> QED BY <2>3, <2>4
<1>5. \A i \in 1 .. B : Good(i)
    <2> HIDE DEF Good
    <2> QED BY <1>4
<1>6. /\ f[B] \in Seq(S) /\ st[B + 1] = Len(f[B]) + 1 /\ st[1] = 1 /\ Len(f[B]) \in Nat
    BY <1>5
<1>7. ASSUME NEW b \in 1 .. B PROVE Start(bl, b) = st[b]
    <2> DEFINE cl == SubSeq(bl, 1, b - 1)
    <2>1. Len(cl) = b - 1 /\ \A i \in 1 .. (b - 1) : cl[i] = bl[i]
        OBVIOUS
    <2>2. Start(bl, b) = Len(FlattenSeq(cl)) + 1
        BY DEF Start
    <2>3. CASE b = 1
        <3>1. cl = <<>>
            BY <2>3
        <3>2. FlattenSeq(cl) = <<>>
            BY <3>1 DEF FlattenSeq
        <3>3. Len(FlattenSeq(cl)) = 0
            BY <3>2
        <3> QED BY <2>2, <2>3, <3>3
    <2>4. CASE b # 1
        <3>1. Start(bl, b) = Len(f[b - 1]) + 1
            <4> HIDE DEF Good, T, st, cl
            <4>1. B \in Nat
                OBVIOUS
            <4> QED BY <1>1, <1>2, <2>4, <4>1, StartIs
        <3> QED BY <2>4, <3>1
    <2> QED BY <2>3, <2>4
<1>8. st \in [1 .. (B + 1) -> Nat \ {0}]
    <2>1. \A b \in 1 .. (B + 1) : b \in 1 .. B \/ b = B + 1
        OBVIOUS
    <2>2. \A b \in 1 .. B : st[b] \in Nat \ {0}
        <3>1. \A b \in 1 .. B : Good(b)
            BY <1>5
        <3> QED BY <3>1
    <2>3. st[B + 1] \in Nat \ {0}
        BY <1>6
    <2> HIDE DEF Good
    <2>4. DOMAIN st = 1 .. (B + 1) /\ st = [b \in 1 .. (B + 1) |-> st[b]]
        OBVIOUS
    <2> HIDE DEF st
    <2> QED BY <2>1, <2>2, <2>3, <2>4
<1> HIDE DEF st
<1>9. Good(B)
    BY <1>5
<1>10. Layout(bl, B, st)
    BY <1>2, <1>6, <1>7, <1>8, <1>9 DEF Layout
<1> QED BY <1>2, <1>6, <1>10

-----------------------------------------------------------------------------
(* A run of blocks from the entry. *)

IsRun(f, blocks, oracle, undef, omit, n) ==
    f = [j \in 0 .. Len(FlattenSeq(blocks)) |->
           IF j = 0 THEN Entry(PRegs, n)
           ELSE IF f[j - 1].pc > Len(FlattenSeq(blocks)) THEN f[j - 1]
           ELSE StepO(FlattenSeq(blocks)[f[j - 1].pc], f[j - 1], blocks, oracle, undef, omit)]

LEMMA RunExists ==
    ASSUME NEW blocks, NEW oracle, NEW undef, NEW omit, NEW n, Len(FlattenSeq(blocks)) \in Nat
    PROVE  \E f : IsRun(f, blocks, oracle, undef, omit, n)
<1> DEFINE Next1(m) == IF m.pc > Len(FlattenSeq(blocks)) THEN m
                       ELSE StepO(FlattenSeq(blocks)[m.pc], m, blocks, oracle, undef, omit)
           Runs1(f, l) == f = [j \in 0 .. l |-> IF j = 0 THEN Entry(PRegs, n) ELSE Next1(f[j - 1])]
           T == {l \in Nat : ~ \E f : Runs1(f, l)}
<1> HIDE DEF Next1
<1>1. ASSUME T # {} PROVE FALSE
    <2>1. PICK l \in T : \A j \in T : l <= j
        BY <1>1, LeastMember
    <2>2. l # 0
        <3>1. Runs1([j \in 0 .. 0 |-> Entry(PRegs, n)], 0)
            OBVIOUS
        <3> QED BY <3>1
    <2>a. l \in Nat /\ l - 1 \in Nat
        BY <2>1, <2>2
    <2>b. l - 1 \notin T
        <3> HIDE DEF T
        <3> QED BY <2>1, <2>a
    <2>3. l - 1 \in Nat /\ l - 1 \notin T
        BY <2>a, <2>b
    <2>4. PICK f : Runs1(f, l - 1)
        BY <2>3
    <2> DEFINE longer == [j \in 0 .. l |-> IF j = l THEN Next1(f[l - 1]) ELSE f[j]]
    <2>5. \A j \in 0 .. l : longer[j] = IF j = 0 THEN Entry(PRegs, n) ELSE Next1(longer[j - 1])
        BY <2>2, <2>4
    <2>6. Runs1(longer, l)
        BY <2>5
    <2> QED BY <2>6
<1>2. PICK f : Runs1(f, Len(FlattenSeq(blocks)))
    BY <1>1
<1>3. IsRun(f, blocks, oracle, undef, omit, n)
    BY <1>2 DEF IsRun, Next1
<1> QED BY <1>3

Sees(f, blocks) ==
    LET end == f[Len(FlattenSeq(blocks))]
    IN [seen |-> end.seen, value |-> end.regs[a0], sp |-> end.regs[sp]]

LEMMA MeaningIs ==
    ASSUME NEW blocks, NEW oracle, NEW undef, Len(FlattenSeq(blocks)) \in Nat
    PROVE  \E f : /\ IsRun(f, blocks, oracle, undef, omit_frame_pointer, vreg_counter)
                  /\ Meaning(blocks, oracle, undef) = Sees(f, blocks)
<1> DEFINE flat == FlattenSeq(blocks)
           Runs1(f) == f = [j \in 0 .. Len(flat) |->
              IF j = 0 THEN Entry(PRegs, vreg_counter)
              ELSE LET m == f[j - 1]
                   IN IF m.pc > Len(flat) THEN m ELSE Step(flat[m.pc], m, blocks, oracle, undef)]
           g == CHOOSE f : Runs1(f)
<1>1. \A f : Runs1(f) <=> IsRun(f, blocks, oracle, undef, omit_frame_pointer, vreg_counter)
    <2>1. \A inst, m : Step(inst, m, blocks, oracle, undef)
                         = StepO(inst, m, blocks, oracle, undef, omit_frame_pointer)
        BY StepIs
    <2> QED BY <2>1 DEF IsRun
<1>2. \E f : Runs1(f)
    BY <1>1, RunExists
<1>3. Runs1(g)
    <2> HIDE DEF Runs1
    <2> QED BY <1>2
<1>4. Meaning(blocks, oracle, undef)
        = [seen |-> g[Len(flat)].seen, value |-> g[Len(flat)].regs[a0], sp |-> g[Len(flat)].regs[sp]]
    BY DEF Meaning
<1> HIDE DEF g
<1>5. Meaning(blocks, oracle, undef) = Sees(g, blocks)
    BY <1>4 DEF Sees
<1> HIDE DEF Runs1
<1> QED BY <1>1, <1>3, <1>5

(* Code and requests that do the same, whatever the branches.              *)
Equal(R, C, omit, n) ==
    \A oracle, f, g :
       IsRun(f, R, oracle, FALSE, omit, n) /\ IsRun(g, C, oracle, FALSE, omit, n)
       => Sees(f, R) = Sees(g, C)

LEMMA EqualTrans ==
    ASSUME NEW A, NEW B, NEW C, NEW omit, NEW n, Equal(A, B, omit, n), Equal(B, C, omit, n),
           Len(FlattenSeq(B)) \in Nat
    PROVE  Equal(A, C, omit, n)
<1> SUFFICES ASSUME NEW oracle, NEW f, NEW g,
                    IsRun(f, A, oracle, FALSE, omit, n), IsRun(g, C, oracle, FALSE, omit, n)
             PROVE  Sees(f, A) = Sees(g, C)
    BY DEF Equal
<1>1. PICK h : IsRun(h, B, oracle, FALSE, omit, n)
    BY RunExists
<1>2. Sees(f, A) = Sees(h, B)
    BY <1>1 DEF Equal
<1>3. Sees(h, B) = Sees(g, C)
    BY <1>1 DEF Equal
<1> QED BY <1>2, <1>3

LEMMA KeepsIf ==
    ASSUME Equal(requests, code, omit_frame_pointer, vreg_counter),
           Len(FlattenSeq(requests)) \in Nat, Len(FlattenSeq(code)) \in Nat
    PROVE  KeepsMeaning
<1> SUFFICES ASSUME NEW oracle \in Oracles
             PROVE  Meaning(code, oracle, FALSE) = Meaning(requests, oracle, FALSE)
    BY DEF KeepsMeaning
<1>1. PICK f : /\ IsRun(f, code, oracle, FALSE, omit_frame_pointer, vreg_counter)
               /\ Meaning(code, oracle, FALSE) = Sees(f, code)
    BY MeaningIs
<1>2. PICK g : /\ IsRun(g, requests, oracle, FALSE, omit_frame_pointer, vreg_counter)
               /\ Meaning(requests, oracle, FALSE) = Sees(g, requests)
    BY MeaningIs
<1>3. Sees(g, requests) = Sees(f, code)
    BY <1>1, <1>2 DEF Equal
<1> QED BY <1>1, <1>2, <1>3

-----------------------------------------------------------------------------
(* One step after the other. *)

(* k is reached, in as many steps as its place is away at most.            *)
OnRun(g, N, k) == \E j \in 0 .. N : g[j] = k /\ j < k.pc

LEMMA EntryIs ==
    ASSUME NEW n
    PROVE  /\ Mach(Entry(PRegs, n), n) /\ Entry(PRegs, n).pc = 1
           /\ Entry(PRegs, n).regs[zero] = Number(0)
<1>1. Entry(PRegs, n).regs = [r \in RegsOf(n) |-> IF IsVReg(r) THEN Unknown
                                ELSE IF r = zero THEN Number(0) ELSE <<"entry", r>>]
    BY DEF Entry, RegsOf
<1>2. Entry(PRegs, n).regs[zero] = Number(0)
    BY <1>1, CodeRegsIn, RegsDiffer
<1>3. Mach(Entry(PRegs, n), n)
    BY DEF Entry, RegsOf, Mach
<1>4. Entry(PRegs, n).pc = 1
    BY DEF Entry
<1> QED BY <1>2, <1>3, <1>4

LEMMA OnRunStart ==
    ASSUME NEW g, NEW bl, NEW oracle, NEW undef, NEW omit, NEW n,
           IsRun(g, bl, oracle, undef, omit, n), Len(FlattenSeq(bl)) \in Nat
    PROVE  g[0] = Entry(PRegs, n) /\ OnRun(g, Len(FlattenSeq(bl)), Entry(PRegs, n))
<1>1. g[0] = Entry(PRegs, n)
    BY DEF IsRun
<1> QED BY <1>1, EntryIs DEF OnRun

LEMMA OnRunStep ==
    ASSUME NEW g, NEW bl, NEW oracle, NEW undef, NEW omit, NEW n,
           IsRun(g, bl, oracle, undef, omit, n),
           NEW st, Layout(bl, Blocks, st), NEW k, OnRun(g, Len(FlattenSeq(bl)), k),
           NEW b \in 1 .. Blocks, NEW i \in 1 .. Len(bl[b]), k.pc = st[b] + i - 1,
           NEW m, m = StepO(bl[b][i], k, bl, oracle, undef, omit), m.pc \in Nat, k.pc < m.pc,
           k.pc \in 1 .. Len(FlattenSeq(bl)), Len(FlattenSeq(bl)) \in Nat
    PROVE  OnRun(g, Len(FlattenSeq(bl)), m)
<1> DEFINE flat == FlattenSeq(bl)
<1>1. PICK j \in 0 .. Len(flat) : g[j] = k /\ j < k.pc
    BY DEF OnRun
<1>2. flat[k.pc] = bl[b][i]
    BY DEF Layout
<1>3. j + 1 \in 0 .. Len(flat) /\ j + 1 # 0 /\ (j + 1) - 1 = j /\ ~(k.pc > Len(flat))
    BY <1>1
<1>4. g[j + 1] = StepO(flat[g[j].pc], g[j], bl, oracle, undef, omit)
    BY <1>1, <1>3 DEF IsRun
<1>5. g[j + 1] = m
    BY <1>1, <1>2, <1>4
<1>6. j + 1 < m.pc
    BY <1>1
<1> QED BY <1>3, <1>5, <1>6 DEF OnRun

LEMMA OnRunEnd ==
    ASSUME NEW g, NEW bl, NEW oracle, NEW undef, NEW omit, NEW n,
           IsRun(g, bl, oracle, undef, omit, n), Len(FlattenSeq(bl)) \in Nat,
           NEW k, OnRun(g, Len(FlattenSeq(bl)), k), k.pc > Len(FlattenSeq(bl))
    PROVE  g[Len(FlattenSeq(bl))] = k
<1> DEFINE N == Len(FlattenSeq(bl))
<1>1. PICK j \in 0 .. N : g[j] = k
    BY DEF OnRun
<1> DEFINE T == {i \in Nat : i \in j .. N /\ g[i] # k}
<1>2. ASSUME T # {} PROVE FALSE
    <2>1. PICK i \in T : \A l \in T : i <= l
        BY <1>2, LeastMember
    <2>2. i \in j .. N /\ g[i] # k /\ i # j /\ i \in Nat
        BY <1>1, <2>1
    <2>3. i - 1 \in Nat /\ i - 1 \in j .. N /\ i \in 0 .. N /\ i # 0
        BY <2>2
    <2>4. g[i - 1] = k
        BY <2>1, <2>2, <2>3
    <2>5. g[i] = g[i - 1]
        BY <2>3, <2>4 DEF IsRun
    <2> QED BY <2>2, <2>4, <2>5
<1>3. N \in j .. N /\ N \in Nat
    BY <1>1
<1> QED BY <1>2, <1>3

-----------------------------------------------------------------------------
(* Two machines that run the same program in other registers: the          *)
(* registers W of the first are those h renames them to in the second,     *)
(* the ones in S are in its memory at X instead, which the first leaves    *)
(* alone, and the ones in the domain of K have a known value.              *)
Related(W, h, K, S, X, m, k, n) ==
    /\ Mach(m, n) /\ Mach(k, n) /\ Unseen(X, m, k)
    /\ \A r \in W \ S : k.regs[h[r]] = m.regs[r]
    /\ \A r \in W \cap S : \A x \in X : Contents(k, x) = m.regs[r]
    /\ \A r \in W \cap DOMAIN K : m.regs[r] = K[r]

LEMMA ClobbersOf ==
    ASSUME NEW n, NEW inst \in Instructions(CodeRegs(n)), ~IsTerminator(inst)
    PROVE  /\ \A q \in CodeRegs(n) : q \notin Defs(inst) => q \notin Clobbers(inst)
           /\ Defs(inst) \subseteq CodeRegs(n)
           /\ Defs(inst) \subseteq Clobbers(inst)
<1>1. CASE inst.kind = "Call"
    <2>1. /\ a0 \in CALLER_SAVED_REGS /\ zero \notin CALLER_SAVED_REGS
          /\ sp \notin CALLER_SAVED_REGS /\ fp \notin CALLER_SAVED_REGS
          /\ \A i : V(i) \notin CALLER_SAVED_REGS
        BY DEF a0, zero, sp, fp, P, V, CALLER_SAVED_REGS
    <2> QED BY <1>1, <2>1 DEF Defs, Clobbers, RETURN_REGS, CodeRegs
<1>2. CASE inst.kind \in Defining
    BY <1>2 DEF Defs, Clobbers, Instructions, Defining
<1>3. CASE inst.kind \notin Defining \cup {"Call"}
    BY <1>3 DEF Defs, Clobbers
<1> QED BY <1>1, <1>2, <1>3

(* An instruction, and the same one over other registers, from related     *)
(* machines, if what it writes is none of what W2 needs, and what comes of *)
(* it.                                                                     *)
StepFits(n, m, k, h, K, S, X, W, omit, inst, i2, W2) ==
    /\ Renaming(h, n)
    /\ W \in SUBSET CodeRegs(n) /\ Related(W, h, K, S, X, m, k, n)
    /\ inst \in Instructions(CodeRegs(n)) /\ ~IsTerminator(inst)
    /\ InstTo(inst, i2, h)
    /\ inst.kind = "Call" => inst.arg_regs \subseteq {a0}
    /\ Uses(inst, omit) \subseteq W \ S
    /\ inst.kind \in {"Load", "Store"} => Address(m, inst.loc, omit) \notin X
    /\ W2 \in SUBSET CodeRegs(n)
    /\ W2 \ Defs(inst) \subseteq W /\ Defs(inst) \cap S = {}
    /\ \A q \in W2 \ (Defs(inst) \cup S) : h[q] \notin Clobbers(i2)
    /\ \A q \in W2 \cap Defs(inst) \cap DOMAIN K : Effect(inst, m, omit).regs[q] = K[q]

OneOn(m, e) == e.pc = m.pc + 1

StepDone(n, m, k, h, K, S, X, W, omit, inst, i2, W2) ==
    LET e == Effect(inst, m, omit)
        f == Effect(i2, k, omit)
    IN /\ Related(W2, h, K, S, X, e, f, n)
       /\ OneOn(m, e) /\ OneOn(k, f)
       /\ \A x \in X : Contents(f, x) = Contents(k, x)
       /\ \A q \in CodeRegs(n) \ Defs(inst) : e.regs[q] = m.regs[q]

LEMMA RelatedStep ==
    ASSUME NEW n, NEW m, NEW k, NEW h, NEW K, NEW S, NEW X, NEW W, NEW omit, NEW inst, NEW i2,
           NEW W2, StepFits(n, m, k, h, K, S, X, W, omit, inst, i2, W2)
    PROVE  StepDone(n, m, k, h, K, S, X, W, omit, inst, i2, W2)
<1>0. /\ Renaming(h, n)
      /\ W \in SUBSET CodeRegs(n) /\ Related(W, h, K, S, X, m, k, n)
      /\ inst \in Instructions(CodeRegs(n)) /\ ~IsTerminator(inst)
      /\ InstTo(inst, i2, h)
      /\ inst.kind = "Call" => inst.arg_regs \subseteq {a0}
      /\ Uses(inst, omit) \subseteq W \ S
      /\ inst.kind \in {"Load", "Store"} => Address(m, inst.loc, omit) \notin X
      /\ W2 \in SUBSET CodeRegs(n)
      /\ W2 \ Defs(inst) \subseteq W /\ Defs(inst) \cap S = {}
      /\ \A q \in W2 \ (Defs(inst) \cup S) : h[q] \notin Clobbers(i2)
      /\ \A q \in W2 \cap Defs(inst) \cap DOMAIN K : Effect(inst, m, omit).regs[q] = K[q]
    BY DEF StepFits
<1> DEFINE e == Effect(inst, m, omit)
           f == Effect(i2, k, omit)
<1>1. SameDone(inst, i2, h, X, m, k, e, f, n)
    <2>1. \A u \in Uses(inst, omit) : k.regs[h[u]] = m.regs[u]
        BY <1>0 DEF Related
    <2>2. Mach(m, n) /\ Mach(k, n) /\ Unseen(X, m, k)
        BY <1>0 DEF Related
    <2> QED BY <1>0, <2>1, <2>2, SameEffect
<1> HIDE DEF e, f
<1>2. \A q \in CodeRegs(n) \ Defs(inst) : q \in RegsOf(n) \ (Clobbers(inst) \cup {t0})
    BY <1>0, ClobbersOf, CodeRegsIn
<1>3. \A q \in CodeRegs(n) \ Defs(inst) : e.regs[q] = m.regs[q]
    BY <1>0, <1>1, <1>2 DEF SameDone
<1>4. ASSUME NEW r \in W2 \ S PROVE f.regs[h[r]] = e.regs[r]
    <2>1. CASE r \in Defs(inst)
        BY <1>0, <1>1, <2>1 DEF SameDone
    <2>2. CASE r \notin Defs(inst)
        <3>1. r \in W \ S /\ r \in CodeRegs(n) /\ h[r] \notin Clobbers(i2)
            BY <1>0, <2>2
        <3>2. h[r] \in RegsOf(n) \ (Clobbers(i2) \cup {t0})
            BY <1>0, <3>1 DEF Renaming
        <3>3. f.regs[h[r]] = k.regs[h[r]]
            BY <1>0, <1>1, <3>2 DEF SameDone
        <3>4. k.regs[h[r]] = m.regs[r]
            BY <1>0, <3>1 DEF Related
        <3> QED BY <1>0, <1>3, <2>2, <3>1, <3>3, <3>4
    <2> QED BY <1>0, <2>1, <2>2
<1>5. ASSUME NEW r \in W2 \cap S, NEW x \in X PROVE Contents(f, x) = e.regs[r]
    <2>1. r \in W \cap S /\ r \in CodeRegs(n) \ Defs(inst)
        BY <1>0
    <2>2. Contents(k, x) = m.regs[r]
        BY <1>0, <2>1 DEF Related
    <2>3. Contents(f, x) = Contents(k, x)
        BY <1>0, <1>1 DEF SameDone
    <2> QED BY <1>0, <1>3, <2>1, <2>2, <2>3
<1>6. ASSUME NEW r \in W2 \cap DOMAIN K PROVE e.regs[r] = K[r]
    <2>1. CASE r \in Defs(inst)
        BY <1>0, <2>1 DEF e
    <2>2. CASE r \notin Defs(inst)
        <3>1. r \in W \cap DOMAIN K /\ r \in CodeRegs(n) \ Defs(inst)
            BY <1>0, <2>2
        <3>2. m.regs[r] = K[r]
            BY <1>0, <3>1 DEF Related
        <3> QED BY <1>0, <1>3, <3>1, <3>2
    <2> QED BY <1>0, <2>1, <2>2
<1>7. Mach(e, n) /\ Mach(f, n) /\ Unseen(X, e, f)
    BY <1>0, <1>1 DEF SameDone
<1>8. Related(W2, h, K, S, X, e, f, n)
    BY <1>0, <1>4, <1>5, <1>6, <1>7 DEF Related
<1>9. /\ OneOn(m, e) /\ OneOn(k, f)
      /\ \A x \in X : Contents(f, x) = Contents(k, x)
    BY <1>0, <1>1 DEF SameDone, OneOn
<1> QED BY <1>3, <1>8, <1>9 DEF e, f, StepDone

(* Fewer registers. *)
LEMMA RelatedLess ==
    ASSUME NEW n, NEW m, NEW k, NEW h, NEW K, NEW S, NEW X,
           NEW W, Related(W, h, K, S, X, m, k, n), NEW W2, W2 \subseteq W
    PROVE  Related(W2, h, K, S, X, m, k, n)
BY DEF Related

-----------------------------------------------------------------------------
(* Jumps and branches. *)

JumpedTo(m, p) == [m EXCEPT !.pc = p]

LEMMA JumpedIs ==
    ASSUME NEW n, NEW m, Mach(m, n), NEW p \in Nat
    PROVE  LET e == JumpedTo(m, p)
           IN /\ Mach(e, n) /\ e.regs = m.regs /\ e.mem = m.mem /\ e.seen = m.seen
              /\ e.asked = m.asked /\ e.pc = p
BY DEF Mach, JumpedTo

IsJumped(e, m, p, n) ==
    /\ Mach(e, n) /\ e.regs = m.regs /\ e.mem = m.mem /\ e.seen = m.seen
    /\ e.asked = m.asked /\ e.pc = p

LEMMA IsJumpedTo ==
    ASSUME NEW n, NEW m, Mach(m, n), NEW p, p \in Nat
    PROVE  IsJumped(JumpedTo(m, p), m, p, n)
BY JumpedIs DEF IsJumped

LEMMA RelatedSame ==
    ASSUME NEW n, NEW m, NEW k, NEW h, NEW K, NEW S, NEW X,
           NEW W, Related(W, h, K, S, X, m, k, n),
           NEW e, NEW f, Mach(e, n), Mach(f, n), e.regs = m.regs, f.regs = k.regs,
           e.mem = m.mem, f.mem = k.mem, e.seen = f.seen, e.asked = f.asked
    PROVE  Related(W, h, K, S, X, e, f, n)
<1>1. Unseen(X, e, f)
    BY DEF Related, Unseen, SameMem
<1>2. \A x : Contents(f, x) = Contents(k, x)
    BY DEF Contents
<1> QED BY <1>1, <1>2 DEF Related

LEMMA RelatedJump ==
    ASSUME NEW n, NEW m, NEW k, NEW h, NEW K, NEW S, NEW X,
           NEW W, Related(W, h, K, S, X, m, k, n), NEW p \in Nat, NEW q \in Nat
    PROVE  Related(W, h, K, S, X, JumpedTo(m, p), JumpedTo(k, q), n)
<1>1. Mach(m, n) /\ Mach(k, n) /\ m.seen = k.seen /\ m.asked = k.asked
    BY DEF Related, Unseen
<1> DEFINE e == JumpedTo(m, p)
           f == JumpedTo(k, q)
<1>2. /\ Mach(e, n) /\ e.regs = m.regs /\ e.mem = m.mem /\ e.seen = m.seen
      /\ e.asked = m.asked
    BY <1>1, JumpedIs
<1>3. /\ Mach(f, n) /\ f.regs = k.regs /\ f.mem = k.mem /\ f.seen = k.seen
      /\ f.asked = k.asked
    BY <1>1, JumpedIs
<1> HIDE DEF e, f
<1>4. Related(W, h, K, S, X, e, f, n)
    BY <1>1, <1>2, <1>3, RelatedSame
<1> QED BY <1>4 DEF e, f

Taken(m, v, oracle) == IF Known(v) THEN v[2] # 0 ELSE oracle[m.asked + 1]
NowAsked(m, v) == IF Known(v) THEN m.asked ELSE m.asked + 1
NowSeen(m, v) == IF Known(v) THEN m.seen ELSE Append(m.seen, <<"branch", v>>)

LEMMA BranchIs ==
    ASSUME NEW n, NEW m, Mach(m, n), NEW v, NEW oracle, NEW p \in Nat
    PROVE  /\ Mach(Branch(m, v, oracle, p), n)
           /\ Branch(m, v, oracle, p).regs = m.regs
           /\ Branch(m, v, oracle, p).mem = m.mem
           /\ Branch(m, v, oracle, p).seen = NowSeen(m, v)
           /\ Branch(m, v, oracle, p).asked = NowAsked(m, v)
           /\ Branch(m, v, oracle, p).pc = (IF Taken(m, v, oracle) THEN p ELSE m.pc + 1)
<1>1. CASE Known(v)
    <2> DEFINE next == IF v[2] # 0 THEN p ELSE m.pc + 1
               e == [m EXCEPT !.pc = next]
    <2>a. next \in Nat
        BY DEF Mach
    <2> HIDE DEF next
    <2>1. /\ Mach(e, n) /\ e.regs = m.regs /\ e.mem = m.mem /\ e.seen = m.seen
          /\ e.asked = m.asked /\ e.pc = next
        BY <2>a DEF Mach
    <2>2. Branch(m, v, oracle, p) = e
        BY <1>1 DEF Branch, next
    <2> HIDE DEF e
    <2> QED BY <1>1, <2>1, <2>2 DEF next, Taken, NowAsked, NowSeen
<1>2. CASE ~Known(v)
    <2> DEFINE s == Append(m.seen, <<"branch", v>>)
               next == IF oracle[m.asked + 1] THEN p ELSE m.pc + 1
               asked == m.asked + 1
               e == [m EXCEPT !.pc = next, !.asked = asked, !.seen = s]
    <2>a. next \in Nat
        BY DEF Mach
    <2> HIDE DEF s, next, asked
    <2>1. /\ Mach(e, n) /\ e.regs = m.regs /\ e.mem = m.mem /\ e.seen = s
          /\ e.asked = asked /\ e.pc = next
        <3>0. PICK m1, m2, m3, m4, m5 :
                 m = [regs |-> m1, mem |-> m2, seen |-> m3, asked |-> m4, pc |-> m5]
            BY Zenon DEF Mach
        <3> DEFINE Rec(l1, l2, l3) == [regs |-> m1, mem |-> m2, seen |-> l1, asked |-> l2, pc |-> l3]
        <3>a. [Rec(m3, m4, m5) EXCEPT !.pc = next] = Rec(m3, m4, next)
            OBVIOUS
        <3>b. [Rec(m3, m4, next) EXCEPT !.asked = asked] = Rec(m3, asked, next)
            OBVIOUS
        <3>c. [Rec(m3, asked, next) EXCEPT !.seen = s] = Rec(s, asked, next)
            OBVIOUS
        <3>d. e = [[[m EXCEPT !.pc = next] EXCEPT !.asked = asked] EXCEPT !.seen = s]
            OBVIOUS
        <3> HIDE DEF e
        <3>e. e = Rec(s, asked, next)
            <4> HIDE DEF Rec
            <4>1. m = Rec(m3, m4, m5)
                BY <3>0 DEF Rec
            <4> QED BY <4>1, <3>a, <3>b, <3>c, <3>d, Zenon
        <3>1. e = [regs |-> m.regs, mem |-> m.mem, seen |-> s, asked |-> asked, pc |-> next]
            BY <3>0, <3>e
        <3> HIDE DEF e
        <3>2. /\ e.regs = m.regs /\ e.mem = m.mem /\ e.seen = s /\ e.asked = asked
              /\ e.pc = next
            BY <3>1
        <3> QED BY <2>a, <3>1, <3>2 DEF Mach
    <2>2. Branch(m, v, oracle, p) = e
        BY <1>2 DEF Branch, s, next, asked
    <2> HIDE DEF e
    <2> QED BY <1>2, <2>1, <2>2 DEF s, next, asked, Taken, NowAsked, NowSeen
<1> QED BY <1>1, <1>2

LEMMA RelatedBranch ==
    ASSUME NEW n, NEW m, NEW k, NEW h, NEW K, NEW S, NEW X,
           NEW W, Related(W, h, K, S, X, m, k, n),
           NEW oracle, NEW v, NEW p \in Nat, NEW q \in Nat
    PROVE  LET e == Branch(m, v, oracle, p)
               f == Branch(k, v, oracle, q)
           IN /\ Related(W, h, K, S, X, e, f, n)
              /\ e.pc = (IF Taken(m, v, oracle) THEN p ELSE m.pc + 1)
              /\ f.pc = (IF Taken(m, v, oracle) THEN q ELSE k.pc + 1)
<1> DEFINE e == Branch(m, v, oracle, p)
           f == Branch(k, v, oracle, q)
<1>1. Mach(m, n) /\ Mach(k, n) /\ m.seen = k.seen /\ m.asked = k.asked
    BY DEF Related, Unseen
<1>2. /\ Mach(e, n) /\ e.regs = m.regs /\ e.mem = m.mem /\ e.seen = NowSeen(m, v)
      /\ e.asked = NowAsked(m, v) /\ e.pc = IF Taken(m, v, oracle) THEN p ELSE m.pc + 1
    BY <1>1, BranchIs
<1>3. /\ Mach(f, n) /\ f.regs = k.regs /\ f.mem = k.mem /\ f.seen = NowSeen(k, v)
      /\ f.asked = NowAsked(k, v) /\ f.pc = IF Taken(k, v, oracle) THEN q ELSE k.pc + 1
    BY <1>1, BranchIs
<1>4. /\ NowSeen(m, v) = NowSeen(k, v) /\ NowAsked(m, v) = NowAsked(k, v)
      /\ Taken(m, v, oracle) = Taken(k, v, oracle)
    BY <1>1 DEF NowSeen, NowAsked, Taken
<1> HIDE DEF e, f
<1>5. Related(W, h, K, S, X, e, f, n)
    BY <1>2, <1>3, <1>4, RelatedSame
<1> QED BY <1>2, <1>3, <1>4, <1>5 DEF e, f

-----------------------------------------------------------------------------
(* Two runs, side by side. *)

LEMMA StartsGrow ==
    ASSUME NEW S, NEW B \in Nat \ {0}, NEW bl \in [1 .. B -> Seq(S)], NEW st, Layout(bl, B, st)
    PROVE  /\ \A b \in 1 .. (B + 1) : st[b] \in Nat \ {0}
           /\ \A b \in 1 .. B : Len(bl[b]) \in Nat /\ st[b + 1] = st[b] + Len(bl[b])
           /\ \A a \in 1 .. B : \A b \in (a + 1) .. (B + 1) : st[a] + Len(bl[a]) <= st[b]
           /\ Len(FlattenSeq(bl)) \in Nat /\ Len(FlattenSeq(bl)) = st[B + 1] - 1
<1>1. \A b \in 1 .. (B + 1) : st[b] \in Nat \ {0}
    BY DEF Layout
<1>2. \A b \in 1 .. B : Len(bl[b]) \in Nat /\ st[b + 1] = st[b] + Len(bl[b])
    <2>1. \A b \in 1 .. B : st[b + 1] = st[b] + Len(bl[b])
        BY Zenon DEF Layout
    <2>2. \A b \in 1 .. B : bl[b] \in Seq(S)
        OBVIOUS
    <2>3. \A b \in 1 .. B : Len(bl[b]) \in Nat
        BY <2>2
    <2> QED BY <2>1, <2>3, Zenon
<1>3. ASSUME NEW a \in 1 .. B
      PROVE  \A b \in (a + 1) .. (B + 1) : st[a] + Len(bl[a]) <= st[b]
    <2> DEFINE T == {b \in Nat : b \in (a + 1) .. (B + 1) /\ ~(st[a] + Len(bl[a]) <= st[b])}
    <2>1. ASSUME T # {} PROVE FALSE
        <3>1. PICK b \in T : \A d \in T : b <= d
            BY <2>1, LeastMember
        <3>2. b \in (a + 1) .. (B + 1) /\ ~(st[a] + Len(bl[a]) <= st[b]) /\ b \in Nat
            BY <3>1
        <3>3. b # a + 1
            BY <1>1, <1>2, <3>2
        <3>4. b - 1 \in (a + 1) .. (B + 1) /\ b - 1 \in Nat /\ b - 1 \in 1 .. B /\ ~(b <= b - 1)
            <4> HIDE DEF T
            <4> QED BY <3>2, <3>3
        <3>5. b - 1 \notin T
            <4> HIDE DEF T
            <4> QED BY <3>1, <3>4
        <3>6. st[a] + Len(bl[a]) <= st[b - 1]
            BY <3>4, <3>5
        <3>7. st[b] = st[b - 1] + Len(bl[b - 1]) /\ Len(bl[b - 1]) \in Nat
            <4> HIDE DEF T
            <4>1. (b - 1) + 1 = b
                BY <3>2
            <4> QED BY <1>2, <3>4, <4>1
        <3>8. /\ st[a] \in Nat /\ Len(bl[a]) \in Nat /\ st[b - 1] \in Nat
            <4> HIDE DEF T
            <4>1. a \in 1 .. (B + 1) /\ b - 1 \in 1 .. (B + 1)
                BY <3>4
            <4> QED BY <1>1, <1>2, <4>1
        <3> HIDE DEF T
        <3> QED BY <3>2, <3>6, <3>7, <3>8
    <2>2. \A b \in (a + 1) .. (B + 1) : b \in Nat
        OBVIOUS
    <2>3. \A b \in Nat : b \in (a + 1) .. (B + 1) /\ ~(st[a] + Len(bl[a]) <= st[b]) => b \in T
        OBVIOUS
    <2> HIDE DEF T
    <2> QED BY <2>1, <2>2, <2>3
<1>4. st[B + 1] \in Nat \ {0}
    BY <1>1
<1>5. Len(FlattenSeq(bl)) = st[B + 1] - 1
    BY DEF Layout
<1> QED BY <1>1, <1>2, <1>3, <1>4, <1>5

(* Blocks of instructions of S. *)
Code(bl, S) == bl \in [1 .. Blocks -> Seq(S)]

LEMMA StepOn ==
    ASSUME NEW S, NEW bl, Code(bl, S), NEW st, Layout(bl, Blocks, st),
           NEW g, NEW oracle, NEW omit, NEW n, IsRun(g, bl, oracle, FALSE, omit, n),
           NEW k, OnRun(g, Len(FlattenSeq(bl)), k),
           NEW b \in 1 .. Blocks, NEW i \in 1 .. Len(bl[b]), k.pc = st[b] + i - 1,
           NEW m, m = StepO(bl[b][i], k, bl, oracle, FALSE, omit), m.pc \in Nat, k.pc < m.pc
    PROVE  OnRun(g, Len(FlattenSeq(bl)), m)
<1>1. Blocks \in Nat \ {0} /\ bl \in [1 .. Blocks -> Seq(S)]
    BY RegAllocAssumption DEF Code
<1>2. /\ st[b] \in Nat \ {0} /\ Len(bl[b]) \in Nat
      /\ Len(FlattenSeq(bl)) \in Nat /\ Len(FlattenSeq(bl)) = st[Blocks + 1] - 1
      /\ st[Blocks + 1] \in Nat \ {0} /\ st[b] + Len(bl[b]) <= st[Blocks + 1]
    <2>1. b \in 1 .. (Blocks + 1) /\ Blocks + 1 \in (b + 1) .. (Blocks + 1)
        BY <1>1
    <2>2. Blocks + 1 \in 1 .. (Blocks + 1)
        BY <1>1
    <2> QED BY <1>1, <2>1, <2>2, StartsGrow
<1>3. k.pc \in 1 .. Len(FlattenSeq(bl))
    BY <1>2
<1> QED BY <1>2, <1>3, OnRunStep

-----------------------------------------------------------------------------
(* c says which code is run: c.C instead of c.R, in the runs c.g and c.f;  *)
(* c.cut where the instructions of c.C that stand for one of c.R end; and  *)
(* how the machines are related there.                                     *)

Running(c) ==
    /\ \E S : Code(c.R, S)
    /\ \E S : Code(c.C, S)
    /\ Layout(c.R, Blocks, c.stR) /\ Layout(c.C, Blocks, c.stC)
    /\ IsRun(c.f, c.R, c.oracle, FALSE, c.omit, c.n)
    /\ IsRun(c.g, c.C, c.oracle, FALSE, c.omit, c.n)
    /\ \A b \in 1 .. Blocks : /\ \A i \in 0 .. Len(c.R[b]) : c.cut[b][i] \in 0 .. Len(c.C[b])
                              /\ c.cut[b][0] = 0
                              /\ c.cut[b][Len(c.R[b])] = Len(c.C[b])

OnR(c, m) == OnRun(c.f, Len(FlattenSeq(c.R)), m)
OnC(c, k) == OnRun(c.g, Len(FlattenSeq(c.C)), k)

At2(c, b, i, m, k) ==
    /\ b \in 1 .. Blocks /\ i \in 0 .. Len(c.R[b])
    /\ i < Len(c.R[b]) \/ b = Blocks
    /\ m.pc = c.stR[b] + i
    /\ k.pc = c.stC[b] + c.cut[b][i]
    /\ Related(c.W[b][i], c.h, c.K, c.S, c.X, m, k, c.n)
    /\ OnR(c, m) /\ OnC(c, k)

Goes(c, m) == \E b, i, m2, k2 : At2(c, b, i, m2, k2) /\ m.pc < m2.pc

LEMMA RunningIs ==
    ASSUME NEW c, Running(c)
    PROVE  /\ \A b \in 1 .. (Blocks + 1) : c.stR[b] \in Nat \ {0} /\ c.stC[b] \in Nat \ {0}
           /\ \A b \in 1 .. Blocks : Len(c.R[b]) \in Nat /\ Len(c.C[b]) \in Nat
           /\ \A a \in 1 .. Blocks : \A b \in (a + 1) .. (Blocks + 1) :
                 c.stR[a] + Len(c.R[a]) <= c.stR[b] /\ c.stC[a] + Len(c.C[a]) <= c.stC[b]
           /\ Len(FlattenSeq(c.R)) \in Nat /\ Len(FlattenSeq(c.R)) = c.stR[Blocks + 1] - 1
           /\ Len(FlattenSeq(c.C)) \in Nat /\ Len(FlattenSeq(c.C)) = c.stC[Blocks + 1] - 1
           /\ \A b \in 1 .. Blocks : /\ Start(c.R, b) = c.stR[b] /\ Start(c.C, b) = c.stC[b]
                                     /\ c.stR[b + 1] = c.stR[b] + Len(c.R[b])
                                     /\ c.stC[b + 1] = c.stC[b] + Len(c.C[b])
           /\ c.stR[1] = 1 /\ c.stC[1] = 1
<1>0. Blocks \in Nat \ {0}
    BY RegAllocAssumption
<1>1. PICK S : c.R \in [1 .. Blocks -> Seq(S)]
    BY DEF Running, Code
<1>2. PICK Q : c.C \in [1 .. Blocks -> Seq(Q)]
    BY DEF Running, Code
<1>3. Layout(c.R, Blocks, c.stR) /\ Layout(c.C, Blocks, c.stC)
    BY DEF Running
<1>4. /\ \A b \in 1 .. (Blocks + 1) : c.stR[b] \in Nat \ {0}
      /\ \A b \in 1 .. Blocks : Len(c.R[b]) \in Nat
      /\ \A a \in 1 .. Blocks : \A b \in (a + 1) .. (Blocks + 1) :
            c.stR[a] + Len(c.R[a]) <= c.stR[b]
      /\ Len(FlattenSeq(c.R)) \in Nat /\ Len(FlattenSeq(c.R)) = c.stR[Blocks + 1] - 1
    BY <1>0, <1>1, <1>3, StartsGrow
<1>5. /\ \A b \in 1 .. (Blocks + 1) : c.stC[b] \in Nat \ {0}
      /\ \A b \in 1 .. Blocks : Len(c.C[b]) \in Nat
      /\ \A a \in 1 .. Blocks : \A b \in (a + 1) .. (Blocks + 1) :
            c.stC[a] + Len(c.C[a]) <= c.stC[b]
      /\ Len(FlattenSeq(c.C)) \in Nat /\ Len(FlattenSeq(c.C)) = c.stC[Blocks + 1] - 1
    BY <1>0, <1>2, <1>3, StartsGrow
<1>6. /\ c.stR[1] = 1 /\ c.stC[1] = 1
      /\ \A b \in 1 .. Blocks : /\ Start(c.R, b) = c.stR[b] /\ Start(c.C, b) = c.stC[b]
                                /\ c.stR[b + 1] = c.stR[b] + Len(c.R[b])
                                /\ c.stC[b + 1] = c.stC[b] + Len(c.C[b])
    BY <1>3 DEF Layout
<1> QED BY <1>4, <1>5, <1>6

LEMMA StepR ==
    ASSUME NEW c, Running(c), NEW m, OnR(c, m),
           NEW b \in 1 .. Blocks, NEW i \in 1 .. Len(c.R[b]), m.pc = c.stR[b] + i - 1,
           NEW e, e = StepO(c.R[b][i], m, c.R, c.oracle, FALSE, c.omit), e.pc \in Nat, m.pc < e.pc
    PROVE  OnR(c, e)
BY StepOn DEF Running, OnR

LEMMA StepC ==
    ASSUME NEW c, Running(c), NEW k, OnC(c, k),
           NEW b \in 1 .. Blocks, NEW i \in 1 .. Len(c.C[b]), k.pc = c.stC[b] + i - 1,
           NEW e, e = StepO(c.C[b][i], k, c.C, c.oracle, FALSE, c.omit), e.pc \in Nat, k.pc < e.pc
    PROVE  OnC(c, e)
BY StepOn DEF Running, OnC

LEMMA WalkEnds ==
    ASSUME NEW c, Running(c),
           \E m, k : At2(c, 1, 0, m, k),
           \A b, i, m, k : At2(c, b, i, m, k) /\ i < Len(c.R[b]) => Goes(c, m)
    PROVE  \E m, k : At2(c, Blocks, Len(c.R[Blocks]), m, k)
<1> DEFINE M == c.stR[Blocks + 1]
           T == {q \in Nat : \E b, i, m, k : At2(c, b, i, m, k) /\ q = M - m.pc}
<1>0. Blocks \in Nat \ {0} /\ M \in Nat
    BY RunningIs, RegAllocAssumption
<1>1. ASSUME NEW b, NEW i, NEW m, NEW k, At2(c, b, i, m, k)
      PROVE  m.pc \in Nat /\ M - m.pc \in T
    <2>1. /\ b \in 1 .. Blocks /\ i \in 0 .. Len(c.R[b]) /\ m.pc = c.stR[b] + i
        BY <1>1 DEF At2
    <2>2. b \in 1 .. (Blocks + 1) /\ Blocks + 1 \in (b + 1) .. (Blocks + 1)
        BY <1>0, <2>1
    <2>3. c.stR[b] \in Nat /\ Len(c.R[b]) \in Nat /\ c.stR[b] + Len(c.R[b]) <= M
        BY <2>1, <2>2, RunningIs
    <2>4. m.pc \in Nat /\ m.pc <= M
        <3>1. PICK start \in Nat : start = c.stR[b]
            BY <2>3
        <3>2. PICK size \in Nat : size = Len(c.R[b])
            BY <2>3
        <3>3. PICK end \in Nat : end = M
            BY <1>0
        <3>4. i \in 0 .. size /\ m.pc = start + i /\ start + size <= end
            BY <2>1, <2>3, <3>1, <3>2, <3>3
        <3>5. start + i \in Nat /\ start + i <= end
            BY <3>4
        <3> QED BY <3>3, <3>4, <3>5
    <2>5. M - m.pc \in Nat
        <3>1. \A x, y \in Nat : x <= y => y - x \in Nat
            OBVIOUS
        <3> HIDE DEF M, T
        <3> QED BY <1>0, <2>4, <3>1
    <2> QED BY <1>1, <2>4, <2>5
<1>2. T # {}
    BY <1>1
<1>3. PICK q \in T : \A p \in T : q <= p
    BY <1>2, LeastMember
<1>4. PICK b, i, m, k : At2(c, b, i, m, k) /\ q = M - m.pc
    BY <1>3
<1>5. ~(i < Len(c.R[b]))
    <2> SUFFICES ASSUME i < Len(c.R[b]) PROVE FALSE
        OBVIOUS
    <2>1. Goes(c, m)
        BY <1>4
    <2>2. PICK b2, i2, m2, k2 : At2(c, b2, i2, m2, k2) /\ m.pc < m2.pc
        BY <2>1 DEF Goes
    <2>3. m.pc \in Nat /\ m2.pc \in Nat /\ M - m2.pc \in T
        BY <1>1, <1>4, <2>2
    <2>4. q <= M - m2.pc
        BY <1>3, <2>3
    <2> HIDE DEF T, M
    <2> QED BY <1>0, <1>4, <2>2, <2>3, <2>4
<1>6. b = Blocks /\ i \in 0 .. Len(c.R[b])
    BY <1>4, <1>5 DEF At2
<1>7. i = Len(c.R[Blocks])
    <2>1. Len(c.R[b]) \in Nat
        BY <1>0, <1>6, RunningIs
    <2> QED BY <1>5, <1>6, <2>1
<1> QED BY <1>4, <1>6, <1>7

(* Where a run ends. *)
LEMMA WalkSees ==
    ASSUME NEW c, Running(c), NEW m, NEW k, At2(c, Blocks, Len(c.R[Blocks]), m, k),
           {a0, sp} \subseteq c.W[Blocks][Len(c.R[Blocks])] \ c.S,
           c.h[a0] = a0, c.h[sp] = sp
    PROVE  Sees(c.f, c.R) = Sees(c.g, c.C)
<1>0. Blocks \in 1 .. Blocks /\ Blocks \in Nat \ {0}
    BY RegAllocAssumption
<1>1. /\ m.pc = c.stR[Blocks] + Len(c.R[Blocks])
      /\ k.pc = c.stC[Blocks] + c.cut[Blocks][Len(c.R[Blocks])]
      /\ OnR(c, m) /\ OnC(c, k)
      /\ Related(c.W[Blocks][Len(c.R[Blocks])], c.h, c.K, c.S, c.X, m, k, c.n)
    BY DEF At2
<1>2. c.cut[Blocks][Len(c.R[Blocks])] = Len(c.C[Blocks])
    BY <1>0 DEF Running
<1>3. m.pc = Len(FlattenSeq(c.R)) + 1 /\ k.pc = Len(FlattenSeq(c.C)) + 1
    <2>1. /\ c.stR[Blocks + 1] = c.stR[Blocks] + Len(c.R[Blocks])
          /\ c.stC[Blocks + 1] = c.stC[Blocks] + Len(c.C[Blocks])
          /\ c.stR[Blocks + 1] \in Nat /\ c.stC[Blocks + 1] \in Nat
          /\ Len(FlattenSeq(c.R)) = c.stR[Blocks + 1] - 1
          /\ Len(FlattenSeq(c.C)) = c.stC[Blocks + 1] - 1
        <3>1. Blocks + 1 \in 1 .. (Blocks + 1)
            BY <1>0
        <3> QED BY <1>0, <3>1, RunningIs
    <2> QED BY <1>1, <1>2, <2>1
<1>4. Len(FlattenSeq(c.R)) \in Nat /\ Len(FlattenSeq(c.C)) \in Nat
    BY RunningIs
<1>5. c.f[Len(FlattenSeq(c.R))] = m
    <2>1. IsRun(c.f, c.R, c.oracle, FALSE, c.omit, c.n)
        BY DEF Running
    <2>2. m.pc > Len(FlattenSeq(c.R))
        BY <1>3, <1>4
    <2> QED BY <1>1, <1>4, <2>1, <2>2, OnRunEnd DEF OnR
<1>6. c.g[Len(FlattenSeq(c.C))] = k
    <2>1. IsRun(c.g, c.C, c.oracle, FALSE, c.omit, c.n)
        BY DEF Running
    <2>2. k.pc > Len(FlattenSeq(c.C))
        BY <1>3, <1>4
    <2> QED BY <1>1, <1>4, <2>1, <2>2, OnRunEnd DEF OnC
<1>7. m.seen = k.seen /\ k.regs[a0] = m.regs[a0] /\ k.regs[sp] = m.regs[sp]
    <2>1. k.regs[c.h[a0]] = m.regs[a0] /\ k.regs[c.h[sp]] = m.regs[sp] /\ m.seen = k.seen
        BY <1>1 DEF Related, Unseen
    <2> QED BY <2>1
<1> QED BY <1>5, <1>6, <1>7 DEF Sees

-----------------------------------------------------------------------------
(* What the passes keep of the code. *)

Fixed == {zero, sp, fp, a0}

(* Every block ends with a jump, and branches lead forward. *)
Shaped(A) ==
    \A b \in 1 .. Blocks :
        /\ Len(A[b]) > 0
        /\ b < Blocks => A[b][Len(A[b])].kind = "J"
        /\ \A i \in 1 .. Len(A[b]) :
              IsTerminator(A[b][i]) => A[b][i].block \in (b + 1) .. Blocks

(* The value of the function is computed last. *)
Ends(A) ==
    A[Blocks][Len(A[Blocks])].kind = "AluRRI" /\ A[Blocks][Len(A[Blocks])].rd = a0

(* E: registers that are defined, on all paths, after so many instructions *)
(* of a block; no other virtual register is read.                          *)
Flow(A, E, omit) ==
    /\ \A b \in 1 .. Blocks : \A i \in 1 .. Len(A[b]) :
          /\ Uses(A[b][i], omit) \subseteq E[b][i - 1] \cup Fixed
          /\ A[b][i].kind # "J" => E[b][i] \subseteq E[b][i - 1] \cup Defs(A[b][i])
          /\ IsTerminator(A[b][i]) => E[A[b][i].block][0] \subseteq E[b][i - 1]
    /\ E[1][0] = {}

ArgsFixed(A) ==
    \A b \in 1 .. Blocks : \A i \in 1 .. Len(A[b]) :
        A[b][i].kind = "Call" => A[b][i].arg_regs \subseteq {a0}

CodeOk(A, n, omit) ==
    /\ Code(A, Instructions(CodeRegs(n))) /\ ArgsFixed(A) /\ Shaped(A) /\ Ends(A)
    /\ \E E : Flow(A, E, omit)

-----------------------------------------------------------------------------
(* Liveness. *)

LEMMA CodeStarts ==
    ASSUME NEW S, NEW bl, Code(bl, S), NEW st, Layout(bl, Blocks, st)
    PROVE  /\ \A b \in 1 .. (Blocks + 1) : st[b] \in Nat \ {0}
           /\ \A b \in 1 .. Blocks : Len(bl[b]) \in Nat /\ st[b + 1] = st[b] + Len(bl[b])
           /\ \A a \in 1 .. Blocks : \A b \in (a + 1) .. (Blocks + 1) :
                 st[a] + Len(bl[a]) <= st[b]
           /\ Len(FlattenSeq(bl)) \in Nat /\ Len(FlattenSeq(bl)) = st[Blocks + 1] - 1
BY StartsGrow, RegAllocAssumption DEF Code

LEMMA PosOf ==
    ASSUME NEW S, NEW bl, Code(bl, S), NEW st, Layout(bl, Blocks, st),
           NEW p \in 1 .. Len(FlattenSeq(bl))
    PROVE  \E b \in 1 .. Blocks : \E i \in 1 .. Len(bl[b]) :
              p = st[b] + i - 1 /\ FlattenSeq(bl)[p] = bl[b][i]
<1>0. Blocks \in Nat \ {0} /\ bl \in [1 .. Blocks -> Seq(S)]
    BY RegAllocAssumption DEF Code
<1>1. /\ \A b \in 1 .. (Blocks + 1) : st[b] \in Nat \ {0}
      /\ \A b \in 1 .. Blocks : Len(bl[b]) \in Nat /\ st[b + 1] = st[b] + Len(bl[b])
      /\ Len(FlattenSeq(bl)) \in Nat /\ Len(FlattenSeq(bl)) = st[Blocks + 1] - 1
    BY CodeStarts
<1> DEFINE T == {b \in Nat : b \in 1 .. Blocks /\ p < st[b + 1]}
<1>2. T # {}
    <2>1. Blocks + 1 \in 1 .. (Blocks + 1) /\ Blocks \in 1 .. Blocks
        BY <1>0
    <2>2. st[Blocks + 1] \in Nat
        BY <1>1, <2>1
    <2>3. p < st[Blocks + 1]
        BY <1>1, <2>2
    <2> QED BY <1>0, <2>1, <2>3
<1>3. PICK b \in T : \A d \in T : b <= d
    BY <1>2, LeastMember
<1>4. b \in 1 .. Blocks /\ p < st[b + 1] /\ b \in Nat
    BY <1>3
<1>5. st[b] <= p
    <2>1. CASE b = 1
        BY <1>1, <2>1 DEF Layout
    <2>2. CASE b # 1
        <3>1. b - 1 \in Nat /\ b - 1 \in 1 .. Blocks /\ (b - 1) + 1 = b /\ ~(b <= b - 1)
              /\ b \in 1 .. (Blocks + 1)
            <4> HIDE DEF T
            <4> QED BY <1>0, <1>4, <2>2
        <3>2. b - 1 \notin T
            <4> HIDE DEF T
            <4> QED BY <1>3, <3>1
        <3>3. ~(p < st[b])
            BY <3>1, <3>2
        <3>4. st[b] \in Nat
            BY <1>1, <3>1
        <3> HIDE DEF T
        <3> QED BY <3>3, <3>4
    <2> QED BY <2>1, <2>2
<1> DEFINE i == p - st[b] + 1
<1>6. i \in 1 .. Len(bl[b]) /\ p = st[b] + i - 1
    <2>1. /\ st[b] \in Nat /\ Len(bl[b]) \in Nat /\ st[b + 1] = st[b] + Len(bl[b])
        <3>1. b \in 1 .. (Blocks + 1)
            BY <1>0, <1>4
        <3> QED BY <1>1, <1>4, <3>1
    <2> HIDE DEF T
    <2> QED BY <1>4, <1>5, <2>1
<1> HIDE DEF i
<1>7. FlattenSeq(bl)[p] = bl[b][i]
    BY <1>4, <1>6 DEF Layout
<1> QED BY <1>4, <1>6, <1>7

LEMMA FollowingIs ==
    ASSUME NEW S, Code(code, S), NEW st, Layout(code, Blocks, st), Shaped(code),
           NEW b \in 1 .. Blocks, NEW i \in 1 .. Len(code[b])
    PROVE  LET p == st[b] + i - 1
           IN /\ p \in 1 .. Len(Flat) /\ Flat[p] = code[b][i]
              /\ Following(p) = (IF IsTerminator(code[b][i]) THEN {st[code[b][i].block]} ELSE {})
                                  \cup (IF code[b][i].kind = "J" THEN {} ELSE {p + 1})
              /\ Following(p) \subseteq (p + 1) .. (Len(Flat) + 1)
<1> DEFINE p == st[b] + i - 1
           N == Len(Flat)
<1>0. Blocks \in Nat \ {0} /\ code \in [1 .. Blocks -> Seq(S)]
    BY RegAllocAssumption DEF Code
<1>1. /\ \A d \in 1 .. (Blocks + 1) : st[d] \in Nat \ {0}
      /\ \A d \in 1 .. Blocks : Len(code[d]) \in Nat
      /\ \A a \in 1 .. Blocks : \A d \in (a + 1) .. (Blocks + 1) : st[a] + Len(code[a]) <= st[d]
      /\ N \in Nat /\ N = st[Blocks + 1] - 1
    BY <1>0, StartsGrow DEF Flat
<1>2. b \in 1 .. (Blocks + 1) /\ Blocks + 1 \in (b + 1) .. (Blocks + 1) /\ Blocks + 1 \in 1 .. (Blocks + 1)
    BY <1>0
<1>3. /\ st[b] \in Nat \ {0} /\ Len(code[b]) \in Nat /\ st[b] + Len(code[b]) <= st[Blocks + 1]
      /\ st[Blocks + 1] \in Nat
    BY <1>1, <1>2
<1>4. p \in 1 .. N /\ p + 1 \in (p + 1) .. (N + 1) /\ p \in Nat
    <2> DEFINE r == Len(code[b])
               q == st[b]
               z == st[Blocks + 1]
    <2>1. q \in Nat \ {0} /\ r \in Nat /\ q + r <= z /\ z \in Nat /\ i \in 1 .. r /\ N = z - 1
          /\ p = q + i - 1
        BY <1>1, <1>3
    <2> HIDE DEF q, r, z, N, p
    <2> QED BY <2>1
<1>5. Flat[p] = code[b][i]
    BY DEF Layout, Flat
<1>6. ASSUME IsTerminator(code[b][i])
      PROVE  /\ {Start(code, d) : d \in Succs(code[b][i])} = {st[code[b][i].block]}
             /\ st[code[b][i].block] \in (p + 1) .. (N + 1)
    <2>1. code[b][i].block \in (b + 1) .. Blocks
        BY <1>6 DEF Shaped
    <2>2. Succs(code[b][i]) = {code[b][i].block}
        BY <1>6 DEF Succs, IsTerminator
    <2>3. code[b][i].block \in 1 .. Blocks /\ code[b][i].block \in (b + 1) .. (Blocks + 1)
          /\ code[b][i].block \in 1 .. (Blocks + 1)
          /\ Blocks + 1 \in (code[b][i].block + 1) .. (Blocks + 1)
        BY <1>0, <2>1
    <2>4. Start(code, code[b][i].block) = st[code[b][i].block]
        BY <2>3 DEF Layout
    <2>5. /\ st[b] + Len(code[b]) <= st[code[b][i].block]
          /\ st[code[b][i].block] + Len(code[code[b][i].block]) <= st[Blocks + 1]
          /\ st[code[b][i].block] \in Nat /\ Len(code[code[b][i].block]) \in Nat
        BY <1>1, <2>3
    <2>6. st[code[b][i].block] \in (p + 1) .. (N + 1)
        <3> DEFINE q == st[code[b][i].block]
                   l == Len(code[code[b][i].block])
                   r == Len(code[b])
        <3>1. /\ q \in Nat /\ l \in Nat /\ r \in Nat /\ st[b] + r <= q /\ q + l <= st[Blocks + 1]
              /\ i \in 1 .. r
            BY <1>3, <2>5
        <3> HIDE DEF q, l, r
        <3>2. q \in (p + 1) .. (N + 1)
            BY <1>1, <1>3, <3>1
        <3> QED BY <3>2 DEF q
    <2> QED BY <2>2, <2>4, <2>6
<1>7. Following(p) = (IF IsTerminator(code[b][i]) THEN {st[code[b][i].block]} ELSE {})
                       \cup (IF code[b][i].kind = "J" THEN {} ELSE {p + 1})
    <2> HIDE DEF p, N
    <2> QED BY <1>5, <1>6 DEF Following
<1>8. Following(p) \subseteq (p + 1) .. (N + 1)
    <2> HIDE DEF p, N
    <2> QED BY <1>4, <1>6, <1>7
<1> QED BY <1>4, <1>5, <1>7, <1>8

LiveAt(at, p) ==
    IF p > Len(Flat) THEN {}
    ELSE Uses(Flat[p], omit_frame_pointer)
           \cup ((UNION {at[q] : q \in Following(p)}) \ Defs(Flat[p]))

LEMMA LiveIs ==
    ASSUME Len(Flat) \in Nat,
           \A p \in 1 .. Len(Flat) : Following(p) \subseteq (p + 1) .. (Len(Flat) + 1)
    PROVE  \A p \in 1 .. (Len(Flat) + 1) : Live[p] = LiveAt(Live, p)
<1> DEFINE N == Len(Flat)
           Lives(at, l) == at = [p \in (N + 1 - l) .. (N + 1) |-> LiveAt(at, p)]
           T == {l \in Nat : l <= N /\ ~ \E at : Lives(at, l)}
<1>0. N \in Nat /\ \A p \in 1 .. N : Following(p) \subseteq (p + 1) .. (N + 1)
    OBVIOUS
<1> HIDE DEF N
<1>1. ASSUME T # {} PROVE FALSE
    <2>1. PICK l \in T : \A j \in T : l <= j
        BY <1>1, LeastMember
    <2>2. l \in Nat /\ l <= N /\ ~ \E at : Lives(at, l)
        BY <2>1
    <2>3. l # 0
        <3>1. Lives([p \in (N + 1) .. (N + 1) |-> {}], 0)
            <4>1. \A at : \A p \in (N + 1) .. (N + 1) : LiveAt(at, p) = {}
                BY <1>0 DEF LiveAt, N
            <4>2. (N + 1) - 0 = N + 1
                BY <1>0
            <4> QED BY <4>1, <4>2
        <3> QED BY <2>2, <3>1
    <2>4. l - 1 \in Nat /\ l - 1 <= N /\ ~(l <= l - 1)
        <3> HIDE DEF T, Lives
        <3> QED BY <1>0, <2>2, <2>3
    <2>5. l - 1 \notin T
        <3> HIDE DEF T
        <3> QED BY <2>1, <2>4
    <2>6. PICK at : Lives(at, l - 1)
        BY <2>4, <2>5
    <2> DEFINE s == N + 1 - l
               more == [p \in s .. (N + 1) |-> IF p = s THEN LiveAt(at, s) ELSE at[p]]
    <2> HIDE DEF T
    <2>7. /\ s \in 1 .. (N + 1) /\ N + 1 - (l - 1) = s + 1 /\ s \in 1 .. N
          /\ \A p \in s .. (N + 1) : p # s => p \in (s + 1) .. (N + 1)
        BY <1>0, <2>2, <2>3, <2>4
    <2> HIDE DEF s
    <2>8. at = [p \in (s + 1) .. (N + 1) |-> LiveAt(at, p)]
        BY <2>6, <2>7
    <2> HIDE DEF Lives
    <2>9. ASSUME NEW p \in s .. (N + 1) PROVE LiveAt(more, p) = LiveAt(at, p)
        <3>1. p \in 1 .. N => \A q \in Following(p) : q \in s .. (N + 1) /\ q # s
            BY <1>0, <2>7
        <3>2. p \in 1 .. N => \A q \in Following(p) : more[q] = at[q]
            BY <3>1
        <3> HIDE DEF more
        <3>3. p \in 1 .. N => {more[q] : q \in Following(p)} = {at[q] : q \in Following(p)}
            BY <3>2
        <3>4. p \in 1 .. N \/ p > N
            BY <1>0, <2>7
        <3> QED BY <3>3, <3>4 DEF LiveAt, N
    <2>10. \A p \in s .. (N + 1) : more[p] = LiveAt(more, p)
        <3> SUFFICES ASSUME NEW p \in s .. (N + 1) PROVE more[p] = LiveAt(more, p)
            OBVIOUS
        <3>1. p # s => at[p] = LiveAt(at, p)
            BY <2>7, <2>8
        <3>2. LiveAt(more, p) = LiveAt(at, p)
            BY <2>9
        <3> QED BY <3>1, <3>2
    <2>11. more = [p \in s .. (N + 1) |-> more[p]]
        OBVIOUS
    <2> HIDE DEF more
    <2>12. more = [p \in s .. (N + 1) |-> LiveAt(more, p)]
        BY <2>10, <2>11
    <2>13. Lives(more, l)
        BY <2>12 DEF Lives, s
    <2> QED BY <2>2, <2>13
<1>2. PICK at : Lives(at, N)
    <2>1. N \notin T
        BY <1>1
    <2> QED BY <1>0, <2>1
<1>3. N + 1 - N = 1
    BY <1>0
<1>4. at = [p \in 1 .. (N + 1) |-> LiveAt(at, p)]
    BY <1>2, <1>3
<1> DEFINE Whole(g) == g = [p \in 1 .. (N + 1) |->
              IF p > Len(Flat) THEN {}
              ELSE Uses(Flat[p], omit_frame_pointer)
                     \cup ((UNION {g[q] : q \in Following(p)}) \ Defs(Flat[p]))]
<1>5. Whole(at)
    BY <1>4 DEF LiveAt
<1>6. Live = CHOOSE g : Whole(g)
    BY DEF Live, N
<1>7. Whole(Live)
    <2> HIDE DEF Whole
    <2> QED BY <1>5, <1>6
<1> QED BY <1>7 DEF LiveAt, N

(* The registers that are live are defined. *)
LEMMA LiveFlow ==
    ASSUME NEW S, Code(code, S), NEW st, Layout(code, Blocks, st), Shaped(code),
           NEW E, Flow(code, E, omit_frame_pointer)
    PROVE  \A r \in Live[1] : ~IsVReg(r)
<1> DEFINE N == Len(Flat)
           Bad(b, i) == \E r \in Live[st[b] + i - 1] : IsVReg(r) /\ r \notin E[b][i - 1]
           T == {l \in Nat : \E b \in 1 .. Blocks : \E i \in 1 .. Len(code[b]) :
                                l = N + 1 - (st[b] + i - 1) /\ Bad(b, i)}
<1>0. Blocks \in Nat \ {0}
    BY RegAllocAssumption
<1>1. /\ \A b \in 1 .. (Blocks + 1) : st[b] \in Nat \ {0}
      /\ \A b \in 1 .. Blocks : Len(code[b]) \in Nat /\ st[b + 1] = st[b] + Len(code[b])
      /\ N \in Nat /\ N = st[Blocks + 1] - 1
    BY CodeStarts DEF Flat
<1>2. ASSUME NEW b \in 1 .. Blocks, NEW i \in 1 .. Len(code[b])
      PROVE  LET p == st[b] + i - 1
             IN /\ p \in 1 .. N /\ Flat[p] = code[b][i]
                /\ Following(p) = (IF IsTerminator(code[b][i]) THEN {st[code[b][i].block]} ELSE {})
                                    \cup (IF code[b][i].kind = "J" THEN {} ELSE {p + 1})
                /\ Following(p) \subseteq (p + 1) .. (N + 1)
    BY FollowingIs
<1>3. \A p \in 1 .. (N + 1) : Live[p] = LiveAt(Live, p)
    <2>1. ASSUME NEW p \in 1 .. N PROVE Following(p) \subseteq (p + 1) .. (N + 1)
        <3>1. PICK b \in 1 .. Blocks : \E i \in 1 .. Len(code[b]) : p = st[b] + i - 1
            BY PosOf DEF Flat
        <3>2. PICK i \in 1 .. Len(code[b]) : p = st[b] + i - 1
            BY <3>1
        <3> QED BY <1>2, <3>2
    <2> QED BY <1>1, <2>1, LiveIs
<1> HIDE DEF N, Bad
<1>4. ASSUME T # {} PROVE FALSE
    <2>1. PICK l \in T : \A j \in T : l <= j
        BY <1>4, LeastMember
    <2>2. PICK b \in 1 .. Blocks : \E i \in 1 .. Len(code[b]) :
                                l = N + 1 - (st[b] + i - 1) /\ Bad(b, i)
        BY <2>1
    <2>3. PICK i \in 1 .. Len(code[b]) : l = N + 1 - (st[b] + i - 1) /\ Bad(b, i)
        BY <2>2
    <2> DEFINE p == st[b] + i - 1
               inst == code[b][i]
    <2>4. /\ p \in 1 .. N /\ Flat[p] = inst /\ l = N + 1 - p
          /\ Following(p) = (IF IsTerminator(inst) THEN {st[inst.block]} ELSE {})
                              \cup (IF inst.kind = "J" THEN {} ELSE {p + 1})
          /\ Following(p) \subseteq (p + 1) .. (N + 1)
        BY <1>2, <2>3
    <2> HIDE DEF p
    <2>5. PICK r \in Live[p] : IsVReg(r) /\ r \notin E[b][i - 1]
        BY <2>3 DEF Bad, p
    <2>6. Live[p] = LiveAt(Live, p) /\ ~(p > N) /\ p \in Nat
        BY <1>1, <1>3, <2>4
    <2>7. r \in Uses(inst, omit_frame_pointer)
             \/ \E q \in Following(p) : r \in Live[q] /\ r \notin Defs(inst)
        BY <2>4, <2>5, <2>6 DEF LiveAt, N
    <2>8. Uses(inst, omit_frame_pointer) \subseteq E[b][i - 1] \cup Fixed
        BY DEF Flow
    <2>9. r \notin Fixed
        BY <2>5, RegsDiffer DEF Fixed
    <2>10. PICK q \in Following(p) : r \in Live[q] /\ r \notin Defs(inst)
        BY <2>5, <2>7, <2>8, <2>9
    <2>11. ASSUME NEW b2 \in 1 .. Blocks, NEW i2 \in 1 .. Len(code[b2]), q = st[b2] + i2 - 1
           PROVE  r \in E[b2][i2 - 1]
        <3>1. q \in (p + 1) .. (N + 1) /\ q \in 1 .. N
            BY <1>2, <2>4, <2>10, <2>11
        <3>2. N + 1 - q \in Nat /\ ~(l <= N + 1 - q)
            <4>1. p \in 1 .. N /\ l = N + 1 - p
                BY <2>4
            <4>2. p \in Nat /\ q \in Nat /\ p < q /\ q <= N
                BY <3>1, <4>1
            <4> HIDE DEF inst, T
            <4> QED BY <1>1, <4>1, <4>2
        <3>3. N + 1 - q \notin T
            <4> HIDE DEF T
            <4> QED BY <2>1, <3>2
        <3>4. ~Bad(b2, i2)
            BY <2>11, <3>2, <3>3
        <3> QED BY <2>5, <2>10, <2>11, <3>4 DEF Bad
    <2> HIDE DEF T
    <2>12. CASE IsTerminator(inst) /\ q = st[inst.block]
        <3>1. inst.block \in (b + 1) .. Blocks /\ E[inst.block][0] \subseteq E[b][i - 1]
            BY <2>12 DEF Shaped, Flow
        <3>2. inst.block \in 1 .. Blocks /\ Len(code[inst.block]) > 0
            BY <3>1 DEF Shaped
        <3>3. 1 \in 1 .. Len(code[inst.block]) /\ q = st[inst.block] + 1 - 1 /\ 1 - 1 = 0
            <4>1. Len(code[inst.block]) \in Nat
                BY <1>1, <3>2
            <4>2. st[inst.block] \in Nat
                <5>1. inst.block \in 1 .. (Blocks + 1)
                    BY <1>0, <3>2
                <5> QED BY <1>1, <5>1
            <4> HIDE DEF inst
            <4> QED BY <2>12, <3>2, <4>1, <4>2
        <3>4. r \in E[inst.block][0]
            BY <2>11, <3>2, <3>3
        <3> QED BY <2>5, <3>1, <3>4
    <2>13. CASE inst.kind # "J" /\ q = p + 1
        <3>1. E[b][i] \subseteq E[b][i - 1] \cup Defs(inst)
            BY <2>13 DEF Flow
        <3>2. CASE i < Len(code[b])
            <4>1. i + 1 \in 1 .. Len(code[b]) /\ q = st[b] + (i + 1) - 1 /\ (i + 1) - 1 = i
                <5>1. Len(code[b]) \in Nat
                    BY <1>1
                <5>2. st[b] \in Nat
                    <6>1. b \in 1 .. (Blocks + 1)
                        BY <1>0
                    <6> QED BY <1>1, <6>1
                <5> HIDE DEF inst
                <5> QED BY <2>13, <3>2, <5>1, <5>2 DEF p
            <4>2. r \in E[b][i]
                BY <2>11, <4>1
            <4> QED BY <2>5, <2>10, <3>1, <4>2
        <3>3. CASE ~(i < Len(code[b]))
            <4>1. i = Len(code[b])
                <5>1. Len(code[b]) \in Nat
                    BY <1>1
                <5> QED BY <3>3, <5>1
            <4>2. b = Blocks
                BY <1>0, <2>13, <4>1 DEF Shaped
            <4>3. q = N + 1
                <5>1. /\ st[Blocks + 1] = st[b] + Len(code[b]) /\ Len(code[b]) \in Nat
                      /\ st[b] \in Nat
                    <6>1. b \in 1 .. (Blocks + 1)
                        BY <1>0
                    <6> QED BY <1>1, <4>2, <6>1
                <5> HIDE DEF inst
                <5> QED BY <1>1, <2>13, <4>1, <5>1 DEF p
            <4>4. Live[q] = {}
                <5>1. N + 1 \in 1 .. (N + 1) /\ N + 1 > N
                    BY <1>1
                <5> QED BY <1>3, <4>3, <5>1 DEF LiveAt, N
            <4> QED BY <2>10, <4>4
        <3> QED BY <3>2, <3>3
    <2> QED BY <2>4, <2>12, <2>13
<1>5. 1 \in 1 .. Blocks /\ 1 \in 1 .. Len(code[1])
    <2>1. 1 \in 1 .. Blocks
        BY <1>0
    <2>2. Len(code[1]) \in Nat /\ Len(code[1]) > 0
        BY <1>1, <2>1 DEF Shaped
    <2> QED BY <2>1, <2>2
<1>6. ~Bad(1, 1)
    <2>1. st[1] + 1 - 1 \in 1 .. N
        BY <1>2, <1>5
    <2>2. N + 1 - (st[1] + 1 - 1) \in Nat
        BY <1>1, <2>1
    <2> QED BY <1>4, <1>5, <2>2
<1>7. st[1] + 1 - 1 = 1 /\ 1 - 1 = 0 /\ E[1][0] = {}
    BY DEF Layout, Flow
<1> QED BY <1>6, <1>7 DEF Bad

-----------------------------------------------------------------------------
(* Renaming. *)

LEMMA ReplaceFields ==
    ASSUME NEW inst, NEW from, NEW to
    PROVE  LET i2 == ReplaceReg(inst, from, to)
           IN /\ DOMAIN i2 = DOMAIN inst
              /\ \A x \in DOMAIN inst :
                    i2[x] = IF x \in {"rd", "rs", "rs1", "rs2", "src"} /\ inst[x] = from THEN to
                            ELSE IF x = "loc" /\ ~OnStack(inst.loc) /\ inst.loc.base = from
                                 THEN RegOffset(to, inst.loc.offset)
                            ELSE inst[x]
BY DEF ReplaceReg

LEMMA ReplaceTo ==
    ASSUME NEW n, NEW inst \in Instructions(CodeRegs(n)), NEW i1, NEW h1,
           InstTo(inst, i1, h1), DOMAIN i1 = DOMAIN inst, NEW from, NEW to,
           NEW h2, \A r \in CodeRegs(n) : h2[r] = IF h1[r] = from THEN to ELSE h1[r]
    PROVE  /\ InstTo(inst, ReplaceReg(i1, from, to), h2)
           /\ DOMAIN ReplaceReg(i1, from, to) = DOMAIN inst
<1> DEFINE i2 == ReplaceReg(i1, from, to)
<1>1. /\ DOMAIN i2 = DOMAIN inst
      /\ \A x \in DOMAIN inst :
            i2[x] = IF x \in {"rd", "rs", "rs1", "rs2", "src"} /\ i1[x] = from THEN to
                    ELSE IF x = "loc" /\ ~OnStack(i1.loc) /\ i1.loc.base = from
                         THEN RegOffset(to, i1.loc.offset)
                    ELSE i1[x]
    BY ReplaceFields
<1> HIDE DEF i2
<1>2. ASSUME NEW loc \in Locations(CodeRegs(n)), NEW l1, LocTo(loc, l1, h1)
      PROVE  LocTo(loc, IF ~OnStack(l1) /\ l1.base = from THEN RegOffset(to, l1.offset) ELSE l1, h2)
    <2>1. CASE OnStack(loc)
        BY <1>2, <2>1 DEF LocTo
    <2>2. CASE ~OnStack(loc)
        <3>1. loc.base \in CodeRegs(n)
            BY <2>2 DEF Locations, OnStack
        <3>2. ~OnStack(l1) /\ l1.base = h1[loc.base] /\ l1.offset = loc.offset
            BY <1>2, <2>2 DEF LocTo
        <3>3. /\ ~OnStack(RegOffset(to, l1.offset)) /\ RegOffset(to, l1.offset).base = to
              /\ RegOffset(to, l1.offset).offset = l1.offset
            BY DEF OnStack, RegOffset
        <3>4. CASE l1.base = from
            <4>1. h2[loc.base] = to
                BY <3>1, <3>2, <3>4
            <4> QED BY <2>2, <3>2, <3>3, <3>4, <4>1 DEF LocTo
        <3>5. CASE l1.base # from
            <4>1. h2[loc.base] = l1.base
                BY <3>1, <3>2, <3>5
            <4> QED BY <2>2, <3>2, <3>5, <4>1 DEF LocTo
        <3> QED BY <3>4, <3>5
    <2> QED BY <2>1, <2>2
<1>3. CASE inst.kind = "Li"
    <2>1. /\ DOMAIN inst = {"kind", "rd", "imm"} /\ inst.rd \in CodeRegs(n)
        BY <1>3 DEF Instructions
    <2>2. i1.kind = "Li" /\ i1.rd = h1[inst.rd] /\ i1.imm = inst.imm
        BY <1>3 DEF InstTo, Defining
    <2>3. i2.kind = "Li" /\ i2.rd = h2[inst.rd] /\ i2.imm = inst.imm
        BY <1>1, <2>1, <2>2
    <2> QED BY <1>1, <1>3, <2>3 DEF InstTo, i2
<1>4. CASE inst.kind = "AluRRI"
    <2>1. /\ DOMAIN inst = {"kind", "rd", "rs", "imm"}
          /\ inst.rd \in CodeRegs(n) /\ inst.rs \in CodeRegs(n)
        BY <1>4 DEF Instructions
    <2>2. /\ i1.kind = "AluRRI" /\ i1.rd = h1[inst.rd] /\ i1.rs = h1[inst.rs]
          /\ i1.imm = inst.imm
        BY <1>4 DEF InstTo, Defining
    <2>3. /\ i2.kind = "AluRRI" /\ i2.rd = h2[inst.rd] /\ i2.rs = h2[inst.rs]
          /\ i2.imm = inst.imm
        BY <1>1, <2>1, <2>2
    <2> QED BY <1>1, <1>4, <2>3 DEF InstTo, i2
<1>5. CASE inst.kind = "AluRRR"
    <2>1. /\ DOMAIN inst = {"kind", "rd", "rs1", "rs2"}
          /\ inst.rd \in CodeRegs(n) /\ inst.rs1 \in CodeRegs(n) /\ inst.rs2 \in CodeRegs(n)
        BY <1>5 DEF Instructions
    <2>2. /\ i1.kind = "AluRRR" /\ i1.rd = h1[inst.rd]
          /\ i1.rs1 = h1[inst.rs1] /\ i1.rs2 = h1[inst.rs2]
        BY <1>5 DEF InstTo, Defining
    <2>3. /\ i2.kind = "AluRRR" /\ i2.rd = h2[inst.rd]
          /\ i2.rs1 = h2[inst.rs1] /\ i2.rs2 = h2[inst.rs2]
        BY <1>1, <2>1, <2>2
    <2> QED BY <1>1, <1>5, <2>3 DEF InstTo, i2
<1>6. CASE inst.kind \in {"Load", "LoadAddr"}
    <2>1. /\ DOMAIN inst = {"kind", "rd", "loc"}
          /\ inst.rd \in CodeRegs(n) /\ inst.loc \in Locations(CodeRegs(n))
        BY <1>6 DEF Instructions
    <2>2. i1.kind = inst.kind /\ i1.rd = h1[inst.rd] /\ LocTo(inst.loc, i1.loc, h1)
        BY <1>6 DEF InstTo, Defining
    <2>3. i2.kind = inst.kind /\ i2.rd = h2[inst.rd]
        BY <1>1, <2>1, <2>2
    <2>4. i2.loc = IF ~OnStack(i1.loc) /\ i1.loc.base = from THEN RegOffset(to, i1.loc.offset)
                   ELSE i1.loc
        BY <1>1, <2>1
    <2>5. LocTo(inst.loc, i2.loc, h2)
        BY <1>2, <2>1, <2>2, <2>4
    <2> QED BY <1>1, <1>6, <2>3, <2>5 DEF InstTo, i2
<1>7. CASE inst.kind = "Store"
    <2>1. /\ DOMAIN inst = {"kind", "src", "loc"}
          /\ inst.src \in CodeRegs(n) /\ inst.loc \in Locations(CodeRegs(n))
        BY <1>7 DEF Instructions
    <2>2. i1.kind = inst.kind /\ i1.src = h1[inst.src] /\ LocTo(inst.loc, i1.loc, h1)
        BY <1>7 DEF InstTo
    <2>3. i2.kind = inst.kind /\ i2.src = h2[inst.src]
        BY <1>1, <2>1, <2>2
    <2>4. i2.loc = IF ~OnStack(i1.loc) /\ i1.loc.base = from THEN RegOffset(to, i1.loc.offset)
                   ELSE i1.loc
        BY <1>1, <2>1
    <2>5. LocTo(inst.loc, i2.loc, h2)
        BY <1>2, <2>1, <2>2, <2>4
    <2> QED BY <1>1, <1>7, <2>3, <2>5 DEF InstTo, i2, Defining
<1>8. CASE inst.kind = "Call"
    <2>1. DOMAIN inst = {"kind", "arg_regs"}
        BY <1>8 DEF Instructions
    <2>2. i1.kind = inst.kind /\ i1.arg_regs = inst.arg_regs
        BY <1>8 DEF InstTo
    <2>3. i2.kind = inst.kind /\ i2.arg_regs = inst.arg_regs
        BY <1>1, <2>1, <2>2
    <2> QED BY <1>1, <1>8, <2>3 DEF InstTo, i2, Defining
<1>9. CASE inst.kind = "J"
    <2>1. DOMAIN inst = {"kind", "block"}
        BY <1>9 DEF Instructions
    <2>2. i1.kind = inst.kind /\ i1.block = inst.block
        BY <1>9 DEF InstTo
    <2>3. i2.kind = inst.kind /\ i2.block = inst.block
        BY <1>1, <2>1, <2>2
    <2> QED BY <1>1, <1>9, <2>3 DEF InstTo, i2, Defining
<1>10. CASE inst.kind = "Br"
    <2>1. /\ DOMAIN inst = {"kind", "rs1", "rs2", "block"}
          /\ inst.rs1 \in CodeRegs(n) /\ inst.rs2 \in CodeRegs(n)
        BY <1>10 DEF Instructions
    <2>2. /\ i1.kind = "Br" /\ i1.block = inst.block
          /\ i1.rs1 = h1[inst.rs1] /\ i1.rs2 = h1[inst.rs2]
        BY <1>10 DEF InstTo
    <2>3. /\ i2.kind = "Br" /\ i2.block = inst.block
          /\ i2.rs1 = h2[inst.rs1] /\ i2.rs2 = h2[inst.rs2]
        BY <1>1, <2>1, <2>2
    <2> QED BY <1>1, <1>10, <2>3 DEF InstTo, i2, Defining
<1> QED
    BY <1>3, <1>4, <1>5, <1>6, <1>7, <1>8, <1>9, <1>10 DEF Instructions

(* Where the registers of the code go (Place of Allocations). *)
Placed(f, n) == [r \in CodeRegs(n) |-> IF r \in DOMAIN f THEN f[r] ELSE r]

LEMMA RenamedTo ==
    ASSUME vreg_counter \in Nat, NEW inst \in Instructions(CodeRegs(vreg_counter)), NEW f,
           \A r \in DOMAIN f : IsVReg(r) /\ f[r] \in PRegs
    PROVE  InstTo(inst, Renamed(inst, f), Placed(f, vreg_counter))
<1> DEFINE N == vreg_counter
           Then(x, n) == IF V(n - 1) \in DOMAIN f THEN ReplaceReg(x, V(n - 1), f[V(n - 1)]) ELSE x
           Ups(g, l) == g = [n \in 0 .. l |-> IF n = 0 THEN inst ELSE Then(g[n - 1], n)]
           H(j) == [r \in CodeRegs(N) |->
                      IF r \in DOMAIN f /\ (\E i \in 0 .. (j - 1) : r = V(i)) THEN f[r] ELSE r]
           Done(x, j) == InstTo(inst, x, H(j)) /\ DOMAIN x = DOMAIN inst
           T == {l \in Nat : l <= N /\ ~ \E g : Ups(g, l) /\ Done(g[l], l)}
<1> HIDE DEF Then, N
<1>0. N \in Nat
    BY DEF N
<1>1. Done(inst, 0)
    <2>1. ASSUME NEW r \in CodeRegs(N) PROVE H(0)[r] = r
        BY DEF CodeRegs
    <2> HIDE DEF H
    <2>2. inst \in Instructions(CodeRegs(N))
        BY DEF N
    <2>3. ASSUME NEW loc \in Locations(CodeRegs(N)) PROVE LocTo(loc, loc, H(0))
        BY <2>1 DEF LocTo, Locations, OnStack
    <2>4. /\ inst.kind \in Defining => inst.rd \in CodeRegs(N)
          /\ inst.kind = "AluRRI" => inst.rs \in CodeRegs(N)
          /\ inst.kind \in {"AluRRR", "Br"} => inst.rs1 \in CodeRegs(N) /\ inst.rs2 \in CodeRegs(N)
          /\ inst.kind \in {"Load", "LoadAddr", "Store"} => inst.loc \in Locations(CodeRegs(N))
          /\ inst.kind = "Store" => inst.src \in CodeRegs(N)
        BY <2>2 DEF Instructions, Defining
    <2> QED BY <2>1, <2>3, <2>4 DEF InstTo
<1>2. ASSUME NEW x, NEW l \in 1 .. N, Done(x, l - 1) PROVE Done(Then(x, l), l)
    <2>1. l - 1 \in 0 .. (N - 1) /\ \A i \in 0 .. (l - 1) : i \in 0 .. ((l - 1) - 1) \/ i = l - 1
        BY <1>0
    <2>2. CASE V(l - 1) \in DOMAIN f
        <3>1. ASSUME NEW r \in CodeRegs(N)
              PROVE  H(l)[r] = IF H(l - 1)[r] = V(l - 1) THEN f[V(l - 1)] ELSE H(l - 1)[r]
            <4>1. CASE r = V(l - 1)
                <5>1. ~ \E i \in 0 .. ((l - 1) - 1) : r = V(i)
                    BY <2>1, <4>1, RegsDiffer
                <5>2. \E i \in 0 .. (l - 1) : r = V(i)
                    BY <2>1, <4>1
                <5> QED BY <2>2, <4>1, <5>1, <5>2
            <4>2. CASE r # V(l - 1)
                <5>1. H(l)[r] = H(l - 1)[r]
                    BY <2>1, <4>2
                <5>2. H(l - 1)[r] # V(l - 1)
                    <6>1. \A q \in DOMAIN f : f[q] \in AllPRegs
                        BY RegAllocAssumption
                    <6>2. \A q \in DOMAIN f : f[q] # V(l - 1)
                        BY <6>1, RegsDiffer
                    <6> QED BY <4>2, <6>2
                <5> HIDE DEF H
                <5> QED BY <5>1, <5>2
            <4> QED BY <4>1, <4>2
        <3>2. Then(x, l) = ReplaceReg(x, V(l - 1), f[V(l - 1)])
            BY <2>2 DEF Then
        <3>3. InstTo(inst, x, H(l - 1)) /\ DOMAIN x = DOMAIN inst
            BY <1>2
        <3>4. inst \in Instructions(CodeRegs(N))
            BY DEF N
        <3> HIDE DEF H
        <3> QED BY <3>1, <3>2, <3>3, <3>4, ReplaceTo
    <2>3. CASE V(l - 1) \notin DOMAIN f
        <3>1. H(l) = H(l - 1)
            BY <2>1, <2>3
        <3>2. Then(x, l) = x
            BY <2>3 DEF Then
        <3> HIDE DEF H
        <3> QED BY <1>2, <3>1, <3>2
    <2> QED BY <2>2, <2>3
<1> HIDE DEF Done, H
<1>3. ASSUME T # {} PROVE FALSE
    <2>1. PICK l \in T : \A j \in T : l <= j
        BY <1>3, LeastMember
    <2>2. l \in Nat /\ l <= N /\ ~ \E g : Ups(g, l) /\ Done(g[l], l)
        BY <2>1
    <2>3. l # 0
        <3> DEFINE g == [n \in 0 .. 0 |-> inst]
        <3>1. Ups(g, 0) /\ g[0] = inst
            OBVIOUS
        <3> QED BY <1>1, <2>2, <3>1
    <2>4. l - 1 \in Nat /\ l - 1 <= N /\ ~(l <= l - 1) /\ l \in 1 .. N
        <3> HIDE DEF T, Ups
        <3> QED BY <1>0, <2>2, <2>3
    <2>5. l - 1 \notin T
        <3> HIDE DEF T
        <3> QED BY <2>1, <2>4
    <2>6. PICK g : Ups(g, l - 1) /\ Done(g[l - 1], l - 1)
        BY <2>4, <2>5
    <2> HIDE DEF T
    <2> DEFINE last == Then(g[l - 1], l)
               more == [n \in 0 .. l |-> IF n = l THEN last ELSE g[n]]
    <2>7. Done(last, l)
        BY <1>2, <2>4, <2>6
    <2>8. more = [n \in 0 .. l |-> IF n = 0 THEN inst ELSE Then(more[n - 1], n)]
        <3>1. ASSUME NEW n \in 0 .. l
              PROVE  more[n] = IF n = 0 THEN inst ELSE Then(more[n - 1], n)
            <4> HIDE DEF last
            <4>1. CASE n = l
                <5>1. more[n] = last /\ n # 0 /\ more[n - 1] = g[n - 1]
                    BY <2>4, <4>1
                <5> QED BY <4>1, <5>1 DEF last
            <4>2. CASE n # l
                <5>1. n \in 0 .. (l - 1) /\ more[n] = g[n]
                    BY <2>4, <4>2
                <5>2. g[n] = IF n = 0 THEN inst ELSE Then(g[n - 1], n)
                    BY <2>6, <5>1
                <5>3. n # 0 => more[n - 1] = g[n - 1]
                    BY <2>4, <4>2
                <5> QED BY <5>1, <5>2, <5>3
            <4> QED BY <4>1, <4>2
        <3>2. more = [n \in 0 .. l |-> more[n]]
            OBVIOUS
        <3> HIDE DEF more
        <3> QED BY <3>1, <3>2
    <2>9. more[l] = last
        BY <2>4
    <2> HIDE DEF last, more
    <2>10. Ups(more, l) /\ Done(more[l], l)
        BY <2>7, <2>8, <2>9
    <2> QED BY <2>2, <2>10
<1>4. PICK g : Ups(g, N) /\ Done(g[N], N)
    <2>1. N \notin T
        BY <1>3
    <2> QED BY <1>0, <2>1
<1> DEFINE Whole(u) == u = [n \in 0 .. vreg_counter |->
              IF n = 0 THEN inst
              ELSE IF V(n - 1) \in DOMAIN f THEN ReplaceReg(u[n - 1], V(n - 1), f[V(n - 1)])
              ELSE u[n - 1]]
           up == CHOOSE u : Whole(u)
<1>5. Whole(g)
    BY <1>4 DEF Then, N
<1>6. Whole(up)
    <2> HIDE DEF Whole
    <2> QED BY <1>5
<1>7. Renamed(inst, f) = up[N]
    BY DEF Renamed, N
<1> HIDE DEF up
<1>8. \A n \in Nat : n <= N => up[n] = g[n]
    <2> DEFINE Q == {n \in Nat : n <= N /\ up[n] # g[n]}
    <2>1. ASSUME Q # {} PROVE FALSE
        <3>1. PICK n \in Q : \A j \in Q : n <= j
            BY <2>1, LeastMember
        <3>2. n \in Nat /\ n <= N /\ up[n] # g[n] /\ n \in 0 .. N
            BY <1>0, <3>1
        <3>3. up[n] = IF n = 0 THEN inst ELSE Then(up[n - 1], n)
            BY <1>6, <3>2 DEF Then, N
        <3>4. g[n] = IF n = 0 THEN inst ELSE Then(g[n - 1], n)
            BY <1>4, <3>2
        <3>5. n # 0 => n - 1 \in Nat /\ n - 1 <= N /\ ~(n <= n - 1)
            <4> HIDE DEF Q
            <4> QED BY <1>0, <3>2
        <3>6. n # 0 => n - 1 \notin Q
            <4> HIDE DEF Q
            <4> QED BY <3>1, <3>5
        <3>7. n # 0 => up[n - 1] = g[n - 1]
            BY <3>5, <3>6
        <3> QED BY <3>2, <3>3, <3>4, <3>7
    <2> QED BY <2>1
<1>9. Done(Renamed(inst, f), N)
    BY <1>0, <1>4, <1>7, <1>8
<1>10. H(N) = Placed(f, N)
    <2>1. \A r \in CodeRegs(N) : r \in DOMAIN f => \E i \in 0 .. (N - 1) : r = V(i)
        BY CodeRegsIn
    <2> QED BY <2>1 DEF H, Placed
<1> QED BY <1>9, <1>10 DEF Done, N

-----------------------------------------------------------------------------
(* Allocation. *)

NeededAt(st, b, i, n) ==
    (Live[st[b] + i] \cap CodeRegs(n)) \cup {sp}
      \cup (IF b = Blocks /\ i = Len(code[b]) THEN {a0} ELSE {})

LEMMA FollowingForward ==
    ASSUME NEW S, Code(code, S), NEW st, Layout(code, Blocks, st), Shaped(code)
    PROVE  \A p \in 1 .. Len(Flat) : Following(p) \subseteq (p + 1) .. (Len(Flat) + 1)
<1> DEFINE N == Len(Flat)
<1>1. ASSUME NEW p \in 1 .. N PROVE Following(p) \subseteq (p + 1) .. (N + 1)
    <2>1. PICK b \in 1 .. Blocks : \E i \in 1 .. Len(code[b]) : p = st[b] + i - 1
        BY PosOf DEF Flat
    <2>2. PICK i \in 1 .. Len(code[b]) : p = st[b] + i - 1
        BY <2>1
    <2> QED BY <2>2, FollowingIs
<1> QED BY <1>1

LEMMA LiveStep ==
    ASSUME NEW S, Code(code, S), NEW st, Layout(code, Blocks, st), Shaped(code),
           NEW b \in 1 .. Blocks, NEW i \in 1 .. Len(code[b])
    PROVE  /\ Uses(code[b][i], omit_frame_pointer) \subseteq Live[st[b] + i - 1]
           /\ \A q \in Following(st[b] + i - 1) : Live[q] \ Defs(code[b][i]) \subseteq Live[st[b] + i - 1]
<1> DEFINE p == st[b] + i - 1
<1>1. p \in 1 .. Len(Flat) /\ Flat[p] = code[b][i]
    BY FollowingIs
<1>2. \A q \in 1 .. Len(Flat) : Following(q) \subseteq (q + 1) .. (Len(Flat) + 1)
    BY FollowingForward
<1>3. Len(Flat) \in Nat
    BY CodeStarts DEF Flat
<1> HIDE DEF p
<1>4. Live[p] = LiveAt(Live, p)
    <2>1. p \in 1 .. (Len(Flat) + 1)
        BY <1>1, <1>3
    <2> QED BY <1>2, <1>3, <2>1, LiveIs
<1>5. ~(p > Len(Flat))
    BY <1>1, <1>3
<1> QED BY <1>1, <1>4, <1>5 DEF LiveAt, p

LEMMA AllocationIs ==
    ASSUME NEW f \in Allocations
    PROVE  /\ \A r \in DOMAIN f : IsVReg(r) /\ f[r] \in Allocatable \cap PRegs
           /\ \A pair \in Interference :
                 (IF pair[1] \in DOMAIN f THEN f[pair[1]] ELSE pair[1])
                   # (IF pair[2] \in DOMAIN f THEN f[pair[2]] ELSE pair[2])
BY DEF Allocations, Named

LEMMA PlacedRenaming ==
    ASSUME NEW f \in Allocations, NEW n
    PROVE  /\ Renaming(Placed(f, n), n)
           /\ \A r \in DOMAIN f : f[r] # sp
           /\ \A r \in CodeRegs(n) : ~IsVReg(r) => Placed(f, n)[r] = r
           /\ \A r \in CodeRegs(n) : Placed(f, n)[r] = sp => r = sp
<1>1. \A r \in DOMAIN f : IsVReg(r) /\ f[r] \in Allocatable \cap PRegs
    BY AllocationIs
<1>2. t0 \notin Allocatable /\ sp \notin Allocatable
    BY DEF Allocatable, t0, sp, P
<1>3. ~IsVReg(zero) /\ ~IsVReg(sp) /\ ~IsVReg(fp) /\ ~IsVReg(a0)
    BY RegsDiffer
<1>4. /\ CodeRegs(n) \subseteq RegsOf(n) \ {t0} /\ {zero, sp, fp, a0} \subseteq CodeRegs(n)
      /\ PRegs \subseteq RegsOf(n)
    BY CodeRegsIn DEF RegsOf
<1> QED BY <1>1, <1>2, <1>3, <1>4 DEF Renaming, Placed

(* What is written is not where what is needed then is. *)
LEMMA Apart ==
    ASSUME vreg_counter \in Nat, Code(code, Instructions(CodeRegs(vreg_counter))),
           NEW st, Layout(code, Blocks, st), Shaped(code), NEW f \in Allocations,
           NEW b \in 1 .. Blocks, NEW i \in 1 .. Len(code[b]), ~IsTerminator(code[b][i]),
           NEW i2, InstTo(code[b][i], i2, Placed(f, vreg_counter)),
           NEW q \in CodeRegs(vreg_counter), q \notin Defs(code[b][i]),
           q = sp \/ \E p \in Following(st[b] + i - 1) : q \in Live[p]
    PROVE  Placed(f, vreg_counter)[q] \notin Clobbers(i2)
<1> DEFINE n == vreg_counter
           h == Placed(f, n)
           inst == code[b][i]
           Place(r) == IF r \in DOMAIN f THEN f[r] ELSE r
<1>1. inst \in Instructions(CodeRegs(n))
    BY DEF Code
<1>2. \A r \in CodeRegs(n) : h[r] = Place(r)
    BY DEF Placed
<1>3. ASSUME q # sp, NEW d \in Defs(inst) \cup Clobbers(inst), d # q
      PROVE  Place(d) # Place(q)
    <2>1. PICK p \in Following(st[b] + i - 1) : q \in Live[p]
        BY <1>3
    <2>2. st[b] + i - 1 \in 1 .. Len(Flat) /\ Flat[st[b] + i - 1] = inst
        BY FollowingIs
    <2>3. DOMAIN Flat = 1 .. Len(Flat)
        <3>1. Flat \in Seq(Instructions(CodeRegs(n)))
            BY FlattenLayout, RegAllocAssumption DEF Code, Flat
        <3> QED BY <3>1
    <2> HIDE DEF inst
    <2>4. <<d, q>> \in Interference
        BY <1>3, <2>1, <2>2, <2>3 DEF Interference
    <2> QED BY <2>4, AllocationIs
<1>4. CASE inst.kind \in Defining
    <2>1. /\ i2.kind = inst.kind /\ i2.rd = h[inst.rd] /\ inst.rd \in CodeRegs(n)
          /\ Defs(inst) = {inst.rd} /\ Clobbers(i2) = {i2.rd}
        BY <1>1, <1>4 DEF InstTo, Instructions, Defining, Defs, Clobbers
    <2>2. CASE q = sp
        <3>1. h[q] = sp /\ inst.rd # sp
            BY <2>1, <2>2, PlacedRenaming DEF Renaming
        <3>2. h[inst.rd] # sp
            BY <2>1, <3>1, PlacedRenaming
        <3> QED BY <2>1, <3>1, <3>2
    <2>3. CASE q # sp
        <3>1. Place(inst.rd) # Place(q)
            BY <1>3, <2>1, <2>3
        <3> QED BY <1>2, <2>1, <3>1
    <2> QED BY <2>2, <2>3
<1>5. CASE inst.kind = "Call"
    <2>1. i2.kind = "Call" /\ Clobbers(i2) = CALLER_SAVED_REGS /\ Clobbers(inst) = CALLER_SAVED_REGS
        BY <1>5 DEF InstTo, Clobbers
    <2>2. \A d \in CALLER_SAVED_REGS : ~IsVReg(d) /\ d # sp
        BY DEF CALLER_SAVED_REGS, IsVReg, P, sp
    <2>3. \A d \in CALLER_SAVED_REGS : Place(d) = d
        BY <2>2, AllocationIs
    <2>4. CASE q = sp
        <3>1. h[q] = sp
            BY <2>4, PlacedRenaming DEF Renaming
        <3> QED BY <2>1, <2>2, <3>1
    <2>5. CASE q # sp
        <3>1. q \notin CALLER_SAVED_REGS
            BY <1>1, <2>1, ClobbersOf
        <3>2. \A d \in CALLER_SAVED_REGS : d # Place(q)
            BY <1>3, <2>1, <2>3, <2>5, <3>1
        <3> QED BY <1>2, <2>1, <3>2
    <2> QED BY <2>4, <2>5
<1>6. CASE inst.kind \notin Defining \cup {"Call"}
    BY <1>6 DEF Clobbers, InstTo
<1> QED BY <1>4, <1>5, <1>6

-----------------------------------------------------------------------------
(* The two runs go on by an instruction each. *)

LEMMA PlaceIs ==
    ASSUME NEW c, Running(c), NEW b \in 1 .. Blocks, NEW i \in 0 .. Len(c.R[b])
    PROVE  /\ c.stR[b] \in Nat \ {0} /\ c.stC[b] \in Nat \ {0}
           /\ Len(c.R[b]) \in Nat /\ Len(c.C[b]) \in Nat
           /\ c.cut[b][i] \in 0 .. Len(c.C[b])
           /\ c.cut[b][0] = 0
           /\ c.cut[b][Len(c.R[b])] = Len(c.C[b])
           /\ Start(c.R, b) = c.stR[b] /\ Start(c.C, b) = c.stC[b]
<1>1. b \in 1 .. (Blocks + 1)
    BY RegAllocAssumption
<1>2. c.stR[b] \in Nat \ {0} /\ c.stC[b] \in Nat \ {0}
    BY <1>1, RunningIs
<1>3. Len(c.R[b]) \in Nat /\ Len(c.C[b]) \in Nat /\ Start(c.R, b) = c.stR[b] /\ Start(c.C, b) = c.stC[b]
    BY RunningIs
<1>4. /\ c.cut[b][i] \in 0 .. Len(c.C[b]) /\ c.cut[b][0] = 0
      /\ c.cut[b][Len(c.R[b])] = Len(c.C[b])
    BY DEF Running
<1> QED BY <1>2, <1>3, <1>4

LEMMA LaterPlace ==
    ASSUME NEW c, Running(c), NEW b \in 1 .. Blocks, NEW d \in (b + 1) .. Blocks
    PROVE  /\ d \in 1 .. Blocks
           /\ c.stR[b] + Len(c.R[b]) <= c.stR[d] /\ c.stC[b] + Len(c.C[b]) <= c.stC[d]
<1>1. d \in (b + 1) .. (Blocks + 1) /\ d \in 1 .. Blocks
    BY RegAllocAssumption
<1> QED BY <1>1, RunningIs

(* Both runs at the start of a block, at last. *)
LEMMA GoesTo ==
    ASSUME NEW c, Running(c), NEW b, NEW i, NEW m, NEW k, At2(c, b, i, m, k),
           NEW d \in (b + 1) .. Blocks, Len(c.R[d]) > 0,
           NEW e, NEW f, e.pc = c.stR[d], f.pc = c.stC[d], OnR(c, e), OnC(c, f),
           NEW W, Related(W, c.h, c.K, c.S, c.X, e, f, c.n), c.W[d][0] \subseteq W,
           i < Len(c.R[b])
    PROVE  Goes(c, m)
<1>1. b \in 1 .. Blocks /\ i \in 0 .. Len(c.R[b]) /\ m.pc = c.stR[b] + i
    BY DEF At2
<1>2. d \in 1 .. Blocks /\ c.stR[b] + Len(c.R[b]) <= c.stR[d]
    BY <1>1, LaterPlace
<1>3. /\ Len(c.R[b]) \in Nat /\ c.stR[b] \in Nat
    BY <1>1, PlaceIs
<1>a. Len(c.R[d]) \in Nat
    <2>1. Len(c.R[d]) \in Nat
        BY <1>2, RunningIs
    <2> QED BY <2>1
<1>b. 0 \in 0 .. Len(c.R[d])
    BY <1>a
<1>4. c.stR[d] \in Nat /\ c.stC[d] \in Nat /\ c.cut[d][0] = 0
    BY <1>2, <1>b, PlaceIs
<1>5. m.pc < e.pc /\ e.pc = c.stR[d] + 0 /\ f.pc = c.stC[d] + c.cut[d][0]
    <2>1. m.pc < c.stR[d]
        BY <1>1, <1>2, <1>3, <1>4, PlaceBefore, Zenon
    <2>2. c.stR[d] = c.stR[d] + 0 /\ c.stC[d] = c.stC[d] + 0
        BY <1>4, PlaceFirst, Zenon
    <2> QED BY <1>4, <2>1, <2>2, Zenon
<1>6. Related(c.W[d][0], c.h, c.K, c.S, c.X, e, f, c.n)
    BY RelatedLess
<1>7. At2(c, d, 0, e, f)
    BY <1>2, <1>5, <1>6, <1>b DEF At2
<1> QED BY <1>5, <1>7 DEF Goes

(* Where the runs are, and where they are going.                           *)
AheadR(c, b, i, m) ==
    /\ i + 1 \in 1 .. Len(c.R[b]) /\ i + 1 \in 0 .. Len(c.R[b])
    /\ m.pc = c.stR[b] + (i + 1) - 1 /\ m.pc + 1 = c.stR[b] + (i + 1)
    /\ m.pc \in Nat /\ m.pc + 1 \in Nat /\ m.pc < m.pc + 1
    /\ \A d \in (b + 1) .. Blocks :
          m.pc < c.stR[d] /\ c.stR[d] \in Nat /\ Start(c.R, d) = c.stR[d]

LEMMA Ahead ==
    ASSUME NEW c, Running(c), NEW b, NEW i, NEW m, NEW k, At2(c, b, i, m, k), i < Len(c.R[b])
    PROVE  AheadR(c, b, i, m)
<1>1. b \in 1 .. Blocks /\ i \in 0 .. Len(c.R[b]) /\ m.pc = c.stR[b] + i
    BY DEF At2
<1>2. Len(c.R[b]) \in Nat /\ c.stR[b] \in Nat
    BY <1>1, PlaceIs
<1>3. ASSUME NEW d \in (b + 1) .. Blocks
      PROVE  /\ c.stR[b] + Len(c.R[b]) <= c.stR[d] /\ c.stR[d] \in Nat
             /\ Start(c.R, d) = c.stR[d]
    <2>1. d \in 1 .. Blocks /\ c.stR[b] + Len(c.R[b]) <= c.stR[d]
        BY <1>1, LaterPlace
    <2>2. d \in 1 .. (Blocks + 1)
        BY <2>1, RegAllocAssumption
    <2> QED BY <2>1, <2>2, RunningIs
<1>4. \A d \in (b + 1) .. Blocks : /\ m.pc < c.stR[d] /\ c.stR[d] \in Nat
                                   /\ Start(c.R, d) = c.stR[d]
    <2> SUFFICES ASSUME NEW d \in (b + 1) .. Blocks
                 PROVE  m.pc < c.stR[d] /\ c.stR[d] \in Nat /\ Start(c.R, d) = c.stR[d]
        OBVIOUS
    <2>1. /\ c.stR[b] + Len(c.R[b]) <= c.stR[d] /\ c.stR[d] \in Nat
          /\ Start(c.R, d) = c.stR[d]
        BY <1>3
    <2>2. m.pc < c.stR[d]
        BY <1>1, <1>2, <2>1, PlaceBefore, Zenon
    <2> QED BY <2>1, <2>2, Zenon
<1>5. /\ i + 1 \in 1 .. Len(c.R[b]) /\ i + 1 \in 0 .. Len(c.R[b])
      /\ m.pc = c.stR[b] + (i + 1) - 1 /\ m.pc + 1 = c.stR[b] + (i + 1)
      /\ m.pc \in Nat /\ m.pc + 1 \in Nat /\ m.pc < m.pc + 1
    <2> DEFINE x == c.stR[b]
               y == Len(c.R[b])
               q == m.pc
    <2>1. y \in Nat /\ x \in Nat /\ i \in 0 .. y /\ i < y /\ q = x + i
        BY <1>1, <1>2, Zenon
    <2> HIDE DEF x, y, q
    <2>2. /\ i + 1 \in 1 .. y /\ i + 1 \in 0 .. y
          /\ q = x + (i + 1) - 1 /\ q + 1 = x + (i + 1)
          /\ q \in Nat /\ q + 1 \in Nat /\ q < q + 1
        BY <2>1
    <2> QED BY <2>2 DEF x, y, q
<1> QED BY <1>4, <1>5 DEF AheadR

AheadC(c, b, i, k) ==
    /\ c.cut[b][i] + 1 \in 1 .. Len(c.C[b])
    /\ k.pc = c.stC[b] + (c.cut[b][i] + 1) - 1 /\ k.pc + 1 = c.stC[b] + (c.cut[b][i] + 1)
    /\ k.pc \in Nat /\ k.pc + 1 \in Nat /\ k.pc < k.pc + 1
    /\ \A d \in (b + 1) .. Blocks :
          k.pc < c.stC[d] /\ c.stC[d] \in Nat /\ Start(c.C, d) = c.stC[d]

LEMMA AheadInC ==
    ASSUME NEW c, Running(c), NEW b, NEW i, NEW m, NEW k, At2(c, b, i, m, k),
           c.cut[b][i] < Len(c.C[b])
    PROVE  AheadC(c, b, i, k)
<1> DEFINE j == c.cut[b][i]
<1>1. b \in 1 .. Blocks /\ i \in 0 .. Len(c.R[b]) /\ k.pc = c.stC[b] + j
    BY DEF At2
<1>2. Len(c.C[b]) \in Nat /\ c.stC[b] \in Nat /\ j \in 0 .. Len(c.C[b])
    BY <1>1, PlaceIs
<1>3. ASSUME NEW d \in (b + 1) .. Blocks
      PROVE  /\ c.stC[b] + Len(c.C[b]) <= c.stC[d] /\ c.stC[d] \in Nat
             /\ Start(c.C, d) = c.stC[d]
    <2>1. d \in 1 .. Blocks /\ c.stC[b] + Len(c.C[b]) <= c.stC[d]
        BY <1>1, LaterPlace
    <2>2. d \in 1 .. (Blocks + 1)
        BY <2>1, RegAllocAssumption
    <2> QED BY <2>1, <2>2, RunningIs
<1>0. j < Len(c.C[b])
    OBVIOUS
<1> HIDE DEF j
<1>4. \A d \in (b + 1) .. Blocks : /\ k.pc < c.stC[d] /\ c.stC[d] \in Nat
                                   /\ Start(c.C, d) = c.stC[d]
    <2> SUFFICES ASSUME NEW d \in (b + 1) .. Blocks
                 PROVE  k.pc < c.stC[d] /\ c.stC[d] \in Nat /\ Start(c.C, d) = c.stC[d]
        OBVIOUS
    <2>1. /\ c.stC[b] + Len(c.C[b]) <= c.stC[d] /\ c.stC[d] \in Nat
          /\ Start(c.C, d) = c.stC[d]
        BY <1>3
    <2>2. k.pc < c.stC[d]
        BY <1>0, <1>1, <1>2, <2>1, PlaceBefore, Zenon
    <2> QED BY <2>1, <2>2, Zenon
<1>5. /\ j + 1 \in 1 .. Len(c.C[b])
      /\ k.pc = c.stC[b] + (j + 1) - 1 /\ k.pc + 1 = c.stC[b] + (j + 1)
      /\ k.pc \in Nat /\ k.pc + 1 \in Nat /\ k.pc < k.pc + 1
    <2> DEFINE x == c.stC[b]
               y == Len(c.C[b])
               q == k.pc
    <2>1. y \in Nat /\ x \in Nat /\ j \in 0 .. y /\ j < y /\ q = x + j
        BY <1>0, <1>1, <1>2, Zenon
    <2> HIDE DEF x, y, q
    <2>2. /\ j + 1 \in 1 .. y /\ q = x + (j + 1) - 1 /\ q + 1 = x + (j + 1)
          /\ q \in Nat /\ q + 1 \in Nat /\ q < q + 1
        BY <2>1
    <2> QED BY <2>2 DEF x, y, q
<1> QED BY <1>4, <1>5 DEF j, AheadC

(* The run of c.R by an instruction, the one of c.C by the next of its. *)
NextCut(c, b, i) == c.cut[b][i] < Len(c.C[b]) /\ c.cut[b][i + 1] = c.cut[b][i] + 1

LEMMA GoesStep ==
    ASSUME NEW c, Running(c), NEW b, NEW i, NEW m, NEW k, At2(c, b, i, m, k), i < Len(c.R[b]),
           NEW inst, inst = c.R[b][i + 1], inst \in Instructions(CodeRegs(c.n)), ~IsTerminator(inst),
           i + 1 < Len(c.R[b]) \/ b = Blocks, NextCut(c, b, i),
           NEW i2, i2 = c.C[b][c.cut[b][i] + 1], i2.kind = inst.kind,
           NEW e, NEW f, e = Effect(inst, m, c.omit), f = Effect(i2, k, c.omit),
           Related(c.W[b][i + 1], c.h, c.K, c.S, c.X, e, f, c.n),
           OneOn(m, e), OneOn(k, f)
    PROVE  Goes(c, m)
<1>1. /\ b \in 1 .. Blocks /\ OnR(c, m) /\ OnC(c, k)
    BY Zenon DEF At2
<1>2. /\ m.pc = c.stR[b] + (i + 1) - 1 /\ m.pc + 1 = c.stR[b] + (i + 1)
      /\ i + 1 \in 1 .. Len(c.R[b]) /\ i + 1 \in 0 .. Len(c.R[b])
      /\ m.pc + 1 \in Nat /\ m.pc < m.pc + 1
    <2>1. AheadR(c, b, i, m)
        BY Ahead, Zenon
    <2> QED BY <2>1, Zenon DEF AheadR
<1>3. c.cut[b][i] < Len(c.C[b]) /\ c.cut[b][i + 1] = c.cut[b][i] + 1
    BY Zenon DEF NextCut
<1>4. /\ c.cut[b][i] + 1 \in 1 .. Len(c.C[b]) /\ k.pc = c.stC[b] + (c.cut[b][i] + 1) - 1
      /\ k.pc + 1 = c.stC[b] + (c.cut[b][i] + 1) /\ k.pc + 1 \in Nat /\ k.pc < k.pc + 1
    <2>1. c.cut[b][i] < Len(c.C[b])
        BY Zenon DEF NextCut
    <2>2. AheadC(c, b, i, k)
        BY <2>1, AheadInC, Zenon
    <2> QED BY <2>2, Zenon DEF AheadC
<1>5. /\ e = StepO(inst, m, c.R, c.oracle, FALSE, c.omit)
      /\ f = StepO(i2, k, c.C, c.oracle, FALSE, c.omit)
    <2>1. inst.kind \notin {"J", "Br", "CondBr", "SpAdjust"}
        BY Zenon DEF IsTerminator, Instructions
    <2> QED BY <2>1, Zenon DEF StepO
<1>6. e.pc = m.pc + 1 /\ f.pc = k.pc + 1
    BY Zenon DEF OneOn
<1>7. e.pc \in Nat /\ m.pc < e.pc /\ e.pc = c.stR[b] + (i + 1)
    BY <1>2, <1>6, Zenon
<1>8. OnR(c, e)
    BY <1>1, <1>2, <1>5, <1>7, StepR, Zenon
<1>9. f.pc \in Nat /\ k.pc < f.pc /\ f.pc = c.stC[b] + c.cut[b][i + 1]
    BY <1>3, <1>4, <1>6, Zenon
<1>10. OnC(c, f)
    BY <1>1, <1>4, <1>5, <1>9, StepC, Zenon
<1>11. At2(c, b, i + 1, e, f)
    BY <1>1, <1>2, <1>7, <1>8, <1>9, <1>10, Zenon DEF At2
<1> QED BY <1>7, <1>11, Zenon DEF Goes

LEMMA GoesJumpTo ==
    ASSUME NEW c, Running(c), NEW b, NEW i, NEW m, NEW k, At2(c, b, i, m, k), i < Len(c.R[b]),
           NEW inst, inst = c.R[b][i + 1], NEW i2, i2 = c.C[b][c.cut[b][i] + 1],
           NEW d \in (b + 1) .. Blocks, Len(c.R[d]) > 0,
           StepO(inst, m, c.R, c.oracle, FALSE, c.omit) = JumpedTo(m, Start(c.R, d)),
           StepO(i2, k, c.C, c.oracle, FALSE, c.omit) = JumpedTo(k, Start(c.C, d)),
           c.cut[b][i] < Len(c.C[b]),
           c.W[d][0] \subseteq c.W[b][i]
    PROVE  Goes(c, m)
<1> DEFINE e == JumpedTo(m, c.stR[d])
           f == JumpedTo(k, c.stC[d])
<1>1. /\ b \in 1 .. Blocks
      /\ Related(c.W[b][i], c.h, c.K, c.S, c.X, m, k, c.n)
      /\ OnR(c, m) /\ OnC(c, k)
    BY DEF At2
<1>2. /\ i + 1 \in 1 .. Len(c.R[b]) /\ m.pc = c.stR[b] + (i + 1) - 1
      /\ m.pc < c.stR[d] /\ c.stR[d] \in Nat /\ Start(c.R, d) = c.stR[d]
    BY Ahead DEF AheadR
<1>3. /\ c.cut[b][i] + 1 \in 1 .. Len(c.C[b]) /\ k.pc = c.stC[b] + (c.cut[b][i] + 1) - 1
      /\ k.pc < c.stC[d] /\ c.stC[d] \in Nat /\ Start(c.C, d) = c.stC[d]
    BY AheadInC DEF AheadC
<1>6. Mach(m, c.n) /\ Mach(k, c.n)
    BY <1>1 DEF Related
<1>7. Related(c.W[b][i], c.h, c.K, c.S, c.X, e, f, c.n) /\ e.pc = c.stR[d] /\ f.pc = c.stC[d]
    <2>1. PICK p \in Nat, q \in Nat : p = c.stR[d] /\ q = c.stC[d]
        BY <1>2, <1>3
    <2>2. Related(c.W[b][i], c.h, c.K, c.S, c.X, JumpedTo(m, p), JumpedTo(k, q), c.n)
        BY <1>1, RelatedJump
    <2>3. JumpedTo(m, p).pc = p /\ JumpedTo(k, q).pc = q
        <3>1. IsJumped(JumpedTo(m, p), m, p, c.n) /\ IsJumped(JumpedTo(k, q), k, q, c.n)
            BY <1>6, IsJumpedTo
        <3> QED BY <3>1 DEF IsJumped
    <2> QED BY <2>1, <2>2, <2>3
<1>8. /\ e = StepO(inst, m, c.R, c.oracle, FALSE, c.omit)
      /\ f = StepO(i2, k, c.C, c.oracle, FALSE, c.omit)
    BY <1>2, <1>3
<1> HIDE DEF e, f
<1>9. OnR(c, e)
    <2>1. e.pc \in Nat /\ m.pc < e.pc
        BY <1>2, <1>7
    <2> QED BY <1>1, <1>2, <1>8, <2>1, StepR
<1>10. OnC(c, f)
    <2>1. f.pc \in Nat /\ k.pc < f.pc
        BY <1>3, <1>7
    <2> QED BY <1>1, <1>3, <1>8, <2>1, StepC, Zenon
<1> QED BY <1>7, <1>9, <1>10, GoesTo

LEMMA GoesJump ==
    ASSUME NEW c, Running(c), NEW b, NEW i, NEW m, NEW k, At2(c, b, i, m, k), i < Len(c.R[b]),
           NEW inst, inst = c.R[b][i + 1], inst.kind = "J",
           NEW i2, i2 = c.C[b][c.cut[b][i] + 1], i2.kind = "J",
           NEW d \in (b + 1) .. Blocks, inst.block = d, i2.block = d, Len(c.R[d]) > 0,
           c.cut[b][i] < Len(c.C[b]),
           c.W[d][0] \subseteq c.W[b][i]
    PROVE  Goes(c, m)
<1>1. /\ StepO(inst, m, c.R, c.oracle, FALSE, c.omit) = JumpedTo(m, Start(c.R, d))
      /\ StepO(i2, k, c.C, c.oracle, FALSE, c.omit) = JumpedTo(k, Start(c.C, d))
    BY DEF StepO, JumpedTo
<1> QED BY <1>1, GoesJumpTo

(* Both runs one further, or both at the start of a later block. *)
LEMMA GoesEither ==
    ASSUME NEW c, Running(c), NEW b, NEW i, NEW m, NEW k, At2(c, b, i, m, k),
           i < Len(c.R[b]), i + 1 < Len(c.R[b]) \/ b = Blocks,
           NEW d \in (b + 1) .. Blocks, Len(c.R[d]) > 0, NEW taken \in BOOLEAN,
           NEW e, NEW f, OnR(c, e), OnC(c, f), NEW W, Related(W, c.h, c.K, c.S, c.X, e, f, c.n),
           e.pc = IF taken THEN c.stR[d] ELSE m.pc + 1,
           f.pc = IF taken THEN c.stC[d] ELSE c.stC[b] + c.cut[b][i + 1],
           c.W[d][0] \subseteq W, c.W[b][i + 1] \subseteq W
    PROVE  Goes(c, m)
<1>1. CASE taken
    BY <1>1, GoesTo
<1>2. CASE ~taken
    <2>1. /\ i + 1 \in 0 .. Len(c.R[b]) /\ m.pc + 1 = c.stR[b] + (i + 1)
          /\ m.pc < m.pc + 1
        BY Ahead DEF AheadR
    <2>2. b \in 1 .. Blocks
        BY DEF At2
    <2>3. Related(c.W[b][i + 1], c.h, c.K, c.S, c.X, e, f, c.n)
        BY RelatedLess
    <2>4. At2(c, b, i + 1, e, f)
        BY <1>2, <2>1, <2>2, <2>3 DEF At2
    <2> QED BY <1>2, <2>1, <2>4 DEF Goes
<1> QED BY <1>1, <1>2

LEMMA BranchTogether ==
    ASSUME NEW n, NEW m, NEW k, NEW h, NEW K, NEW S, NEW X,
           NEW W, Related(W, h, K, S, X, m, k, n),
           NEW oracle, NEW v, NEW p \in Nat, NEW q \in Nat
    PROVE  \E taken \in BOOLEAN :
              /\ Related(W, h, K, S, X, Branch(m, v, oracle, p), Branch(k, v, oracle, q), n)
              /\ Branch(m, v, oracle, p).pc = (IF taken THEN p ELSE m.pc + 1)
              /\ Branch(k, v, oracle, q).pc = (IF taken THEN q ELSE k.pc + 1)
<1> DEFINE e == Branch(m, v, oracle, p)
           f == Branch(k, v, oracle, q)
<1>1. /\ Related(W, h, K, S, X, e, f, n)
      /\ e.pc = (IF Taken(m, v, oracle) THEN p ELSE m.pc + 1)
      /\ f.pc = (IF Taken(m, v, oracle) THEN q ELSE k.pc + 1)
    BY RelatedBranch
<1> HIDE DEF e, f
<1>2. CASE Taken(m, v, oracle)
    <2>1. e.pc = p /\ f.pc = q
        BY <1>1, <1>2
    <2> QED BY <1>1, <2>1 DEF e, f
<1>3. CASE ~Taken(m, v, oracle)
    <2>1. e.pc = m.pc + 1 /\ f.pc = k.pc + 1
        BY <1>1, <1>3
    <2> QED BY <1>1, <2>1 DEF e, f
<1> QED BY <1>2, <1>3

LEMMA GoesBranch ==
    ASSUME NEW c, Running(c), NEW b, NEW i, NEW m, NEW k, At2(c, b, i, m, k),
           i < Len(c.R[b]), i + 1 < Len(c.R[b]) \/ b = Blocks, c.cut[b][i] < Len(c.C[b]),
           NEW inst, inst = c.R[b][i + 1], NEW i2, i2 = c.C[b][c.cut[b][i] + 1],
           NEW d \in (b + 1) .. Blocks, Len(c.R[d]) > 0, NEW v,
           StepO(inst, m, c.R, c.oracle, FALSE, c.omit) = Branch(m, v, c.oracle, Start(c.R, d)),
           StepO(i2, k, c.C, c.oracle, FALSE, c.omit) = Branch(k, v, c.oracle, Start(c.C, d)),
           c.cut[b][i + 1] = c.cut[b][i] + 1,
           c.W[d][0] \subseteq c.W[b][i], c.W[b][i + 1] \subseteq c.W[b][i]
    PROVE  Goes(c, m)
<1> DEFINE e == Branch(m, v, c.oracle, c.stR[d])
           f == Branch(k, v, c.oracle, c.stC[d])
<1>1. /\ b \in 1 .. Blocks
      /\ Related(c.W[b][i], c.h, c.K, c.S, c.X, m, k, c.n)
      /\ OnR(c, m) /\ OnC(c, k)
    BY DEF At2
<1>2. /\ i + 1 \in 1 .. Len(c.R[b]) /\ m.pc = c.stR[b] + (i + 1) - 1
      /\ m.pc \in Nat /\ m.pc + 1 \in Nat /\ m.pc < m.pc + 1
      /\ m.pc < c.stR[d] /\ c.stR[d] \in Nat /\ Start(c.R, d) = c.stR[d]
    BY Ahead DEF AheadR
<1>3. /\ c.cut[b][i] + 1 \in 1 .. Len(c.C[b]) /\ k.pc = c.stC[b] + (c.cut[b][i] + 1) - 1
      /\ k.pc + 1 = c.stC[b] + (c.cut[b][i] + 1)
      /\ k.pc \in Nat /\ k.pc + 1 \in Nat /\ k.pc < k.pc + 1
      /\ k.pc < c.stC[d] /\ c.stC[d] \in Nat /\ Start(c.C, d) = c.stC[d]
    BY AheadInC DEF AheadC
<1>4. PICK taken \in BOOLEAN :
         /\ Related(c.W[b][i], c.h, c.K, c.S, c.X, e, f, c.n)
         /\ e.pc = (IF taken THEN c.stR[d] ELSE m.pc + 1)
         /\ f.pc = (IF taken THEN c.stC[d] ELSE k.pc + 1)
    <2>1. PICK p \in Nat, q \in Nat : p = c.stR[d] /\ q = c.stC[d]
        BY <1>2, <1>3
    <2>2. Related(c.W[b][i], c.h, c.K, c.S, c.X, m, k, c.n)
        BY <1>1
    <2>3. \E taken \in BOOLEAN :
             /\ Related(c.W[b][i], c.h, c.K, c.S, c.X,
                        Branch(m, v, c.oracle, p), Branch(k, v, c.oracle, q), c.n)
             /\ Branch(m, v, c.oracle, p).pc = (IF taken THEN p ELSE m.pc + 1)
             /\ Branch(k, v, c.oracle, q).pc = (IF taken THEN q ELSE k.pc + 1)
        BY <2>2, BranchTogether
    <2> QED BY <2>1, <2>3
<1>5. /\ e = StepO(inst, m, c.R, c.oracle, FALSE, c.omit)
      /\ f = StepO(i2, k, c.C, c.oracle, FALSE, c.omit)
    BY <1>2, <1>3
<1> HIDE DEF e, f
<1>6. e.pc \in Nat /\ m.pc < e.pc
    BY <1>2, <1>4
<1>7. f.pc \in Nat /\ k.pc < f.pc
    BY <1>3, <1>4
<1>8. OnR(c, e)
    BY <1>1, <1>2, <1>5, <1>6, StepR, Zenon
<1>9. OnC(c, f)
    BY <1>1, <1>3, <1>5, <1>7, StepC, Zenon
<1>10. e.pc = (IF taken THEN c.stR[d] ELSE m.pc + 1)
       /\ f.pc = (IF taken THEN c.stC[d] ELSE c.stC[b] + c.cut[b][i + 1])
    BY <1>3, <1>4
<1> QED BY <1>4, <1>8, <1>9, <1>10, GoesEither

-----------------------------------------------------------------------------
(* Allocated code does the same. *)

AllocatedCode(f) == [b \in 1 .. Blocks |-> [i \in DOMAIN code[b] |-> Renamed(code[b][i], f)]]

Allocating(c, f) ==
    /\ Running(c) /\ c.R = code /\ c.C = AllocatedCode(f)
    /\ c.n = vreg_counter /\ c.omit = omit_frame_pointer
    /\ c.h = Placed(f, vreg_counter) /\ c.S = {} /\ c.X = {} /\ DOMAIN c.K = {}
    /\ \A b \in 1 .. Blocks : \A i \in 0 .. Len(code[b]) :
          c.cut[b][i] = i /\ c.W[b][i] = NeededAt(c.stR, b, i, vreg_counter)

AllocOk(f) ==
    /\ vreg_counter \in Nat /\ CodeOk(code, vreg_counter, omit_frame_pointer)
    /\ f \in Allocations

(* What is needed before an instruction that does not jump. *)
NeededStep(st, b, i, f) ==
    LET inst == code[b][i + 1]
    IN /\ Uses(inst, omit_frame_pointer) \subseteq NeededAt(st, b, i, vreg_counter)
       /\ NeededAt(st, b, i + 1, vreg_counter) \ Defs(inst) \subseteq NeededAt(st, b, i, vreg_counter)
       /\ \A q \in NeededAt(st, b, i + 1, vreg_counter) \ Defs(inst) :
             Placed(f, vreg_counter)[q] \notin Clobbers(Renamed(inst, f))

LEMMA PlaceAgain ==
    ASSUME NEW S, Code(code, S), NEW st, Layout(code, Blocks, st), NEW b \in 1 .. Blocks,
           NEW i \in 0 .. Len(code[b]), i < Len(code[b])
    PROVE  /\ i + 1 \in 1 .. Len(code[b]) /\ i + 1 \in 0 .. Len(code[b])
           /\ st[b] + (i + 1) - 1 = st[b] + i /\ st[b] + (i + 1) = (st[b] + i) + 1
           /\ st[b] + (i + 1) - 1 + 1 = st[b] + (i + 1)
           /\ i # Len(code[b])
<1>1. st[b] \in Nat
    <2>1. b \in 1 .. (Blocks + 1)
        BY RegAllocAssumption
    <2> QED BY <2>1, CodeStarts
<1>2. Len(code[b]) \in Nat
    BY CodeStarts
<1> QED BY <1>1, <1>2

LEMMA InstIn ==
    ASSUME NEW S, NEW bl, Code(bl, S), NEW b \in 1 .. Blocks, NEW i \in 1 .. Len(bl[b])
    PROVE  bl[b][i] \in S
BY DEF Code

LEMMA UsesIn ==
    ASSUME NEW n, NEW inst \in Instructions(CodeRegs(n)), NEW omit
    PROVE  Uses(inst, omit) \subseteq CodeRegs(n) /\ Defs(inst) \subseteq CodeRegs(n)
<1>1. {zero, sp, fp, a0} \subseteq CodeRegs(n)
    BY CodeRegsIn
<1>2. ASSUME NEW loc \in Locations(CodeRegs(n)) PROVE LocUses(loc, omit) \subseteq CodeRegs(n)
    BY <1>1 DEF Locations, LocUses, OnStack
<1>3. CASE inst.kind \in {"Load", "LoadAddr", "Store"}
    BY <1>2, <1>3 DEF Instructions, Uses, Defs, Defining
<1>4. CASE inst.kind \notin {"Load", "LoadAddr", "Store"}
    BY <1>1, <1>4 DEF Instructions, Uses, Defs, Defining, RETURN_REGS
<1> QED BY <1>3, <1>4

LEMMA AllocFacts ==
    ASSUME NEW f, AllocOk(f)
    PROVE  /\ Code(code, Instructions(CodeRegs(vreg_counter))) /\ ArgsFixed(code)
           /\ Shaped(code) /\ Ends(code) /\ vreg_counter \in Nat /\ f \in Allocations
           /\ Renaming(Placed(f, vreg_counter), vreg_counter)
           /\ \A r \in DOMAIN f : IsVReg(r) /\ f[r] \in PRegs
BY AllocationIs, PlacedRenaming DEF AllocOk, CodeOk

FollowsTo(st, b, i) ==
    Following(st[b] + i - 1) = (IF IsTerminator(code[b][i]) THEN {st[code[b][i].block]} ELSE {})
                                 \cup (IF code[b][i].kind = "J" THEN {} ELSE {st[b] + i - 1 + 1})

LEMMA FollowingOf ==
    ASSUME NEW S, Code(code, S), NEW st, Layout(code, Blocks, st), Shaped(code),
           NEW b \in 1 .. Blocks, NEW i \in 1 .. Len(code[b])
    PROVE  FollowsTo(st, b, i)
<1>1. LET p == st[b] + i - 1
      IN /\ p \in 1 .. Len(Flat) /\ Flat[p] = code[b][i]
         /\ Following(p) = (IF IsTerminator(code[b][i]) THEN {st[code[b][i].block]} ELSE {})
                             \cup (IF code[b][i].kind = "J" THEN {} ELSE {p + 1})
         /\ Following(p) \subseteq (p + 1) .. (Len(Flat) + 1)
    BY FollowingIs
<1>2. Following(st[b] + i - 1) = (IF IsTerminator(code[b][i]) THEN {st[code[b][i].block]} ELSE {})
                                   \cup (IF code[b][i].kind = "J" THEN {} ELSE {st[b] + i - 1 + 1})
    BY <1>1, Zenon
<1> QED BY <1>2, Zenon DEF FollowsTo

LEMMA NeededByStep ==
    ASSUME NEW f, AllocOk(f), NEW st, Layout(code, Blocks, st), NEW b \in 1 .. Blocks,
           NEW i \in 0 .. Len(code[b]), i < Len(code[b]), ~IsTerminator(code[b][i + 1])
    PROVE  NeededStep(st, b, i, f)
<1> DEFINE inst == code[b][i + 1]
           n == vreg_counter
           R == CodeRegs(n)
<1>1. /\ Code(code, Instructions(R)) /\ Shaped(code) /\ Ends(code) /\ n \in Nat
      /\ f \in Allocations /\ Renaming(Placed(f, n), n)
      /\ \A r \in DOMAIN f : IsVReg(r) /\ f[r] \in PRegs
    BY AllocFacts
<1>2. PICK j \in 1 .. Len(code[b]) :
         /\ j = i + 1 /\ st[b] + j - 1 = st[b] + i /\ st[b] + j - 1 + 1 = st[b] + (i + 1)
         /\ i # Len(code[b])
    BY <1>1, PlaceAgain
<1>3. inst = code[b][j] /\ inst \in Instructions(R) /\ ~IsTerminator(code[b][j])
    BY <1>1, <1>2, InstIn
<1>4. Following(st[b] + j - 1) = {st[b] + j - 1 + 1}
    <2>1. FollowsTo(st, b, j)
        BY <1>1, FollowingOf
    <2>2. ~IsTerminator(code[b][j]) /\ code[b][j].kind # "J"
        BY <1>3 DEF IsTerminator
    <2> QED BY <2>1, <2>2 DEF FollowsTo
<1>5. /\ Uses(code[b][j], omit_frame_pointer) \subseteq Live[st[b] + j - 1]
      /\ \A q \in Following(st[b] + j - 1) : Live[q] \ Defs(code[b][j]) \subseteq Live[st[b] + j - 1]
    BY <1>1, LiveStep
<1>6. /\ Uses(inst, omit_frame_pointer) \subseteq Live[st[b] + i]
      /\ Live[st[b] + (i + 1)] \ Defs(inst) \subseteq Live[st[b] + i]
    BY <1>2, <1>3, <1>4, <1>5
<1>7. InstTo(inst, Renamed(inst, f), Placed(f, n))
    BY <1>1, <1>3, RenamedTo
<1>8. ASSUME NEW q \in R, q \notin Defs(inst), q = sp \/ q \in Live[st[b] + (i + 1)]
      PROVE  Placed(f, n)[q] \notin Clobbers(Renamed(inst, f))
    <2>1. q = sp \/ \E p \in Following(st[b] + j - 1) : q \in Live[p]
        BY <1>2, <1>4, <1>8
    <2>2. InstTo(code[b][j], Renamed(inst, f), Placed(f, n))
        BY <1>3, <1>7
    <2>3. q \notin Defs(code[b][j])
        BY <1>3, <1>8
    <2> HIDE DEF inst
    <2> QED BY <1>1, <1>3, <2>1, <2>2, <2>3, Apart
<1>9. b = Blocks /\ i + 1 = Len(code[b]) => a0 \in Defs(inst)
    BY <1>1 DEF Ends, Defs, Defining
<1>10. Uses(inst, omit_frame_pointer) \subseteq R /\ sp \in R
    BY <1>3, UsesIn, CodeRegsIn
<1> HIDE DEF inst, R
<1>11. Uses(inst, omit_frame_pointer) \subseteq NeededAt(st, b, i, n)
    BY <1>6, <1>10 DEF NeededAt, R
<1>12. ASSUME NEW q \in NeededAt(st, b, i + 1, n) \ Defs(inst)
       PROVE  q \in R /\ (q = sp \/ q \in Live[st[b] + (i + 1)])
    BY <1>9, <1>10, <1>12 DEF NeededAt, R
<1>13. ASSUME NEW q \in NeededAt(st, b, i + 1, n) \ Defs(inst)
       PROVE  q \in NeededAt(st, b, i, n)
    BY <1>6, <1>12, <1>13 DEF NeededAt, R
<1>14. ASSUME NEW q \in NeededAt(st, b, i + 1, n) \ Defs(inst)
       PROVE  Placed(f, n)[q] \notin Clobbers(Renamed(inst, f))
    BY <1>8, <1>12, <1>14
<1> QED BY <1>11, <1>13, <1>14 DEF NeededStep, inst

(* What is needed before a jump or a branch. *)
NeededJump(st, b, i) ==
    LET inst == code[b][i + 1]
        n == vreg_counter
    IN /\ Uses(inst, omit_frame_pointer) \subseteq NeededAt(st, b, i, n)
       /\ inst.block \in (b + 1) .. Blocks /\ Len(code[inst.block]) > 0
       /\ NeededAt(st, inst.block, 0, n) \subseteq NeededAt(st, b, i, n)
       /\ inst.kind # "J" => NeededAt(st, b, i + 1, n) \subseteq NeededAt(st, b, i, n)

LEMMA NeededByJump ==
    ASSUME NEW f, AllocOk(f), NEW st, Layout(code, Blocks, st), NEW b \in 1 .. Blocks,
           NEW i \in 0 .. Len(code[b]), i < Len(code[b]), IsTerminator(code[b][i + 1])
    PROVE  NeededJump(st, b, i)
<1> DEFINE inst == code[b][i + 1]
           n == vreg_counter
           R == CodeRegs(n)
<1>1. /\ Code(code, Instructions(R)) /\ Shaped(code) /\ Ends(code) /\ n \in Nat
    BY AllocFacts
<1>2. PICK j \in 1 .. Len(code[b]) :
         /\ j = i + 1 /\ st[b] + j - 1 = st[b] + i /\ st[b] + j - 1 + 1 = st[b] + (i + 1)
         /\ i # Len(code[b])
    BY <1>1, PlaceAgain
<1>3. inst = code[b][j] /\ inst \in Instructions(R) /\ IsTerminator(code[b][j])
    BY <1>1, <1>2, InstIn
<1>d. PICK d \in (b + 1) .. Blocks : d = inst.block
    BY <1>1, <1>3 DEF Shaped
<1>e. d \in 1 .. Blocks /\ Len(code[d]) > 0 /\ Len(code[d]) \in Nat /\ st[d] + 0 = st[d]
    <2>1. d \in 1 .. Blocks /\ d \in 1 .. (Blocks + 1)
        BY RegAllocAssumption
    <2>2. st[d] \in Nat /\ Len(code[d]) \in Nat
        BY <1>1, <2>1, CodeStarts
    <2>3. Len(code[d]) > 0
        BY <1>1, <2>1 DEF Shaped
    <2> QED BY <2>1, <2>2, <2>3
<1>4. Following(st[b] + j - 1)
         = {st[d]} \cup (IF inst.kind = "J" THEN {} ELSE {st[b] + j - 1 + 1})
    <2>1. FollowsTo(st, b, j)
        BY <1>1, FollowingOf
    <2>2. IsTerminator(code[b][j]) /\ code[b][j].kind = inst.kind /\ code[b][j].block = d
        BY <1>3, <1>d
    <2> QED BY <2>1, <2>2 DEF FollowsTo
<1>5. /\ Uses(code[b][j], omit_frame_pointer) \subseteq Live[st[b] + j - 1]
      /\ \A q \in Following(st[b] + j - 1) : Live[q] \ Defs(code[b][j]) \subseteq Live[st[b] + j - 1]
    BY <1>1, LiveStep
<1>6. Defs(code[b][j]) = {}
    BY <1>3 DEF IsTerminator, Defs, Defining
<1>7. /\ Uses(inst, omit_frame_pointer) \subseteq Live[st[b] + i]
      /\ Live[st[d]] \subseteq Live[st[b] + i]
      /\ inst.kind # "J" => Live[st[b] + (i + 1)] \subseteq Live[st[b] + i]
    BY <1>2, <1>3, <1>4, <1>5, <1>6
<1>8. b = Blocks => i + 1 # Len(code[b])
    BY <1>1, <1>3 DEF Ends, IsTerminator
<1>10. Uses(inst, omit_frame_pointer) \subseteq R /\ sp \in R
    BY <1>3, UsesIn, CodeRegsIn
<1> HIDE DEF inst, R
<1>11. Uses(inst, omit_frame_pointer) \subseteq NeededAt(st, b, i, n)
    BY <1>7, <1>10 DEF NeededAt, R
<1>12. NeededAt(st, d, 0, n) \subseteq NeededAt(st, b, i, n)
    BY <1>7, <1>e DEF NeededAt
<1>13. inst.kind # "J" => NeededAt(st, b, i + 1, n) \subseteq NeededAt(st, b, i, n)
    BY <1>7, <1>8 DEF NeededAt
<1> QED BY <1>11, <1>12, <1>13, <1>d, <1>e DEF NeededJump, inst

LEMMA NeededIn ==
    ASSUME NEW st, NEW b, NEW i, NEW n
    PROVE  NeededAt(st, b, i, n) \in SUBSET CodeRegs(n)
BY CodeRegsIn DEF NeededAt

AllocAt(c, f, b, i, m, k) ==
    /\ b \in 1 .. Blocks /\ i \in 0 .. Len(code[b])
    /\ i < Len(code[b]) => i + 1 \in 0 .. Len(code[b]) /\ i + 1 \in 1 .. Len(code[b])
    /\ c.cut[b][i] = i /\ c.W[b][i] = NeededAt(c.stR, b, i, vreg_counter)
    /\ i < Len(code[b]) => /\ c.C[b][i + 1] = Renamed(code[b][i + 1], f)
                           /\ i < Len(c.C[b]) /\ NextCut(c, b, i)
                           /\ c.W[b][i + 1] = NeededAt(c.stR, b, i + 1, vreg_counter)
                           /\ code[b][i + 1] \in Instructions(CodeRegs(vreg_counter))
                           /\ (i + 1 < Len(code[b]) \/ b = Blocks \/ code[b][i + 1].kind = "J")
    /\ Layout(code, Blocks, c.stR)
    /\ \A d \in 1 .. Blocks : c.W[d][0] = NeededAt(c.stR, d, 0, vreg_counter)
    /\ Related(NeededAt(c.stR, b, i, vreg_counter), Placed(f, vreg_counter), c.K, {}, {},
               m, k, vreg_counter)

LEMMA AllocPlace ==
    ASSUME NEW f, AllocOk(f), NEW c, Allocating(c, f), NEW b, NEW i, NEW m, NEW k,
           At2(c, b, i, m, k)
    PROVE  AllocAt(c, f, b, i, m, k)
<1>1. /\ Code(code, Instructions(CodeRegs(vreg_counter))) /\ Shaped(code)
    BY AllocFacts
<1>2. /\ b \in 1 .. Blocks /\ i \in 0 .. Len(code[b])
      /\ Related(c.W[b][i], Placed(f, vreg_counter), c.K, {}, {}, m, k, vreg_counter)
    BY DEF At2, Allocating
<1>3. Len(code[b]) \in Nat /\ \A d \in 1 .. Blocks : Len(code[d]) \in Nat
    BY <1>1, <1>2 DEF Code
<1>4. i < Len(code[b]) => i + 1 \in 0 .. Len(code[b]) /\ i + 1 \in 1 .. Len(code[b])
    BY <1>2, <1>3
<1>5. c.cut[b][i] = i /\ c.W[b][i] = NeededAt(c.stR, b, i, vreg_counter)
    BY <1>2 DEF Allocating
<1>6. ASSUME i < Len(code[b])
      PROVE  c.cut[b][i + 1] = i + 1 /\ c.W[b][i + 1] = NeededAt(c.stR, b, i + 1, vreg_counter)
    BY <1>2, <1>4, <1>6 DEF Allocating
<1>7. \A d \in 1 .. Blocks : c.W[d][0] = NeededAt(c.stR, d, 0, vreg_counter)
    <2>1. \A d \in 1 .. Blocks : 0 \in 0 .. Len(code[d])
        BY <1>3
    <2> QED BY <2>1 DEF Allocating
<1>8. DOMAIN code[b] = 1 .. Len(code[b]) /\ c.C[b] = [j \in 1 .. Len(code[b]) |-> Renamed(code[b][j], f)]
    <2>1. DOMAIN code[b] = 1 .. Len(code[b])
        BY <1>1, <1>2 DEF Code
    <2> QED BY <1>2, <2>1 DEF Allocating, AllocatedCode
<1>9. Len(c.C[b]) = Len(code[b])
    <2>1. DOMAIN c.C[b] = 1 .. Len(code[b]) /\ Len(code[b]) \in Nat
        BY <1>3, <1>8
    <2>2. c.C[b] \in Seq({Renamed(code[b][j], f) : j \in 1 .. Len(code[b])})
        BY <1>3, <1>8
    <2>3. Len(c.C[b]) \in Nat /\ DOMAIN c.C[b] = 1 .. Len(c.C[b])
        BY <2>2
    <2> HIDE <1>8
    <2> QED BY <2>1, <2>3
<1>10. ASSUME i < Len(code[b])
       PROVE  /\ c.C[b][i + 1] = Renamed(code[b][i + 1], f)
              /\ i < Len(c.C[b]) /\ NextCut(c, b, i)
              /\ code[b][i + 1] \in Instructions(CodeRegs(vreg_counter))
              /\ (i + 1 < Len(code[b]) \/ b = Blocks \/ code[b][i + 1].kind = "J")
    <2>1. i + 1 \in 1 .. Len(code[b])
        BY <1>4, <1>10
    <2>2. c.C[b][i + 1] = Renamed(code[b][i + 1], f)
        BY <1>8, <2>1
    <2>3. code[b][i + 1] \in Instructions(CodeRegs(vreg_counter))
        BY <1>1, <1>2, <2>1, InstIn
    <2>4. NextCut(c, b, i)
        BY <1>5, <1>6, <1>9, <1>10 DEF NextCut
    <2>5. i + 1 < Len(code[b]) \/ b = Blocks \/ code[b][i + 1].kind = "J"
        <3>1. i + 1 < Len(code[b]) \/ i + 1 = Len(code[b])
            BY <1>2, <1>3, <1>10
        <3>2. b # Blocks => b < Blocks
            BY <1>2, RegAllocAssumption
        <3> QED BY <1>1, <1>2, <3>1, <3>2 DEF Shaped
    <2> QED BY <1>9, <1>10, <2>2, <2>3, <2>4, <2>5
<1>11. Layout(code, Blocks, c.stR)
    BY DEF Allocating, Running
<1> QED BY <1>2, <1>4, <1>5, <1>6, <1>7, <1>10, <1>11 DEF AllocAt

LEMMA AllocGoes ==
    ASSUME NEW f, AllocOk(f), NEW c, Allocating(c, f), NEW b, NEW i, NEW m, NEW k,
           At2(c, b, i, m, k), i < Len(code[b])
    PROVE  Goes(c, m)
<1> DEFINE n == vreg_counter
           h == Placed(f, n)
           inst == code[b][i + 1]
           i2 == Renamed(inst, f)
           W == NeededAt(c.stR, b, i, n)
           W2 == NeededAt(c.stR, b, i + 1, n)
<1>1. AllocAt(c, f, b, i, m, k)
    BY AllocPlace
<1>2. /\ Code(code, Instructions(CodeRegs(n))) /\ ArgsFixed(code) /\ n \in Nat
      /\ Renaming(h, n) /\ \A r \in DOMAIN f : IsVReg(r) /\ f[r] \in PRegs
    BY AllocFacts
<1>3. /\ Running(c) /\ c.R = code /\ c.n = n /\ c.omit = omit_frame_pointer /\ c.h = h
      /\ c.S = {} /\ c.X = {} /\ DOMAIN c.K = {}
    BY DEF Allocating
<1>4. /\ b \in 1 .. Blocks /\ i \in 0 .. Len(code[b]) /\ i + 1 \in 1 .. Len(code[b])
      /\ c.cut[b][i] = i /\ c.W[b][i] = W /\ c.W[b][i + 1] = W2
      /\ c.C[b][c.cut[b][i] + 1] = i2 /\ c.cut[b][i] < Len(c.C[b]) /\ NextCut(c, b, i)
      /\ inst \in Instructions(CodeRegs(n)) /\ inst = c.R[b][i + 1]
      /\ (i + 1 < Len(code[b]) \/ b = Blocks \/ inst.kind = "J")
      /\ Layout(code, Blocks, c.stR)
      /\ Related(W, h, c.K, {}, {}, m, k, n)
    BY <1>1, <1>3 DEF AllocAt
<1>5. InstTo(inst, i2, h)
    BY <1>2, <1>4, RenamedTo
<1>6. W \in SUBSET CodeRegs(n) /\ W2 \in SUBSET CodeRegs(n)
    BY NeededIn, Zenon
<1>7. ASSUME ~IsTerminator(inst) PROVE Goes(c, m)
    <2>1. NeededStep(c.stR, b, i, f)
        BY <1>4, <1>7, NeededByStep
    <2>2. /\ Uses(inst, omit_frame_pointer) \subseteq W
          /\ W2 \ Defs(inst) \subseteq W
          /\ \A q \in W2 \ Defs(inst) : h[q] \notin Clobbers(i2)
        BY <2>1 DEF NeededStep
    <2>3. inst.kind = "Call" => inst.arg_regs \subseteq {a0}
        BY <1>2, <1>4 DEF ArgsFixed
    <2> DEFINE e == Effect(inst, m, omit_frame_pointer)
               g == Effect(i2, k, omit_frame_pointer)
    <2> HIDE DEF inst, i2, h, W, W2, n
    <2>4. /\ Related(W2, h, c.K, {}, {}, e, g, n) /\ e.pc = m.pc + 1 /\ g.pc = k.pc + 1
        <3>1. \A q \in W2 \cap Defs(inst) \cap DOMAIN c.K :
                 Effect(inst, m, omit_frame_pointer).regs[q] = c.K[q]
            BY <1>3
        <3>2. StepFits(n, m, k, h, c.K, {}, {}, W, omit_frame_pointer, inst, i2, W2)
            BY <1>2, <1>4, <1>5, <1>6, <1>7, <2>2, <2>3, <3>1 DEF StepFits
        <3>3. StepDone(n, m, k, h, c.K, {}, {}, W, omit_frame_pointer, inst, i2, W2)
            BY <3>2, RelatedStep
        <3> QED BY <3>3 DEF StepDone, OneOn
    <2> HIDE DEF e, g
    <2>5. /\ i < Len(c.R[b]) /\ ~IsTerminator(inst) /\ inst \in Instructions(CodeRegs(c.n))
          /\ (i + 1 < Len(c.R[b]) \/ b = Blocks)
        BY <1>3, <1>4, <1>7 DEF IsTerminator
    <2>6. OneOn(m, e) /\ OneOn(k, g) /\ i2.kind = inst.kind
        BY <1>5, <2>4 DEF OneOn, InstTo
    <2>7. e = Effect(inst, m, c.omit) /\ g = Effect(i2, k, c.omit)
        BY <1>3 DEF e, g
    <2>8. Related(c.W[b][i + 1], c.h, c.K, c.S, c.X, e, g, c.n)
        BY <1>3, <1>4, <2>4
    <2>9. inst = c.R[b][i + 1] /\ i2 = c.C[b][c.cut[b][i] + 1] /\ NextCut(c, b, i) /\ Running(c)
        BY <1>3, <1>4
    <2> QED BY <2>5, <2>6, <2>7, <2>8, <2>9, GoesStep, Zenon
<1>8. ASSUME IsTerminator(inst) PROVE Goes(c, m)
    <2>1. NeededJump(c.stR, b, i)
        BY <1>4, <1>8, NeededByJump
    <2>2. PICK d \in (b + 1) .. Blocks :
             /\ d = inst.block /\ Len(code[d]) > 0
             /\ NeededAt(c.stR, d, 0, n) \subseteq W
             /\ inst.kind # "J" => W2 \subseteq W
             /\ Uses(inst, omit_frame_pointer) \subseteq W
        BY <2>1 DEF NeededJump
    <2>3. c.W[d][0] \subseteq c.W[b][i] /\ Len(c.R[d]) > 0
        <3>1. d \in 1 .. Blocks
            BY <1>4
        <3> QED BY <1>1, <1>3, <1>4, <2>2, <3>1 DEF AllocAt
    <2> HIDE DEF inst, i2, h, W, W2, n
    <2>4. i2.kind = inst.kind /\ i2.block = d /\ inst.block = d
        BY <1>5, <1>8, <2>2 DEF InstTo, IsTerminator
    <2>5. inst = c.R[b][i + 1] /\ i2 = c.C[b][c.cut[b][i] + 1] /\ Running(c)
          /\ c.cut[b][i] < Len(c.C[b]) /\ i < Len(c.R[b])
        BY <1>3, <1>4
    <2>6. CASE inst.kind = "J"
        BY <2>3, <2>4, <2>5, <2>6, GoesJump
    <2>7. CASE inst.kind # "J"
        <3>1. inst.kind = "Br"
            BY <1>8, <2>7 DEF IsTerminator
        <3>2. /\ i2.rs1 = h[inst.rs1] /\ i2.rs2 = h[inst.rs2] /\ inst.rs1 \in W /\ inst.rs2 \in W
            BY <1>5, <2>2, <3>1 DEF InstTo, Uses
        <3>3. k.regs[i2.rs1] = m.regs[inst.rs1] /\ k.regs[i2.rs2] = m.regs[inst.rs2]
            BY <1>4, <3>2 DEF Related
        <3> DEFINE v == Difference(m.regs[inst.rs1], m.regs[inst.rs2])
        <3>4. StepO(inst, m, c.R, c.oracle, FALSE, c.omit) = Branch(m, v, c.oracle, Start(c.R, d))
            BY <2>4, <3>1 DEF StepO
        <3>5. StepO(i2, k, c.C, c.oracle, FALSE, c.omit) = Branch(k, v, c.oracle, Start(c.C, d))
            BY <2>4, <3>1, <3>3 DEF StepO
        <3> HIDE DEF v
        <3>6. c.W[b][i + 1] \subseteq c.W[b][i] /\ c.cut[b][i + 1] = c.cut[b][i] + 1
              /\ (i + 1 < Len(c.R[b]) \/ b = Blocks)
            BY <1>3, <1>4, <2>2, <2>7 DEF NextCut
        <3> QED BY <2>3, <2>5, <3>4, <3>5, <3>6, GoesBranch
    <2> QED BY <2>6, <2>7
<1> QED BY <1>7, <1>8

ContextOf(c, R, C, stR, stC, cut, W, h, K, S, X, n, omit, oracle, f, g) ==
    /\ c.R = R /\ c.C = C /\ c.stR = stR /\ c.stC = stC /\ c.cut = cut
    /\ c.W = W /\ c.h = h /\ c.K = K /\ c.S = S /\ c.X = X /\ c.n = n
    /\ c.omit = omit /\ c.oracle = oracle /\ c.f = f /\ c.g = g

LEMMA ContextExists ==
    ASSUME NEW R, NEW C, NEW stR, NEW stC, NEW cut, NEW W, NEW h, NEW K, NEW S, NEW X, NEW n,
           NEW omit, NEW oracle, NEW f, NEW g
    PROVE  \E c : ContextOf(c, R, C, stR, stC, cut, W, h, K, S, X, n, omit, oracle, f, g)
<1>1. PICK c : c = [R |-> R, C |-> C, stR |-> stR, stC |-> stC, cut |-> cut, W |-> W, h |-> h,
                    K |-> K, S |-> S, X |-> X, n |-> n, omit |-> omit, oracle |-> oracle,
                    f |-> f, g |-> g]
    OBVIOUS
<1>2. ContextOf(c, R, C, stR, stC, cut, W, h, K, S, X, n, omit, oracle, f, g)
    BY <1>1 DEF ContextOf
<1> QED BY <1>2

(* Both runs start in the same state. *)
LEMMA RunsStart ==
    ASSUME NEW c, Running(c), Len(c.R[1]) > 0,
           Related(c.W[1][0], c.h, c.K, c.S, c.X, Entry(PRegs, c.n), Entry(PRegs, c.n), c.n)
    PROVE  \E m, k : At2(c, 1, 0, m, k)
<1>1. 1 \in 1 .. Blocks
    BY RegAllocAssumption
<1>2. 0 \in 0 .. Len(c.R[1]) /\ c.stR[1] = 1 /\ c.stC[1] = 1
    <2>1. Len(c.R[1]) \in Nat
        BY <1>1, RunningIs
    <2> QED BY <2>1, RunningIs
<1>3. c.cut[1][0] = 0
    BY <1>1 DEF Running
<1>4. OnR(c, Entry(PRegs, c.n)) /\ OnC(c, Entry(PRegs, c.n))
    <2>1. Len(FlattenSeq(c.R)) \in Nat /\ Len(FlattenSeq(c.C)) \in Nat
        BY RunningIs
    <2>2. /\ IsRun(c.f, c.R, c.oracle, FALSE, c.omit, c.n)
          /\ IsRun(c.g, c.C, c.oracle, FALSE, c.omit, c.n)
        BY DEF Running
    <2> QED BY <2>1, <2>2, OnRunStart DEF OnR, OnC
<1>5. Entry(PRegs, c.n).pc = 1
    BY EntryIs
<1>6. At2(c, 1, 0, Entry(PRegs, c.n), Entry(PRegs, c.n))
    BY <1>1, <1>2, <1>3, <1>4, <1>5 DEF At2
<1> QED BY <1>6

LEMMA AllocatedIs ==
    ASSUME NEW f, AllocOk(f)
    PROVE  /\ \E S : Code(AllocatedCode(f), S)
           /\ \A b \in 1 .. Blocks : Len(AllocatedCode(f)[b]) = Len(code[b]) /\ Len(code[b]) \in Nat
<1>1. Code(code, Instructions(CodeRegs(vreg_counter)))
    BY AllocFacts
<1> DEFINE S == {Renamed(x, f) : x \in Instructions(CodeRegs(vreg_counter))}
<1>2. ASSUME NEW b \in 1 .. Blocks
      PROVE  /\ AllocatedCode(f)[b] \in Seq(S) /\ Len(AllocatedCode(f)[b]) = Len(code[b])
             /\ Len(code[b]) \in Nat
    <2> DEFINE s == code[b]
               t == [i \in 1 .. Len(s) |-> Renamed(s[i], f)]
    <2>1. s \in Seq(Instructions(CodeRegs(vreg_counter)))
        BY <1>1 DEF Code
    <2>2. DOMAIN s = 1 .. Len(s) /\ Len(s) \in Nat
        BY <2>1
    <2>3. AllocatedCode(f)[b] = t
        BY <2>2 DEF AllocatedCode
    <2>4. \A i \in 1 .. Len(s) : Renamed(s[i], f) \in S
        BY <1>1, InstIn
    <2> HIDE DEF s, S
    <2>5. t \in Seq(S) /\ Len(t) = Len(s)
        BY <2>2, <2>4
    <2> QED BY <2>2, <2>3, <2>5 DEF s
<1>3. Code(AllocatedCode(f), S)
    <2> HIDE DEF S
    <2>1. AllocatedCode(f) = [b \in 1 .. Blocks |-> AllocatedCode(f)[b]]
        BY DEF AllocatedCode
    <2> QED BY <1>2, <2>1 DEF Code
<1> QED BY <1>2, <1>3

LEMMA AllocEqual ==
    ASSUME NEW f, AllocOk(f)
    PROVE  /\ Equal(code, AllocatedCode(f), omit_frame_pointer, vreg_counter)
           /\ Len(FlattenSeq(code)) \in Nat /\ Len(FlattenSeq(AllocatedCode(f))) \in Nat
<1> DEFINE n == vreg_counter
<1>0. Blocks \in Nat \ {0} /\ 1 \in 1 .. Blocks /\ Blocks \in 1 .. Blocks
    BY RegAllocAssumption
<1>1. /\ Code(code, Instructions(CodeRegs(n))) /\ ArgsFixed(code)
      /\ Shaped(code) /\ Ends(code) /\ n \in Nat /\ f \in Allocations
      /\ Renaming(Placed(f, n), n)
    BY AllocFacts
<1>2. PICK S : Code(AllocatedCode(f), S)
    BY AllocatedIs
<1>3. PICK stR : Layout(code, Blocks, stR)
    BY <1>0, <1>1, FlattenLayout DEF Code
<1>4. PICK stC : Layout(AllocatedCode(f), Blocks, stC)
    BY <1>0, <1>2, FlattenLayout DEF Code
<1>5. Len(FlattenSeq(code)) \in Nat /\ Len(FlattenSeq(AllocatedCode(f))) \in Nat
    <2>1. /\ FlattenSeq(code) \in Seq(Instructions(CodeRegs(n)))
          /\ FlattenSeq(AllocatedCode(f)) \in Seq(S)
        BY <1>0, <1>1, <1>2, FlattenLayout DEF Code
    <2> QED BY <2>1
<1> SUFFICES ASSUME NEW oracle, NEW f0, NEW g0,
                    IsRun(f0, code, oracle, FALSE, omit_frame_pointer, n),
                    IsRun(g0, AllocatedCode(f), oracle, FALSE, omit_frame_pointer, n)
             PROVE  Sees(f0, code) = Sees(g0, AllocatedCode(f))
    BY <1>5 DEF Equal
<1> DEFINE cuts == [b \in 1 .. Blocks |-> [i \in 0 .. Len(code[b]) |-> i]]
           needs == [b \in 1 .. Blocks |-> [i \in 0 .. Len(code[b]) |-> NeededAt(stR, b, i, n)]]
<1>6. \A b \in 1 .. Blocks : \A i \in 0 .. Len(code[b]) :
         cuts[b][i] = i /\ needs[b][i] = NeededAt(stR, b, i, n)
    OBVIOUS
<1> HIDE DEF cuts, needs
<1>7. PICK c : /\ c.R = code /\ c.C = AllocatedCode(f) /\ c.stR = stR /\ c.stC = stC
               /\ c.cut = cuts /\ c.W = needs /\ c.h = Placed(f, n) /\ c.K = [x \in {} |-> x]
               /\ c.S = {} /\ c.X = {} /\ c.n = n /\ c.omit = omit_frame_pointer
               /\ c.oracle = oracle /\ c.f = f0 /\ c.g = g0
    <2>1. \E c : ContextOf(c, code, AllocatedCode(f), stR, stC, cuts, needs, Placed(f, n),
                           [x \in {} |-> x], {}, {}, n, omit_frame_pointer, oracle, f0, g0)
        BY ContextExists, Zenon
    <2> QED BY <2>1, Zenon DEF ContextOf
<1>8. \A b \in 1 .. Blocks : Len(AllocatedCode(f)[b]) = Len(code[b]) /\ Len(code[b]) \in Nat
    BY AllocatedIs
<1>9. Running(c)
    <2>1. \A b \in 1 .. Blocks : /\ \A i \in 0 .. Len(code[b]) : i \in 0 .. Len(AllocatedCode(f)[b])
                                 /\ 0 \in 0 .. Len(code[b]) /\ Len(code[b]) \in 0 .. Len(code[b])
        BY <1>8
    <2>2. \A b \in 1 .. Blocks : /\ \A i \in 0 .. Len(c.R[b]) : c.cut[b][i] \in 0 .. Len(c.C[b])
                                 /\ c.cut[b][0] = 0
                                 /\ c.cut[b][Len(c.R[b])] = Len(c.C[b])
        BY <1>6, <1>7, <1>8, <2>1
    <2> QED BY <1>1, <1>2, <1>3, <1>4, <1>7, <2>2 DEF Running
<1>10. Allocating(c, f)
    <2>1. \A b \in 1 .. Blocks : \A i \in 0 .. Len(code[b]) :
             c.cut[b][i] = i /\ c.W[b][i] = NeededAt(c.stR, b, i, vreg_counter)
        BY <1>6, <1>7
    <2>2. DOMAIN c.K = {}
        BY <1>7
    <2> QED BY <1>7, <1>9, <2>1, <2>2 DEF Allocating
<1>11. \E m, k : At2(c, 1, 0, m, k)
    <2> DEFINE e == Entry(PRegs, n)
               h == Placed(f, n)
    <2>1. Mach(e, n)
        BY EntryIs
    <2> HIDE DEF e, h
    <2>2. c.W[1][0] = NeededAt(stR, 1, 0, n)
        BY <1>0, <1>6, <1>7, <1>8
    <2>3. \A r \in NeededAt(stR, 1, 0, n) : r \in CodeRegs(n) /\ ~IsVReg(r)
        <3>1. stR[1] + 0 = 1
            BY <1>3 DEF Layout
        <3>2. \A r \in Live[1] : ~IsVReg(r)
            <4>1. PICK E : Flow(code, E, omit_frame_pointer)
                BY DEF AllocOk, CodeOk
            <4> QED BY <1>1, <1>3, <4>1, LiveFlow
        <3>3. ~IsVReg(sp) /\ ~IsVReg(a0) /\ sp \in CodeRegs(n) /\ a0 \in CodeRegs(n)
            BY RegsDiffer, CodeRegsIn
        <3> QED BY <3>1, <3>2, <3>3 DEF NeededAt
    <2>4. \A r \in NeededAt(stR, 1, 0, n) : h[r] = r
        BY <1>1, <2>3, PlacedRenaming DEF h
    <2>5. Unseen({}, e, e)
        BY DEF Unseen, SameMem
    <2>6. Related(NeededAt(stR, 1, 0, n), h, [x \in {} |-> x], {}, {}, e, e, n)
        BY <2>1, <2>4, <2>5 DEF Related
    <2>7. Len(c.R[1]) > 0
        BY <1>0, <1>1, <1>7 DEF Shaped
    <2> QED BY <1>7, <1>9, <2>2, <2>6, <2>7, RunsStart DEF e, h
<1>12. \A b, i, m, k : At2(c, b, i, m, k) /\ i < Len(c.R[b]) => Goes(c, m)
    BY <1>7, <1>10, AllocGoes
<1>13. PICK m, k : At2(c, Blocks, Len(c.R[Blocks]), m, k)
    BY <1>9, <1>11, <1>12, WalkEnds
<1>14. {a0, sp} \subseteq c.W[Blocks][Len(c.R[Blocks])] \ c.S
    <2>1. Len(code[Blocks]) \in 0 .. Len(code[Blocks])
        BY <1>0, <1>8
    <2>2. c.W[Blocks][Len(c.R[Blocks])] = NeededAt(stR, Blocks, Len(code[Blocks]), n)
        BY <1>0, <1>6, <1>7, <2>1
    <2> QED BY <1>7, <2>2 DEF NeededAt
<1>15. c.h[a0] = a0 /\ c.h[sp] = sp
    BY <1>1, <1>7 DEF Renaming
<1>16. Sees(c.f, c.R) = Sees(c.g, c.C)
    BY <1>9, <1>13, <1>14, <1>15, WalkSees
<1> QED BY <1>7, <1>16

-----------------------------------------------------------------------------
(* Further ways to go on. *)

(* Anything that brings both runs to the next place. *)
LEMMA GoesWith ==
    ASSUME NEW c, Running(c), NEW b, NEW i, NEW m, NEW k, At2(c, b, i, m, k), i < Len(c.R[b]),
           i + 1 < Len(c.R[b]) \/ b = Blocks,
           NEW e, NEW f, OnR(c, e), OnC(c, f), OneOn(m, e),
           f.pc = c.stC[b] + c.cut[b][i + 1],
           Related(c.W[b][i + 1], c.h, c.K, c.S, c.X, e, f, c.n)
    PROVE  Goes(c, m)
<1>1. AheadR(c, b, i, m)
    BY Ahead
<1>2. /\ i + 1 \in 0 .. Len(c.R[b]) /\ e.pc = c.stR[b] + (i + 1) /\ m.pc < e.pc
    BY <1>1 DEF AheadR, OneOn
<1>3. b \in 1 .. Blocks
    BY DEF At2
<1>4. At2(c, b, i + 1, e, f)
    BY <1>2, <1>3 DEF At2
<1> QED BY <1>2, <1>4 DEF Goes

(* c.R goes one further, and c.C has nothing to do. *)
LEMMA GoesAlone ==
    ASSUME NEW c, Running(c), NEW b, NEW i, NEW m, NEW k, At2(c, b, i, m, k), i < Len(c.R[b]),
           i + 1 < Len(c.R[b]) \/ b = Blocks,
           StepO(c.R[b][i + 1], m, c.R, c.oracle, FALSE, c.omit) = JumpedTo(m, m.pc + 1),
           c.cut[b][i + 1] = c.cut[b][i], c.W[b][i + 1] \subseteq c.W[b][i]
    PROVE  Goes(c, m)
<1> DEFINE e == JumpedTo(m, m.pc + 1)
<1>1. AheadR(c, b, i, m)
    BY Ahead
<1>2. /\ b \in 1 .. Blocks /\ OnR(c, m) /\ OnC(c, k) /\ k.pc = c.stC[b] + c.cut[b][i]
      /\ Related(c.W[b][i], c.h, c.K, c.S, c.X, m, k, c.n)
    BY DEF At2
<1>3. Mach(m, c.n) /\ Mach(k, c.n) /\ m.seen = k.seen /\ m.asked = k.asked
    BY <1>2 DEF Related, Unseen
<1>4. /\ Mach(e, c.n) /\ e.regs = m.regs /\ e.mem = m.mem /\ e.seen = m.seen
      /\ e.asked = m.asked /\ e.pc = m.pc + 1
    <2>1. m.pc + 1 \in Nat
        BY <1>1 DEF AheadR
    <2>2. IsJumped(e, m, m.pc + 1, c.n)
        BY <1>3, <2>1, IsJumpedTo
    <2> QED BY <2>2 DEF IsJumped
<1>5. e = StepO(c.R[b][i + 1], m, c.R, c.oracle, FALSE, c.omit)
    OBVIOUS
<1> HIDE DEF e
<1>6. OnR(c, e)
    <2>1. /\ i + 1 \in 1 .. Len(c.R[b]) /\ m.pc = c.stR[b] + (i + 1) - 1
          /\ e.pc \in Nat /\ m.pc < e.pc
        BY <1>1, <1>4 DEF AheadR
    <2> QED BY <1>2, <1>5, <2>1, StepR
<1>7. Related(c.W[b][i], c.h, c.K, c.S, c.X, e, k, c.n)
    BY <1>2, <1>3, <1>4, RelatedSame
<1>8. Related(c.W[b][i + 1], c.h, c.K, c.S, c.X, e, k, c.n)
    BY <1>7, RelatedLess
<1>9. OneOn(m, e)
    BY <1>4 DEF OneOn
<1> QED BY <1>2, <1>6, <1>8, <1>9, GoesWith

-----------------------------------------------------------------------------
(* What is selected for what is asked for. *)

(* The instructions a client asks for: calls with at most one argument, the *)
(* memory of the program, and the register slots are indexed with is left  *)
(* alone.                                                                  *)
Base(omit) == IF omit THEN sp ELSE fp

Wanted(n, omit) ==
    {inst \in Instructions(CodeRegs(n)) :
       /\ inst.kind = "Call" => inst.arg_regs \subseteq {a0}
       /\ inst.kind \in {"Load", "LoadAddr", "Store"} =>
             inst.loc = ProgramSlot \/ (inst.loc.kind = "RegOffset" /\ inst.loc.offset = 8)
       /\ Base(omit) \notin Defs(inst) /\ zero \notin Defs(inst) /\ fp \notin Defs(inst)}

(* The instructions of A from lo + 1 to hi stand for a request, where the  *)
(* registers D are defined and K is known of some; T are registers of the  *)
(* compiler's own.                                                         *)
PlainPiece(request, A, lo, hi, n, T) ==
    /\ request \in Instructions(CodeRegs(n) \ T) /\ request.kind # "Br"
    /\ hi = lo + 1 /\ A[lo + 1] = request

BranchPiece(request, A, lo, hi, n, T) ==
    /\ request.kind = "CondBr" /\ request.cond.kind = "Reg"
    /\ request.cond.reg \in CodeRegs(n) \ T
    /\ hi = lo + 1 /\ A[lo + 1] = Bne(request.cond.reg, zero, request.block)

DecidedPiece(request, A, lo, hi, D, K, n, T) ==
    /\ request.kind = "CondBr"
    /\ \/ /\ request.cond.kind = "Imm" /\ request.cond.reg \in (D \cap CodeRegs(n)) \ T
          /\ request.cond.reg \in DOMAIN K /\ K[request.cond.reg] = Number(request.cond.imm)
          /\ \/ request.cond.imm = 1 /\ hi = lo + 1 /\ A[lo + 1] = J(request.block)
             \/ request.cond.imm = 0 /\ hi = lo
       \/ request.cond.kind = "Undef" /\ hi = lo

AdjustPiece(request, A, lo, hi, T) ==
    /\ request.kind = "SpAdjust" /\ request.offset \in Int
    /\ \/ hi = lo + 1 /\ A[lo + 1] = AluRRI(sp, sp, request.offset)
       \/ \E t \in T : /\ hi = lo + 2 /\ A[lo + 1] = Li(t, request.offset)
                       /\ A[lo + 2] = AluRRR(sp, sp, t)

Piece(request, A, lo, hi, D, K, n, T) ==
    \/ PlainPiece(request, A, lo, hi, n, T)
    \/ BranchPiece(request, A, lo, hi, n, T)
    \/ DecidedPiece(request, A, lo, hi, D, K, n, T)
    \/ AdjustPiece(request, A, lo, hi, T)

KnownOk(K, n) ==
    /\ zero \in DOMAIN K /\ K[zero] = Number(0)
    /\ \A r \in DOMAIN K : r = zero \/ (IsVReg(r) /\ r \in CodeRegs(n))

SetsKnown(inst, K) ==
    inst.kind \in Defining /\ inst.rd \in DOMAIN K =>
        inst.kind = "Li" /\ K[inst.rd] = Number(inst.imm)

Forward(A) ==
    \A b \in 1 .. Blocks : \A i \in 1 .. Len(A[b]) :
        IsTerminator(A[b][i]) => A[b][i].block \in (b + 1) .. Blocks

Body(C, E, K, n, omit) ==
    /\ n \in Nat /\ Code(C, Wanted(n, omit)) /\ Forward(C) /\ Flow(C, E, omit) /\ KnownOk(K, n)
    /\ \A b \in 1 .. Blocks : \A i \in 1 .. Len(C[b]) : SetsKnown(C[b][i], K)

CutOk(R, C, cut) ==
    \A b \in 1 .. Blocks : /\ \A i \in 0 .. Len(R[b]) : cut[b][i] \in 0 .. Len(C[b])
                           /\ cut[b][0] = 0 /\ cut[b][Len(R[b])] = Len(C[b])

Leads(request, b) == request.kind \in {"J", "CondBr"} => request.block \in (b + 1) .. Blocks

Pieces(R, C, E, cut, T, K, n) ==
    /\ \E S : Code(R, S)
    /\ T \subseteq CodeRegs(n) /\ \A t \in T : IsVReg(t)
    /\ CutOk(R, C, cut)
    /\ \A b \in 1 .. Blocks : \A i \in 1 .. Len(R[b]) :
          /\ Piece(R[b][i], C[b], cut[b][i - 1], cut[b][i], E[b][cut[b][i - 1]], K, n, T)
          /\ Leads(R[b][i], b)

(* Every block ends with a jump. *)
Closed(A) == \A b \in 1 .. Blocks :
                 Len(A[b]) > 0 /\ (b < Blocks => A[b][Len(A[b])].kind = "J")

-----------------------------------------------------------------------------
(* The code that is selected does what was asked for, request by request.  *)

Kept(E, T, n, b, j) == ((E[b][j] \cap CodeRegs(n)) \cup Fixed) \ T
Same(n) == [r \in CodeRegs(n) |-> r]

Choosing(c, E, T, n) ==
    /\ Running(c) /\ c.S = {} /\ c.X = {} /\ c.h = Same(c.n) /\ c.n \in Nat /\ n <= c.n
    /\ Body(c.C, E, c.K, n, c.omit) /\ Pieces(c.R, c.C, E, c.cut, T, c.K, n) /\ Closed(c.R)
    /\ \A b \in 1 .. Blocks : \A i \in 0 .. Len(c.R[b]) :
          c.W[b][i] = Kept(E, T, n, b, c.cut[b][i])

ChosenAt(c, E, T, n, b, i, m, k) ==
    /\ b \in 1 .. Blocks /\ i < Len(c.R[b])
    /\ c.cut[b][i] \in 0 .. Len(c.C[b]) /\ c.cut[b][i + 1] \in 0 .. Len(c.C[b])
    /\ Piece(c.R[b][i + 1], c.C[b], c.cut[b][i], c.cut[b][i + 1], E[b][c.cut[b][i]], c.K, n, T)
    /\ Leads(c.R[b][i + 1], b)
    /\ (i + 1 < Len(c.R[b]) \/ b = Blocks \/ c.R[b][i + 1].kind = "J")
    /\ c.W[b][i] = Kept(E, T, n, b, c.cut[b][i])
    /\ c.W[b][i + 1] = Kept(E, T, n, b, c.cut[b][i + 1])
    /\ \A d \in 1 .. Blocks : c.W[d][0] = Kept(E, T, n, d, 0) /\ Len(c.R[d]) > 0
    /\ Related(Kept(E, T, n, b, c.cut[b][i]), Same(c.n), c.K, {}, {}, m, k, c.n)

LEMMA MoreCodeRegs ==
    ASSUME NEW n \in Nat, NEW l \in Nat, n <= l
    PROVE  CodeRegs(n) \subseteq CodeRegs(l)
BY DEF CodeRegs

LEMMA MoreInsts ==
    ASSUME NEW A, NEW B, A \subseteq B
    PROVE  Instructions(A) \subseteq Instructions(B)
<1>1. Locations(A) \subseteq Locations(B)
    BY DEF Locations
<1> QED BY <1>1 DEF Instructions

LEMMA SameRenaming ==
    ASSUME NEW n
    PROVE  /\ Renaming(Same(n), n)
           /\ \A inst \in Instructions(CodeRegs(n)) : InstTo(inst, inst, Same(n))
<1>1. Renaming(Same(n), n)
    BY CodeRegsIn DEF Renaming, Same
<1>2. ASSUME NEW loc \in Locations(CodeRegs(n)) PROVE LocTo(loc, loc, Same(n))
    BY DEF LocTo, Locations, OnStack, Same
<1>3. ASSUME NEW inst \in Instructions(CodeRegs(n)) PROVE InstTo(inst, inst, Same(n))
    <2>1. inst.kind \in {"Load", "LoadAddr", "Store"} => LocTo(inst.loc, inst.loc, Same(n))
        BY <1>2 DEF Instructions
    <2> QED BY <2>1 DEF InstTo, Instructions, Same, Defining
<1> QED BY <1>1, <1>3

LEMMA ChosenPlace ==
    ASSUME NEW c, NEW E, NEW T, NEW n, Choosing(c, E, T, n), NEW b, NEW i, NEW m, NEW k,
           At2(c, b, i, m, k), i < Len(c.R[b])
    PROVE  ChosenAt(c, E, T, n, b, i, m, k)
<1>1. Running(c) /\ Pieces(c.R, c.C, E, c.cut, T, c.K, n) /\ Closed(c.R)
    BY DEF Choosing
<1>2. b \in 1 .. Blocks /\ i \in 0 .. Len(c.R[b])
    BY DEF At2
<1>3. \A d \in 1 .. Blocks : Len(c.R[d]) \in Nat /\ 0 \in 0 .. Len(c.R[d])
    <2>1. \A d \in 1 .. Blocks : Len(c.R[d]) \in Nat
        BY <1>1, RunningIs
    <2> QED BY <2>1
<1>4. i + 1 \in 0 .. Len(c.R[b]) /\ i + 1 \in 1 .. Len(c.R[b]) /\ (i + 1) - 1 = i
    BY <1>2, <1>3
<1>5. /\ c.cut[b][i] \in 0 .. Len(c.C[b]) /\ c.cut[b][i + 1] \in 0 .. Len(c.C[b])
      /\ \A d \in 1 .. Blocks : c.cut[d][0] = 0
    BY <1>1, <1>2, <1>4 DEF Pieces, CutOk
<1>6. /\ Piece(c.R[b][i + 1], c.C[b], c.cut[b][i], c.cut[b][i + 1], E[b][c.cut[b][i]], c.K, n, T)
      /\ Leads(c.R[b][i + 1], b)
    <2>1. PICK j \in 1 .. Len(c.R[b]) : j = i + 1 /\ j - 1 = i
        BY <1>4
    <2> QED BY <1>1, <1>2, <2>1 DEF Pieces
<1>7. i + 1 < Len(c.R[b]) \/ b = Blocks \/ c.R[b][i + 1].kind = "J"
    <2>1. i + 1 < Len(c.R[b]) \/ i + 1 = Len(c.R[b])
        BY <1>2, <1>3
    <2>2. b # Blocks => b < Blocks
        BY <1>2, RegAllocAssumption
    <2> QED BY <1>1, <1>2, <2>1, <2>2 DEF Closed
<1>8. /\ c.W[b][i] = Kept(E, T, n, b, c.cut[b][i])
      /\ c.W[b][i + 1] = Kept(E, T, n, b, c.cut[b][i + 1])
      /\ \A d \in 1 .. Blocks : c.W[d][0] = Kept(E, T, n, d, 0)
    BY <1>2, <1>3, <1>4, <1>5 DEF Choosing
<1>9. \A d \in 1 .. Blocks : Len(c.R[d]) > 0
    BY <1>1 DEF Closed
<1>10. Related(Kept(E, T, n, b, c.cut[b][i]), Same(c.n), c.K, {}, {}, m, k, c.n)
    <2>1. Related(c.W[b][i], c.h, c.K, c.S, c.X, m, k, c.n)
        BY DEF At2
    <2> QED BY <1>8, <2>1 DEF Choosing
<1> QED BY <1>2, <1>5, <1>6, <1>7, <1>8, <1>9, <1>10 DEF ChosenAt

(* One instruction of the code. *)
BodyAt(C, E, K, n, omit, b, j) ==
    LET inst == C[b][j]
    IN /\ inst \in Instructions(CodeRegs(n))
       /\ inst.kind = "Call" => inst.arg_regs \subseteq {a0}
       /\ Uses(inst, omit) \subseteq (E[b][j - 1] \cup Fixed) \cap CodeRegs(n)
       /\ inst.kind # "J" => E[b][j] \subseteq E[b][j - 1] \cup Defs(inst)
       /\ IsTerminator(inst) => inst.block \in (b + 1) .. Blocks /\ E[inst.block][0] \subseteq E[b][j - 1]
       /\ SetsKnown(inst, K)

LEMMA BodyPlace ==
    ASSUME NEW C, NEW E, NEW K, NEW n, NEW omit, Body(C, E, K, n, omit),
           NEW b \in 1 .. Blocks, NEW j \in 1 .. Len(C[b])
    PROVE  BodyAt(C, E, K, n, omit, b, j)
<1>1. C[b][j] \in Wanted(n, omit)
    BY InstIn DEF Body
<1>2. C[b][j] \in Instructions(CodeRegs(n))
    BY <1>1 DEF Wanted
<1>3. Uses(C[b][j], omit) \subseteq CodeRegs(n)
    BY <1>2, UsesIn
<1>4. Forward(C) /\ Flow(C, E, omit) /\ SetsKnown(C[b][j], K)
    BY DEF Body
<1> QED BY <1>1, <1>2, <1>3, <1>4 DEF BodyAt, Wanted, Forward, Flow

LEMMA KeptIn ==
    ASSUME NEW E, NEW T, NEW n \in Nat, NEW l \in Nat, n <= l, NEW b, NEW j
    PROVE  Kept(E, T, n, b, j) \in SUBSET CodeRegs(l)
BY MoreCodeRegs, CodeRegsIn DEF Kept, Fixed

LEMMA ChosenPlain ==
    ASSUME NEW c, NEW E, NEW T, NEW n, Choosing(c, E, T, n), NEW b, NEW i, NEW m, NEW k,
           At2(c, b, i, m, k), i < Len(c.R[b]),
           PlainPiece(c.R[b][i + 1], c.C[b], c.cut[b][i], c.cut[b][i + 1], n, T)
    PROVE  Goes(c, m)
<1> DEFINE inst == c.R[b][i + 1]
           lo == c.cut[b][i]
           W == Kept(E, T, n, b, lo)
           W2 == Kept(E, T, n, b, c.cut[b][i + 1])
           l == c.n
<1>1. /\ Running(c) /\ c.S = {} /\ c.X = {} /\ c.h = Same(l) /\ l \in Nat /\ n <= l /\ n \in Nat
      /\ Body(c.C, E, c.K, n, c.omit)
    BY DEF Choosing, Body
<1>2. ChosenAt(c, E, T, n, b, i, m, k)
    BY ChosenPlace
<1>3. /\ b \in 1 .. Blocks /\ lo \in 0 .. Len(c.C[b]) /\ c.cut[b][i + 1] \in 0 .. Len(c.C[b])
      /\ (i + 1 < Len(c.R[b]) \/ b = Blocks \/ inst.kind = "J")
      /\ c.W[b][i] = W /\ c.W[b][i + 1] = W2
      /\ \A d \in 1 .. Blocks : c.W[d][0] = Kept(E, T, n, d, 0) /\ Len(c.R[d]) > 0
      /\ Related(W, Same(l), c.K, {}, {}, m, k, l)
    BY <1>2 DEF ChosenAt
<1>4. /\ inst \in Instructions(CodeRegs(n) \ T) /\ inst.kind # "Br"
      /\ c.cut[b][i + 1] = lo + 1 /\ c.C[b][lo + 1] = inst
    BY DEF PlainPiece
<1>5. lo + 1 \in 1 .. Len(c.C[b]) /\ lo < Len(c.C[b]) /\ (lo + 1) - 1 = lo /\ NextCut(c, b, i)
    <2>1. Len(c.C[b]) \in Nat
        BY <1>1, <1>3, RunningIs
    <2> DEFINE z == Len(c.C[b])
               hi == c.cut[b][i + 1]
    <2>2. lo \in 0 .. z /\ hi \in 0 .. z /\ z \in Nat /\ hi = lo + 1
        BY <1>3, <1>4, <2>1
    <2> HIDE DEF lo, z, hi
    <2>3. lo + 1 \in 1 .. z /\ lo < z /\ (lo + 1) - 1 = lo /\ hi = lo + 1
        BY <2>2, NextPlace, Zenon
    <2> QED BY <2>3 DEF NextCut, z, lo, hi
<1>6. /\ inst.kind = "Call" => inst.arg_regs \subseteq {a0}
      /\ Uses(inst, c.omit) \subseteq (E[b][lo] \cup Fixed) \cap CodeRegs(n)
      /\ inst.kind # "J" => E[b][lo + 1] \subseteq E[b][lo] \cup Defs(inst)
      /\ IsTerminator(inst) => inst.block \in (b + 1) .. Blocks /\ E[inst.block][0] \subseteq E[b][lo]
      /\ SetsKnown(inst, c.K)
    <2>1. PICK j \in 1 .. Len(c.C[b]) : j = lo + 1 /\ j - 1 = lo
        BY <1>5
    <2>2. BodyAt(c.C, E, c.K, n, c.omit, b, j)
        BY <1>1, <1>3, BodyPlace
    <2>3. c.C[b][j] = inst
        BY <1>4, <2>1
    <2> QED BY <2>1, <2>2, <2>3, Zenon DEF BodyAt
<1>7. Uses(inst, c.omit) \subseteq (CodeRegs(n) \ T) \cup {sp, fp}
    <2>1. ASSUME NEW loc \in Locations(CodeRegs(n) \ T)
          PROVE  LocUses(loc, c.omit) \subseteq (CodeRegs(n) \ T) \cup {sp, fp}
        BY Zenon DEF Locations, LocUses, OnStack
    <2>2. CASE inst.kind \in {"Load", "LoadAddr", "Store"}
        BY <1>4, <2>1, <2>2 DEF Instructions, Uses
    <2>3. CASE inst.kind \notin {"Load", "LoadAddr", "Store"}
        BY <1>4, <2>3 DEF Instructions, Uses
    <2> QED BY <2>2, <2>3
<1>8. sp \notin T /\ fp \notin T
    BY RegsDiffer DEF Choosing, Pieces
<1>9. Uses(inst, c.omit) \subseteq W
    BY <1>6, <1>7, <1>8 DEF Kept
<1>10. W \in SUBSET CodeRegs(l) /\ W2 \in SUBSET CodeRegs(l)
    BY <1>1, KeptIn
<1>11. inst \in Instructions(CodeRegs(l))
    <2>1. CodeRegs(n) \ T \subseteq CodeRegs(l)
        BY <1>1, MoreCodeRegs, Zenon
    <2> QED BY <1>4, <2>1, MoreInsts
<1>12. ASSUME inst.kind # "J" PROVE Goes(c, m)
    <2>1. ~IsTerminator(inst)
        BY <1>4, <1>12, Zenon DEF IsTerminator
    <2>2. W2 \ Defs(inst) \subseteq W
        BY <1>4, <1>6, <1>12 DEF Kept
    <2>3. \A q \in W2 \ Defs(inst) : Same(l)[q] \notin Clobbers(inst)
        <3>1. \A q \in W2 \ Defs(inst) : q \in CodeRegs(l) /\ Same(l)[q] = q
            BY <1>10 DEF Same
        <3> HIDE DEF W2, inst
        <3> QED BY <1>11, <2>1, <3>1, ClobbersOf
    <2>4. Mach(m, l)
        BY <1>3 DEF Related
    <2>5. ASSUME NEW q \in W2 \cap Defs(inst) \cap DOMAIN c.K
          PROVE  Effect(inst, m, c.omit).regs[q] = c.K[q]
        <3>1. q # a0
            <4>1. KnownOk(c.K, n)
                BY <1>1 DEF Body
            <4> QED BY <4>1, <2>5, RegsDiffer DEF KnownOk
        <3>2. inst.kind \in Defining /\ q = inst.rd
            BY <2>5, <3>1 DEF Defs, RETURN_REGS
        <3>3. inst.kind = "Li" /\ c.K[q] = Number(inst.imm)
            BY <1>6, <2>5, <3>2 DEF SetsKnown
        <3>4. Effect(inst, m, c.omit)
                = Went(m, [m.regs EXCEPT ![q] = Number(inst.imm)], m.mem, m.seen)
            BY <2>4, <3>2, <3>3, EffectLi
        <3>5. q \in DOMAIN m.regs
            BY <1>10, <2>4, <2>5, CodeRegsIn DEF Mach
        <3> DEFINE regs == [m.regs EXCEPT ![q] = Number(inst.imm)]
        <3>6. regs[q] = Number(inst.imm)
            BY <3>5
        <3> HIDE DEF regs
        <3>7. Went(m, regs, m.mem, m.seen).regs = regs
            BY DEF Went
        <3> QED BY <3>3, <3>4, <3>6, <3>7 DEF regs
    <2> HIDE DEF inst, lo, W, W2, l
    <2>6. StepFits(l, m, k, Same(l), c.K, {}, {}, W, c.omit, inst, inst, W2)
        <3>1. Renaming(Same(l), l) /\ InstTo(inst, inst, Same(l))
            BY <1>11, SameRenaming
        <3> QED BY <1>3, <1>6, <1>9, <1>10, <1>11, <2>1, <2>2, <2>3, <2>5, <3>1 DEF StepFits
    <2>7. StepDone(l, m, k, Same(l), c.K, {}, {}, W, c.omit, inst, inst, W2)
        BY <2>6, RelatedStep
    <2> DEFINE e == Effect(inst, m, c.omit)
               f == Effect(inst, k, c.omit)
    <2>8. Related(W2, Same(l), c.K, {}, {}, e, f, l) /\ OneOn(m, e) /\ OneOn(k, f)
        BY <2>7 DEF StepDone
    <2> HIDE DEF e, f
    <2>9. Related(c.W[b][i + 1], c.h, c.K, c.S, c.X, e, f, c.n)
        BY <1>1, <1>3, <2>8 DEF l
    <2>10. /\ inst = c.R[b][i + 1] /\ inst = c.C[b][c.cut[b][i] + 1] /\ NextCut(c, b, i)
           /\ (i + 1 < Len(c.R[b]) \/ b = Blocks) /\ inst \in Instructions(CodeRegs(c.n))
        BY <1>3, <1>4, <1>5, <1>11, <1>12, Zenon DEF inst, lo, l
    <2>11. e = Effect(inst, m, c.omit) /\ f = Effect(inst, k, c.omit)
        BY DEF e, f
    <2> QED BY <1>1, <2>1, <2>8, <2>9, <2>10, <2>11, GoesStep, Zenon
<1>13. ASSUME inst.kind = "J" PROVE Goes(c, m)
    <2>1. PICK d \in (b + 1) .. Blocks : d = inst.block
        BY <1>6, <1>13 DEF IsTerminator
    <2>2. d \in 1 .. Blocks
        BY <1>3, RegAllocAssumption
    <2>3. E[d][0] \subseteq E[b][lo]
        BY <1>6, <1>13, <2>1 DEF IsTerminator
    <2>4. c.W[d][0] \subseteq c.W[b][i] /\ Len(c.R[d]) > 0
        BY <1>3, <2>2, <2>3 DEF Kept
    <2>5. c.cut[b][i] < Len(c.C[b]) /\ inst = c.R[b][i + 1] /\ inst = c.C[b][c.cut[b][i] + 1]
        BY <1>4, <1>5
    <2> HIDE DEF inst
    <2> QED BY <1>1, <1>13, <2>1, <2>4, <2>5, GoesJump, Zenon
<1> QED BY <1>12, <1>13

LEMMA FixedKept ==
    ASSUME NEW c, NEW E, NEW T, NEW n, Choosing(c, E, T, n), NEW b, NEW j
    PROVE  /\ Fixed \subseteq Kept(E, T, n, b, j) /\ Fixed \cap T = {}
           /\ zero \in DOMAIN c.K /\ c.K[zero] = Number(0)
           /\ Fixed \cap DOMAIN c.K = {zero}
<1>1. Fixed \cap T = {}
    BY RegsDiffer DEF Choosing, Pieces, Fixed
<1>2. KnownOk(c.K, n)
    BY DEF Choosing, Body
<1>3. Fixed \cap DOMAIN c.K = {zero} /\ zero \in DOMAIN c.K /\ c.K[zero] = Number(0)
    <2>1. PICK K : K = c.K
        OBVIOUS
    <2>2. KnownOk(K, n)
        BY <1>2, <2>1, Zenon
    <2>3. /\ zero \in DOMAIN K /\ K[zero] = Number(0)
          /\ \A r \in DOMAIN K : r = zero \/ IsVReg(r)
        BY <2>2, Zenon DEF KnownOk
    <2>4. \A r \in Fixed : ~IsVReg(r)
        BY RegsDiffer DEF Fixed
    <2>5. zero \in Fixed
        BY DEF Fixed
    <2>6. Fixed \cap DOMAIN K = {zero}
        BY <2>3, <2>4, <2>5, Zenon
    <2> QED BY <2>1, <2>3, <2>6, Zenon
<1> QED BY <1>1, <1>3 DEF Kept

LEMMA ChosenBranch ==
    ASSUME NEW c, NEW E, NEW T, NEW n, Choosing(c, E, T, n), NEW b, NEW i, NEW m, NEW k,
           At2(c, b, i, m, k), i < Len(c.R[b]),
           BranchPiece(c.R[b][i + 1], c.C[b], c.cut[b][i], c.cut[b][i + 1], n, T)
    PROVE  Goes(c, m)
<1> DEFINE request == c.R[b][i + 1]
           lo == c.cut[b][i]
           W == Kept(E, T, n, b, lo)
           W2 == Kept(E, T, n, b, c.cut[b][i + 1])
           l == c.n
           r == request.cond.reg
           i2 == Bne(r, zero, request.block)
<1>1. /\ Running(c) /\ c.S = {} /\ c.X = {} /\ c.h = Same(l) /\ l \in Nat /\ n <= l /\ n \in Nat
      /\ Body(c.C, E, c.K, n, c.omit)
    BY DEF Choosing, Body
<1>2. ChosenAt(c, E, T, n, b, i, m, k)
    BY ChosenPlace
<1>4. /\ request.kind = "CondBr" /\ request.cond.kind = "Reg" /\ r \in CodeRegs(n) \ T
      /\ c.cut[b][i + 1] = lo + 1 /\ c.C[b][lo + 1] = i2
    BY DEF BranchPiece
<1>3. /\ b \in 1 .. Blocks /\ lo \in 0 .. Len(c.C[b]) /\ c.cut[b][i + 1] \in 0 .. Len(c.C[b])
      /\ (i + 1 < Len(c.R[b]) \/ b = Blocks)
      /\ c.W[b][i] = W /\ c.W[b][i + 1] = W2
      /\ \A d \in 1 .. Blocks : c.W[d][0] = Kept(E, T, n, d, 0) /\ Len(c.R[d]) > 0
      /\ Related(W, Same(l), c.K, {}, {}, m, k, l)
    BY <1>2, <1>4 DEF ChosenAt
<1>5. lo + 1 \in 1 .. Len(c.C[b]) /\ lo < Len(c.C[b]) /\ (lo + 1) - 1 = lo
    <2>1. Len(c.C[b]) \in Nat
        BY <1>1, <1>3, RunningIs
    <2> DEFINE z == Len(c.C[b])
               hi == c.cut[b][i + 1]
    <2>2. lo \in 0 .. z /\ hi \in 0 .. z /\ z \in Nat /\ hi = lo + 1
        BY <1>3, <1>4, <2>1
    <2> HIDE DEF lo, z, hi
    <2>3. lo + 1 \in 1 .. z /\ lo < z /\ (lo + 1) - 1 = lo
        BY <2>2, NextPlace, Zenon
    <2> QED BY <2>3 DEF z, lo
<1>6. /\ i2.kind = "Br" /\ i2.rs1 = r /\ i2.rs2 = zero /\ i2.block = request.block
      /\ Uses(i2, c.omit) = {r, zero} /\ Defs(i2) = {} /\ IsTerminator(i2)
    BY Zenon DEF Bne, Uses, Defs, Defining, IsTerminator
<1> HIDE DEF i2
<1>7. /\ {r, zero} \subseteq (E[b][lo] \cup Fixed) \cap CodeRegs(n)
      /\ E[b][lo + 1] \subseteq E[b][lo]
      /\ request.block \in (b + 1) .. Blocks /\ E[request.block][0] \subseteq E[b][lo]
    <2>1. PICK j \in 1 .. Len(c.C[b]) : j = lo + 1 /\ j - 1 = lo
        BY <1>5
    <2>2. BodyAt(c.C, E, c.K, n, c.omit, b, j)
        BY <1>1, <1>3, BodyPlace
    <2>3. c.C[b][j] = i2
        BY <1>4, <2>1, Zenon
    <2> QED BY <1>6, <2>1, <2>2, <2>3, Zenon DEF BodyAt
<1>8. PICK d \in (b + 1) .. Blocks : d = request.block
    BY <1>7
<1>9. d \in 1 .. Blocks
    BY <1>3, LaterBlock, Zenon
<1>10. c.W[d][0] \subseteq c.W[b][i] /\ c.W[b][i + 1] \subseteq c.W[b][i] /\ Len(c.R[d]) > 0
    <2>1. E[d][0] \subseteq E[b][lo]
        BY <1>7, <1>8, Zenon
    <2>2. Kept(E, T, n, d, 0) \subseteq W /\ Kept(E, T, n, b, lo + 1) \subseteq W
        BY <1>7, <2>1, Zenon DEF Kept
    <2>3. c.W[d][0] = Kept(E, T, n, d, 0) /\ Len(c.R[d]) > 0
        BY <1>3, <1>9, Zenon
    <2>4. W2 = Kept(E, T, n, b, lo + 1)
        BY <1>4, Zenon
    <2> QED BY <1>3, <2>2, <2>3, <2>4, Zenon
<1>11. r \in W /\ zero \in W /\ r \in CodeRegs(l) /\ zero \in CodeRegs(l)
    <2>1. Fixed \subseteq W /\ zero \in Fixed
        BY FixedKept DEF Fixed
    <2>2. CodeRegs(n) \subseteq CodeRegs(l)
        BY <1>1, MoreCodeRegs
    <2>3. r \in CodeRegs(n) /\ zero \in CodeRegs(n) /\ r \in (E[b][lo] \cap CodeRegs(n)) \cup Fixed
        BY <1>4, <1>7, Zenon
    <2>4. r \in W
        BY <1>4, <2>3 DEF Kept
    <2> QED BY <2>1, <2>2, <2>3, <2>4
<1>12. k.regs[r] = m.regs[r] /\ k.regs[zero] = m.regs[zero] /\ m.regs[zero] = Number(0)
    <2>1. \A q \in W : k.regs[Same(l)[q]] = m.regs[q]
        BY <1>3 DEF Related
    <2>2. \A q \in W \cap DOMAIN c.K : m.regs[q] = c.K[q]
        BY <1>3 DEF Related
    <2> QED BY <1>11, <2>1, <2>2, FixedKept DEF Same
<1> DEFINE v == m.regs[r]
<1>13. StepO(request, m, c.R, c.oracle, FALSE, c.omit) = Branch(m, v, c.oracle, Start(c.R, d))
    BY <1>4, <1>8, Zenon DEF StepO
<1>14. StepO(i2, k, c.C, c.oracle, FALSE, c.omit) = Branch(k, v, c.oracle, Start(c.C, d))
    <2>1. StepO(i2, k, c.C, c.oracle, FALSE, c.omit)
            = Branch(k, Difference(k.regs[i2.rs1], k.regs[i2.rs2]), c.oracle, Start(c.C, i2.block))
        BY <1>6 DEF StepO
    <2>2. Difference(k.regs[i2.rs1], k.regs[i2.rs2]) = v
        BY <1>6, <1>12 DEF Difference
    <2> QED BY <1>6, <1>8, <2>1, <2>2
<1>15. /\ c.cut[b][i] < Len(c.C[b]) /\ request = c.R[b][i + 1] /\ i2 = c.C[b][c.cut[b][i] + 1]
       /\ c.cut[b][i + 1] = c.cut[b][i] + 1
    BY <1>4, <1>5
<1>16. Running(c) /\ (i + 1 < Len(c.R[b]) \/ b = Blocks)
    BY <1>1, <1>3
<1> HIDE DEF request, v, r, lo, W, W2, l
<1> QED BY <1>10, <1>13, <1>14, <1>15, <1>16, GoesBranch

LEMMA NumberIs ==
    ASSUME NEW m, NEW oracle, NEW p, NEW x
    PROVE  Branch(m, Number(x), oracle, p) = JumpedTo(m, IF x # 0 THEN p ELSE m.pc + 1)
BY Zenon DEF Branch, Known, Number, JumpedTo

LEMMA ChosenDecided ==
    ASSUME NEW c, NEW E, NEW T, NEW n, Choosing(c, E, T, n), NEW b, NEW i, NEW m, NEW k,
           At2(c, b, i, m, k), i < Len(c.R[b]),
           DecidedPiece(c.R[b][i + 1], c.C[b], c.cut[b][i], c.cut[b][i + 1], E[b][c.cut[b][i]],
                        c.K, n, T)
    PROVE  Goes(c, m)
<1> DEFINE request == c.R[b][i + 1]
           lo == c.cut[b][i]
           W == Kept(E, T, n, b, lo)
           W2 == Kept(E, T, n, b, c.cut[b][i + 1])
           l == c.n
           r == request.cond.reg
<1>1. /\ Running(c) /\ c.S = {} /\ c.X = {} /\ c.h = Same(l) /\ l \in Nat /\ n <= l /\ n \in Nat
      /\ Body(c.C, E, c.K, n, c.omit)
    BY DEF Choosing, Body
<1>2. ChosenAt(c, E, T, n, b, i, m, k)
    BY ChosenPlace, Zenon
<1>4. request.kind = "CondBr"
    BY DEF DecidedPiece
<1>3. /\ b \in 1 .. Blocks /\ lo \in 0 .. Len(c.C[b]) /\ c.cut[b][i + 1] \in 0 .. Len(c.C[b])
      /\ (i + 1 < Len(c.R[b]) \/ b = Blocks)
      /\ c.W[b][i] = W /\ c.W[b][i + 1] = W2
      /\ \A d \in 1 .. Blocks : c.W[d][0] = Kept(E, T, n, d, 0) /\ Len(c.R[d]) > 0
      /\ Related(W, Same(l), c.K, {}, {}, m, k, l)
      /\ request.block \in (b + 1) .. Blocks
    BY <1>2, <1>4 DEF ChosenAt, Leads
<1>5. PICK d \in (b + 1) .. Blocks : d = request.block
    BY <1>3
<1>6. ASSUME StepO(request, m, c.R, c.oracle, FALSE, c.omit) = JumpedTo(m, m.pc + 1),
             c.cut[b][i + 1] = lo
      PROVE  Goes(c, m)
    <2>1. c.cut[b][i + 1] = c.cut[b][i] /\ c.W[b][i + 1] \subseteq c.W[b][i]
        BY <1>3, <1>6
    <2> QED BY <1>1, <1>3, <1>6, <2>1, GoesAlone
<1>7. CASE request.cond.kind = "Undef"
    <2>1. c.cut[b][i + 1] = lo
        BY <1>7 DEF DecidedPiece
    <2>2. StepO(request, m, c.R, c.oracle, FALSE, c.omit) = JumpedTo(m, m.pc + 1)
        BY <1>4, <1>7, Zenon DEF StepO, JumpedTo
    <2> QED BY <1>6, <2>1, <2>2
<1>8. CASE request.cond.kind = "Imm"
    <2>1. /\ r \in (E[b][lo] \cap CodeRegs(n)) \ T /\ r \in DOMAIN c.K
          /\ c.K[r] = Number(request.cond.imm)
          /\ \/ request.cond.imm = 1 /\ c.cut[b][i + 1] = lo + 1 /\ c.C[b][lo + 1] = J(request.block)
             \/ request.cond.imm = 0 /\ c.cut[b][i + 1] = lo
        BY <1>8, Zenon DEF DecidedPiece
    <2>2. m.regs[r] = Number(request.cond.imm)
        BY <1>3, <2>1, Zenon DEF Related, Kept
    <2>3. StepO(request, m, c.R, c.oracle, FALSE, c.omit)
            = JumpedTo(m, IF request.cond.imm # 0 THEN Start(c.R, d) ELSE m.pc + 1)
        <3>1. StepO(request, m, c.R, c.oracle, FALSE, c.omit)
                = Branch(m, m.regs[r], c.oracle, Start(c.R, d))
            BY <1>4, <1>5, <1>8 DEF StepO
        <3>2. PICK x : x = request.cond.imm
            OBVIOUS
        <3>3. StepO(request, m, c.R, c.oracle, FALSE, c.omit)
                = Branch(m, Number(x), c.oracle, Start(c.R, d))
            BY <2>2, <3>1, <3>2
        <3>4. Branch(m, Number(x), c.oracle, Start(c.R, d))
                = JumpedTo(m, IF x # 0 THEN Start(c.R, d) ELSE m.pc + 1)
            BY NumberIs, Zenon
        <3> HIDE DEF request, r
        <3> QED BY <3>2, <3>3, <3>4
    <2>4. CASE request.cond.imm = 0 /\ c.cut[b][i + 1] = lo
        <3>1. StepO(request, m, c.R, c.oracle, FALSE, c.omit) = JumpedTo(m, m.pc + 1)
            BY <2>3, <2>4
        <3> QED BY <1>6, <2>4, <3>1
    <2>5. CASE request.cond.imm = 1 /\ c.cut[b][i + 1] = lo + 1 /\ c.C[b][lo + 1] = J(request.block)
        <3>1. StepO(request, m, c.R, c.oracle, FALSE, c.omit) = JumpedTo(m, Start(c.R, d))
            <4>1. request.cond.imm # 0
                BY <2>5
            <4> HIDE DEF request
            <4> QED BY <2>3, <4>1
        <3>2. StepO(J(d), k, c.C, c.oracle, FALSE, c.omit) = JumpedTo(k, Start(c.C, d))
            BY DEF StepO, JumpedTo, J
        <3>3. lo + 1 \in 1 .. Len(c.C[b]) /\ lo < Len(c.C[b]) /\ (lo + 1) - 1 = lo
            <4>1. Len(c.C[b]) \in Nat
                BY <1>1, <1>3, RunningIs
            <4> DEFINE z == Len(c.C[b])
                       hi == c.cut[b][i + 1]
            <4>2. lo \in 0 .. z /\ hi \in 0 .. z /\ z \in Nat /\ hi = lo + 1
                BY <1>3, <2>5, <4>1
            <4> HIDE DEF lo, z, hi
            <4>3. lo + 1 \in 1 .. z /\ lo < z /\ (lo + 1) - 1 = lo
                BY <4>2, NextPlace, Zenon
            <4> QED BY <4>3 DEF z, lo
        <3>4. E[d][0] \subseteq E[b][lo]
            <4>1. PICK j \in 1 .. Len(c.C[b]) : j = lo + 1 /\ j - 1 = lo
                BY <3>3
            <4>2. BodyAt(c.C, E, c.K, n, c.omit, b, j)
                BY <1>1, <1>3, BodyPlace
            <4>3. c.C[b][j] = J(d)
                BY <1>5, <2>5, <4>1
            <4>4. IsTerminator(J(d)) /\ J(d).block = d
                BY DEF J, IsTerminator
            <4> QED BY <4>1, <4>2, <4>3, <4>4 DEF BodyAt
        <3>5. d \in 1 .. Blocks
            BY <1>3, LaterBlock, Zenon
        <3>6. c.W[d][0] \subseteq c.W[b][i] /\ Len(c.R[d]) > 0
            BY <1>3, <3>4, <3>5 DEF Kept
        <3>7. /\ c.cut[b][i] < Len(c.C[b]) /\ request = c.R[b][i + 1]
              /\ J(d) = c.C[b][c.cut[b][i] + 1]
            BY <1>5, <2>5, <3>3
        <3> HIDE DEF request
        <3> QED BY <1>1, <3>1, <3>2, <3>6, <3>7, GoesJumpTo
    <2> QED BY <2>1, <2>4, <2>5, Zenon
<1> QED BY <1>7, <1>8 DEF DecidedPiece

(* The stack pointer is adjusted, in one step or in two. *)
Added(m, v, n) == Went(m, [m.regs EXCEPT ![sp] = v], m.mem, m.seen)

LEMMA AddedIs ==
    ASSUME NEW n, NEW m, Mach(m, n), NEW v
    PROVE  /\ Mach(Added(m, v, n), n) /\ OneOn(m, Added(m, v, n))
           /\ Added(m, v, n).mem = m.mem /\ Added(m, v, n).seen = m.seen
           /\ Added(m, v, n).asked = m.asked /\ Added(m, v, n).regs[sp] = v
           /\ \A q \in RegsOf(n) \ {sp} : Added(m, v, n).regs[q] = m.regs[q]
<1> DEFINE regs == [m.regs EXCEPT ![sp] = v]
           e == Went(m, regs, m.mem, m.seen)
<1>1. m.regs = [r \in RegsOf(n) |-> m.regs[r]] /\ m.mem = [a \in DOMAIN m.mem |-> m.mem[a]]
    BY DEF Mach
<1>2. sp \in RegsOf(n)
    BY CodeRegsIn
<1>3. /\ regs = [q \in RegsOf(n) |-> regs[q]] /\ regs[sp] = v
      /\ \A q \in RegsOf(n) \ {sp} : regs[q] = m.regs[q]
    BY <1>1, <1>2, SetIs
<1> HIDE DEF regs
<1>4. Mach(e, n) /\ e.regs = regs /\ e.mem = m.mem /\ e.seen = m.seen
      /\ e.asked = m.asked /\ e.pc = m.pc + 1
    BY <1>1, <1>3, WentMach
<1>5. e = Added(m, v, n)
    BY DEF Added, regs
<1> HIDE DEF e
<1> QED BY <1>3, <1>4, <1>5 DEF OneOn

LEMMA AdjustIs ==
    ASSUME NEW n, NEW m, Mach(m, n), NEW request, request.kind = "SpAdjust", NEW blocks,
           NEW oracle, NEW omit
    PROVE  StepO(request, m, blocks, oracle, FALSE, omit)
             = Added(m, Sum2(m.regs[sp], Number(request.offset)), n)
BY DEF StepO, Mach, Went, Added

LEMMA AdjustOne ==
    ASSUME NEW n, NEW m, Mach(m, n), NEW offset, NEW omit
    PROVE  Effect(AluRRI(sp, sp, offset), m, omit) = Added(m, Sum2(m.regs[sp], Number(offset)), n)
BY EffectAluRRI DEF AluRRI, Added

(* The register for a large offset, and then the addition. *)
LEMMA AdjustTwo ==
    ASSUME NEW n, NEW m, Mach(m, n), NEW offset, NEW omit, NEW t \in CodeRegs(n), IsVReg(t),
           NEW m1, m1 = Effect(Li(t, offset), m, omit),
           NEW m2, m2 = Effect(AluRRR(sp, sp, t), m1, omit)
    PROVE  /\ OneOn(m, m1) /\ OneOn(m1, m2) /\ Mach(m1, n) /\ Mach(m2, n)
           /\ m2.mem = m.mem /\ m2.seen = m.seen /\ m2.asked = m.asked
           /\ m2.regs[sp] = Sum2(m.regs[sp], Number(offset))
           /\ \A q \in RegsOf(n) \ {sp, t} : m2.regs[q] = m.regs[q]
<1> DEFINE regs == [m.regs EXCEPT ![t] = Number(offset)]
           e == Went(m, regs, m.mem, m.seen)
<1>1. m.regs = [r \in RegsOf(n) |-> m.regs[r]] /\ m.mem = [a \in DOMAIN m.mem |-> m.mem[a]]
    BY DEF Mach
<1>2. t \in RegsOf(n) /\ t # sp /\ sp \in RegsOf(n)
    BY CodeRegsIn, RegsDiffer
<1>3. /\ regs = [q \in RegsOf(n) |-> regs[q]] /\ regs[t] = Number(offset)
      /\ \A q \in RegsOf(n) \ {t} : regs[q] = m.regs[q]
    BY <1>1, <1>2, SetIs
<1>4. m1 = e
    <2>1. Li(t, offset).kind = "Li" /\ Li(t, offset).rd = t /\ Li(t, offset).imm = offset
        BY DEF Li
    <2>2. Effect(Li(t, offset), m, omit)
            = Went(m, [m.regs EXCEPT ![Li(t, offset).rd] = Number(Li(t, offset).imm)], m.mem, m.seen)
        BY <2>1, EffectLi
    <2> QED BY <2>1, <2>2
<1> HIDE DEF regs
<1>5. Mach(m1, n) /\ m1.regs = regs /\ m1.mem = m.mem /\ m1.seen = m.seen
      /\ m1.asked = m.asked /\ m1.pc = m.pc + 1
    <2>1. Mach(e, n) /\ e.regs = regs /\ e.mem = m.mem /\ e.seen = m.seen
          /\ e.asked = m.asked /\ e.pc = m.pc + 1
        BY <1>1, <1>3, WentMach
    <2> HIDE DEF e
    <2> QED BY <1>4, <2>1
<1>6. m2 = Added(m1, Sum2(m1.regs[sp], m1.regs[t]), n)
    <2>1. /\ AluRRR(sp, sp, t).kind = "AluRRR" /\ AluRRR(sp, sp, t).rd = sp
          /\ AluRRR(sp, sp, t).rs1 = sp /\ AluRRR(sp, sp, t).rs2 = t
        BY DEF AluRRR
    <2>2. Effect(AluRRR(sp, sp, t), m1, omit)
            = Went(m1, [m1.regs EXCEPT ![AluRRR(sp, sp, t).rd]
                          = Sum2(m1.regs[AluRRR(sp, sp, t).rs1], m1.regs[AluRRR(sp, sp, t).rs2])],
                   m1.mem, m1.seen)
        BY <1>5, <2>1, EffectAluRRR
    <2> QED BY <2>1, <2>2 DEF Added
<1>7. m1.regs[sp] = m.regs[sp] /\ m1.regs[t] = Number(offset)
    BY <1>2, <1>3, <1>5
<1> DEFINE v == Sum2(m.regs[sp], Number(offset))
<1>8. m2 = Added(m1, v, n)
    BY <1>6, <1>7
<1> HIDE DEF v, e
<1>9. /\ Mach(m2, n) /\ OneOn(m1, m2) /\ m2.mem = m1.mem /\ m2.seen = m1.seen
      /\ m2.asked = m1.asked /\ m2.regs[sp] = v
      /\ \A q \in RegsOf(n) \ {sp} : m2.regs[q] = m1.regs[q]
    BY <1>5, <1>8, AddedIs
<1>10. \A q \in RegsOf(n) \ {sp, t} : m2.regs[q] = m.regs[q]
    BY <1>3, <1>5, <1>9
<1>11. OneOn(m, m1)
    BY <1>5 DEF OneOn
<1> QED BY <1>5, <1>9, <1>10, <1>11 DEF v

AdjustFits(n, W, W2, m, k, K, offset, e, f) ==
    /\ W \in SUBSET CodeRegs(n) /\ W2 \subseteq W
    /\ Related(W, Same(n), K, {}, {}, m, k, n) /\ sp \notin DOMAIN K /\ sp \in W
    /\ e = Added(m, Sum2(m.regs[sp], Number(offset)), n)
    /\ Mach(f, n) /\ f.mem = k.mem /\ f.seen = k.seen /\ f.asked = k.asked
    /\ f.regs[sp] = Sum2(k.regs[sp], Number(offset))
    /\ \A q \in W2 \ {sp} : f.regs[q] = k.regs[q]

LEMMA AdjustRelated ==
    ASSUME NEW n, NEW W, NEW W2, NEW m, NEW k, NEW K, NEW offset, NEW e, NEW f,
           AdjustFits(n, W, W2, m, k, K, offset, e, f)
    PROVE  Related(W2, Same(n), K, {}, {}, e, f, n) /\ OneOn(m, e)
<1>0. /\ W \in SUBSET CodeRegs(n) /\ W2 \subseteq W
      /\ Related(W, Same(n), K, {}, {}, m, k, n) /\ sp \notin DOMAIN K /\ sp \in W
      /\ e = Added(m, Sum2(m.regs[sp], Number(offset)), n)
      /\ Mach(f, n) /\ f.mem = k.mem /\ f.seen = k.seen /\ f.asked = k.asked
      /\ f.regs[sp] = Sum2(k.regs[sp], Number(offset))
      /\ \A q \in W2 \ {sp} : f.regs[q] = k.regs[q]
    BY DEF AdjustFits
<1> DEFINE v == Sum2(m.regs[sp], Number(offset))
           h == Same(n)
<1>1. /\ Mach(m, n) /\ Unseen({}, m, k)
      /\ \A r \in W : k.regs[h[r]] = m.regs[r]
      /\ \A r \in W \cap DOMAIN K : m.regs[r] = K[r]
    BY <1>0 DEF Related
<1>2. \A r \in W : h[r] = r
    BY <1>0 DEF Same
<1>3. k.regs[sp] = m.regs[sp]
    BY <1>0, <1>1, <1>2
<1> HIDE DEF v, h
<1>4. f.regs[sp] = v
    BY <1>0, <1>3 DEF v
<1>5. /\ Mach(e, n) /\ OneOn(m, e) /\ e.mem = m.mem /\ e.seen = m.seen /\ e.asked = m.asked
      /\ e.regs[sp] = v /\ \A q \in RegsOf(n) \ {sp} : e.regs[q] = m.regs[q]
    <2>1. e = Added(m, v, n)
        BY <1>0 DEF v
    <2> QED BY <1>1, <2>1, AddedIs
<1>6. W \subseteq RegsOf(n)
    BY <1>0, CodeRegsIn
<1>7. \A r \in W2 : f.regs[h[r]] = e.regs[r]
    BY <1>0, <1>1, <1>2, <1>4, <1>5, <1>6
<1>8. \A r \in W2 \cap DOMAIN K : e.regs[r] = K[r]
    BY <1>0, <1>1, <1>5, <1>6
<1>9. Unseen({}, e, f)
    BY <1>0, <1>1, <1>5 DEF Unseen, SameMem
<1>10. Related(W2, h, K, {}, {}, e, f, n)
    BY <1>0, <1>5, <1>7, <1>8, <1>9 DEF Related
<1> QED BY <1>5, <1>10 DEF h

(* The run of c.C after j instructions of block b. *)
AtC(c, b, j, k) == OnC(c, k) /\ k.pc = c.stC[b] + j

Straight(inst) == inst.kind \notin {"J", "Br", "CondBr", "SpAdjust"}

LEMMA StepIn ==
    ASSUME NEW c, Running(c), NEW b \in 1 .. Blocks, NEW j \in Nat, j < Len(c.C[b]), NEW k, AtC(c, b, j, k),
           NEW inst, inst = c.C[b][j + 1], Straight(inst),
           NEW f, f = Effect(inst, k, c.omit), OneOn(k, f)
    PROVE  AtC(c, b, j + 1, f)
<1>1. Len(c.C[b]) \in Nat /\ c.stC[b] \in Nat
    <2>1. b \in 1 .. (Blocks + 1)
        BY RegAllocAssumption
    <2> QED BY <2>1, RunningIs
<1>2. PICK i \in 1 .. Len(c.C[b]) : i = j + 1 /\ i - 1 = j
    BY <1>1
<1>3. k.pc = c.stC[b] + j /\ f.pc = k.pc + 1 /\ OnC(c, k)
    BY DEF AtC, OneOn
<1>4. k.pc = c.stC[b] + i - 1 /\ f.pc \in Nat /\ k.pc < f.pc /\ f.pc = c.stC[b] + (j + 1)
    <2> DEFINE q == c.stC[b]
    <2>1. k.pc = q + j /\ f.pc = k.pc + 1 /\ q \in Nat /\ i = j + 1
        BY <1>1, <1>2, <1>3
    <2> HIDE DEF q
    <2>2. PICK p, p2 : p = k.pc /\ p2 = f.pc
        OBVIOUS
    <2>3. p \in Nat /\ p2 \in Nat /\ p = q + i - 1 /\ p < p2 /\ p2 = q + (j + 1)
        BY <2>1, <2>2
    <2>4. k.pc = q + i - 1 /\ f.pc \in Nat /\ k.pc < f.pc /\ f.pc = q + (j + 1)
        BY <2>2, <2>3, Zenon
    <2> QED BY <2>4 DEF q
<1>5. f = StepO(c.C[b][i], k, c.C, c.oracle, FALSE, c.omit)
    BY <1>2 DEF StepO, Straight
<1>6. OnC(c, f)
    BY <1>3, <1>4, <1>5, StepC
<1> QED BY <1>4, <1>6 DEF AtC

LEMMA AdjustDefs ==
    ASSUME NEW t, NEW x
    PROVE  /\ AluRRI(sp, sp, x).kind # "J" /\ Defs(AluRRI(sp, sp, x)) = {sp}
           /\ Li(t, x).kind # "J" /\ Defs(Li(t, x)) = {t}
           /\ AluRRR(sp, sp, t).kind # "J" /\ Defs(AluRRR(sp, sp, t)) = {sp}
BY DEF AluRRI, AluRRR, Li, Defs, Defining

LEMMA ChosenAdjust ==
    ASSUME NEW c, NEW E, NEW T, NEW n, Choosing(c, E, T, n), NEW b, NEW i, NEW m, NEW k,
           At2(c, b, i, m, k), i < Len(c.R[b]),
           AdjustPiece(c.R[b][i + 1], c.C[b], c.cut[b][i], c.cut[b][i + 1], T)
    PROVE  Goes(c, m)
<1> DEFINE request == c.R[b][i + 1]
           lo == c.cut[b][i]
           hi == c.cut[b][i + 1]
           W == Kept(E, T, n, b, lo)
           W2 == Kept(E, T, n, b, hi)
           l == c.n
           x == request.offset
           e == Added(m, Sum2(m.regs[sp], Number(x)), l)
<1>1. /\ Running(c) /\ c.S = {} /\ c.X = {} /\ c.h = Same(l) /\ l \in Nat /\ n <= l /\ n \in Nat
      /\ Body(c.C, E, c.K, n, c.omit) /\ T \subseteq CodeRegs(n)
    BY DEF Choosing, Body, Pieces
<1>2. ChosenAt(c, E, T, n, b, i, m, k)
    BY ChosenPlace
<1>3. request.kind = "SpAdjust"
    BY DEF AdjustPiece
<1>4. /\ b \in 1 .. Blocks /\ lo \in 0 .. Len(c.C[b]) /\ hi \in 0 .. Len(c.C[b])
      /\ (i + 1 < Len(c.R[b]) \/ b = Blocks)
      /\ c.W[b][i] = W /\ c.W[b][i + 1] = W2
      /\ Related(W, Same(l), c.K, {}, {}, m, k, l)
    BY <1>2, <1>3 DEF ChosenAt
<1>5. W \in SUBSET CodeRegs(l) /\ W2 \in SUBSET CodeRegs(l)
    BY <1>1, KeptIn
<1>6. sp \notin DOMAIN c.K /\ sp \in W
    BY FixedKept, RegsDiffer DEF Fixed
<1>7. Mach(m, l) /\ Mach(k, l) /\ \A q \in W : k.regs[q] = m.regs[q]
    <2>1. Mach(m, l) /\ Mach(k, l) /\ \A q \in W : k.regs[Same(l)[q]] = m.regs[q]
        BY <1>4 DEF Related
    <2> QED BY <1>5, <2>1 DEF Same
<1>8. e = StepO(request, m, c.R, c.oracle, FALSE, c.omit)
    <2>1. StepO(request, m, c.R, c.oracle, FALSE, c.omit)
            = Added(m, Sum2(m.regs[sp], Number(request.offset)), l)
        <3>1. Mach(m, l)
            BY <1>7
        <3> HIDE DEF l, request, W, W2, e, x, lo, hi
        <3> QED BY <1>3, <3>1, AdjustIs, Zenon
    <2> QED BY <2>1
<1>9. Len(c.C[b]) \in Nat /\ AtC(c, b, lo, k) /\ OnR(c, m) /\ lo \in Nat
    <2>1. Len(c.C[b]) \in Nat
        BY <1>1, <1>4, RunningIs
    <2> QED BY <1>4, <2>1 DEF At2, AtC
<1>10. ASSUME NEW f, Mach(f, l), f.mem = k.mem, f.seen = k.seen, f.asked = k.asked,
              f.regs[sp] = Sum2(k.regs[sp], Number(x)),
              \A q \in W2 \ {sp} : f.regs[q] = k.regs[q],
              W2 \subseteq W, AtC(c, b, hi, f)
       PROVE  Goes(c, m)
    <2> HIDE DEF W, W2, x, l, e
    <2>1. Related(W2, Same(l), c.K, {}, {}, e, f, l) /\ OneOn(m, e)
        <3>1. e = Added(m, Sum2(m.regs[sp], Number(x)), l)
            BY DEF e
        <3>2. /\ W2 \subseteq W /\ W \in SUBSET CodeRegs(l)
              /\ Related(W, Same(l), c.K, {}, {}, m, k, l)
            BY <1>4, <1>5, <1>10
        <3>3. AdjustFits(l, W, W2, m, k, c.K, x, e, f)
            BY <1>6, <1>10, <3>1, <3>2 DEF AdjustFits
        <3> QED BY <3>3, AdjustRelated
    <2>2. AheadR(c, b, i, m)
        BY <1>1, Ahead
    <2>3. OnR(c, e)
        <3>1. /\ i + 1 \in 1 .. Len(c.R[b]) /\ m.pc = c.stR[b] + (i + 1) - 1
              /\ e.pc \in Nat /\ m.pc < e.pc
            BY <2>1, <2>2 DEF AheadR, OneOn
        <3> QED BY <1>1, <1>4, <1>8, <1>9, <3>1, StepR
    <2>4. Related(c.W[b][i + 1], c.h, c.K, c.S, c.X, e, f, c.n)
        BY <1>1, <1>4, <2>1 DEF l
    <2>5. OnC(c, f) /\ f.pc = c.stC[b] + c.cut[b][i + 1]
        BY <1>10 DEF AtC
    <2>6. i + 1 < Len(c.R[b]) \/ b = Blocks
        BY <1>4
    <2> HIDE DEF hi, lo, request
    <2> QED BY <1>1, <2>1, <2>3, <2>4, <2>5, <2>6, GoesWith
<1>11. CASE hi = lo + 1 /\ c.C[b][lo + 1] = AluRRI(sp, sp, x)
    <2> DEFINE i1 == AluRRI(sp, sp, x)
               f == Effect(i1, k, c.omit)
               v == Sum2(k.regs[sp], Number(x))
    <2>1. f = Added(k, v, l)
        BY <1>7, AdjustOne
    <2>2. Straight(i1)
        BY DEF Straight, AluRRI
    <2>3. /\ Mach(f, l) /\ OneOn(k, f) /\ f.mem = k.mem /\ f.seen = k.seen /\ f.asked = k.asked
          /\ f.regs[sp] = v /\ \A q \in RegsOf(l) \ {sp} : f.regs[q] = k.regs[q]
        <3> HIDE DEF v, f
        <3> QED BY <1>7, <2>1, AddedIs
    <2>4. lo + 1 \in 1 .. Len(c.C[b]) /\ lo < Len(c.C[b]) /\ (lo + 1) - 1 = lo
        <3> DEFINE z == Len(c.C[b])
        <3>1. lo \in 0 .. z /\ hi \in 0 .. z /\ z \in Nat /\ hi = lo + 1
            BY <1>4, <1>9, <1>11
        <3> HIDE DEF lo, z, hi
        <3>2. lo + 1 \in 1 .. z /\ lo < z /\ (lo + 1) - 1 = lo
            BY <3>1
        <3> QED BY <3>2 DEF z, lo
    <2>5. AtC(c, b, lo + 1, f)
        <3>1. i1 = c.C[b][lo + 1] /\ f = Effect(i1, k, c.omit)
            BY <1>11
        <3> HIDE DEF i1, f, lo
        <3> QED BY <1>1, <1>4, <1>9, <2>2, <2>3, <2>4, <3>1, StepIn
    <2>6. AtC(c, b, hi, f)
        BY <1>11, <2>5
    <2>7. W2 \subseteq W
        <3>1. PICK j \in 1 .. Len(c.C[b]) : j = lo + 1 /\ j - 1 = lo
            BY <2>4
        <3>2. BodyAt(c.C, E, c.K, n, c.omit, b, j)
            BY <1>1, <1>4, BodyPlace
        <3>3. c.C[b][j].kind # "J" /\ Defs(c.C[b][j]) = {sp}
            <4>1. c.C[b][j] = AluRRI(sp, sp, x)
                BY <1>11, <3>1
            <4> HIDE DEF x, lo
            <4> QED BY <4>1, AdjustDefs
        <3>4. E[b][hi] \subseteq E[b][lo] \cup {sp}
            BY <1>11, <3>1, <3>2, <3>3, Zenon DEF BodyAt
        <3> QED BY <3>4 DEF Kept, Fixed
    <2>8. \A q \in W2 \ {sp} : f.regs[q] = k.regs[q]
        <3>1. CodeRegs(l) \subseteq RegsOf(l)
            BY CodeRegsIn
        <3> HIDE DEF f, W2
        <3> QED BY <1>5, <2>3, <3>1
    <2> HIDE DEF f, v, W, W2, x, lo, hi
    <2> QED BY <1>10, <2>3, <2>6, <2>7, <2>8 DEF v
<1>12. ASSUME NEW t \in T, hi = lo + 2, c.C[b][lo + 1] = Li(t, x), c.C[b][lo + 2] = AluRRR(sp, sp, t)
       PROVE  Goes(c, m)
    <2> DEFINE i1 == Li(t, x)
               i2 == AluRRR(sp, sp, t)
               f1 == Effect(i1, k, c.omit)
               f == Effect(i2, f1, c.omit)
               v == Sum2(k.regs[sp], Number(x))
    <2>1. t \in CodeRegs(n) /\ IsVReg(t) /\ t \in CodeRegs(l)
        <3>1. IsVReg(t)
            BY DEF Choosing, Pieces
        <3>2. CodeRegs(n) \subseteq CodeRegs(l)
            BY <1>1, MoreCodeRegs
        <3> QED BY <1>1, <3>1, <3>2
    <2>2. Straight(i1) /\ Straight(i2)
        BY DEF Straight, AluRRR, Li
    <2>3. /\ OneOn(k, f1) /\ OneOn(f1, f) /\ Mach(f1, l) /\ Mach(f, l)
          /\ f.mem = k.mem /\ f.seen = k.seen /\ f.asked = k.asked /\ f.regs[sp] = v
          /\ \A q \in RegsOf(l) \ {sp, t} : f.regs[q] = k.regs[q]
        <3> HIDE DEF l, x
        <3> QED BY <1>7, <2>1, AdjustTwo
    <2>4. /\ lo + 1 \in 1 .. Len(c.C[b]) /\ lo < Len(c.C[b]) /\ (lo + 1) - 1 = lo
          /\ lo + 2 \in 1 .. Len(c.C[b]) /\ lo + 1 < Len(c.C[b]) /\ (lo + 1) + 1 = lo + 2
          /\ (lo + 2) - 1 = lo + 1 /\ lo + 1 \in Nat
        <3> DEFINE z == Len(c.C[b])
        <3>1. lo \in 0 .. z /\ hi \in 0 .. z /\ z \in Nat /\ hi = lo + 2
            BY <1>4, <1>9, <1>12
        <3> HIDE DEF lo, z, hi
        <3>2. /\ lo + 1 \in 1 .. z /\ lo < z /\ (lo + 1) - 1 = lo
              /\ lo + 2 \in 1 .. z /\ lo + 1 < z /\ (lo + 1) + 1 = lo + 2
              /\ (lo + 2) - 1 = lo + 1 /\ lo + 1 \in Nat
            BY <3>1
        <3> QED BY <3>2 DEF z, lo
    <2>5. AtC(c, b, lo + 1, f1)
        <3>1. i1 = c.C[b][lo + 1] /\ f1 = Effect(i1, k, c.omit)
            BY <1>12
        <3> HIDE DEF i1, f1, lo
        <3> QED BY <1>1, <1>4, <1>9, <2>2, <2>3, <2>4, <3>1, StepIn
    <2>6. AtC(c, b, hi, f)
        <3>1. i2 = c.C[b][(lo + 1) + 1] /\ f = Effect(i2, f1, c.omit)
            BY <1>12, <2>4
        <3> DEFINE q == lo + 1
        <3>2. q \in Nat /\ q < Len(c.C[b]) /\ AtC(c, b, q, f1) /\ i2 = c.C[b][q + 1] /\ q + 1 = hi
            BY <1>12, <2>4, <2>5, <3>1
        <3> HIDE DEF i2, f1, f, lo, q, hi
        <3>3. AtC(c, b, q + 1, f)
            BY <1>1, <1>4, <2>2, <2>3, <3>1, <3>2, StepIn
        <3> QED BY <3>2, <3>3
    <2>7. W2 \subseteq W
        <3>1. PICK j \in 1 .. Len(c.C[b]) : j = lo + 1 /\ j - 1 = lo
            BY <2>4
        <3>2. BodyAt(c.C, E, c.K, n, c.omit, b, j)
            BY <1>1, <1>4, BodyPlace
        <3>3. c.C[b][j].kind # "J" /\ Defs(c.C[b][j]) = {t}
            <4>1. c.C[b][j] = Li(t, x)
                BY <1>12, <3>1, Zenon
            <4> HIDE DEF x, lo
            <4> QED BY <4>1, AdjustDefs
        <3>4. E[b][lo + 1] \subseteq E[b][lo] \cup {t}
            BY <3>1, <3>2, <3>3, Zenon DEF BodyAt
        <3>5. PICK j2 \in 1 .. Len(c.C[b]) : j2 = lo + 2 /\ j2 - 1 = lo + 1
            BY <2>4
        <3>6. BodyAt(c.C, E, c.K, n, c.omit, b, j2)
            BY <1>1, <1>4, BodyPlace
        <3>7. c.C[b][j2].kind # "J" /\ Defs(c.C[b][j2]) = {sp}
            <4>1. c.C[b][j2] = AluRRR(sp, sp, t)
                BY <1>12, <3>5
            <4> HIDE DEF x, lo
            <4> QED BY <4>1, AdjustDefs
        <3>8. E[b][hi] \subseteq E[b][lo + 1] \cup {sp}
            BY <1>12, <3>5, <3>6, <3>7, Zenon DEF BodyAt
        <3>9. E[b][hi] \subseteq E[b][lo] \cup {sp, t}
            BY <3>4, <3>8
        <3> QED BY <3>9 DEF Kept, Fixed
    <2>8. \A q \in W2 \ {sp} : f.regs[q] = k.regs[q]
        <3>1. CodeRegs(l) \subseteq RegsOf(l)
            BY CodeRegsIn
        <3>2. t \notin W2
            BY Zenon DEF Kept
        <3> HIDE DEF f, W2
        <3> QED BY <1>5, <2>3, <3>1, <3>2
    <2> HIDE DEF f, f1, i1, i2, v, W, W2, x, lo, hi
    <2> QED BY <1>10, <2>3, <2>6, <2>7, <2>8 DEF v
<1>13. \/ hi = lo + 1 /\ c.C[b][lo + 1] = AluRRI(sp, sp, x)
       \/ \E t \in T : hi = lo + 2 /\ c.C[b][lo + 1] = Li(t, x) /\ c.C[b][lo + 2] = AluRRR(sp, sp, t)
    BY DEF AdjustPiece
<1> HIDE DEF hi, lo, x
<1> QED BY <1>11, <1>12, <1>13

LEMMA ChosenGoes ==
    ASSUME NEW c, NEW E, NEW T, NEW n, Choosing(c, E, T, n), NEW b, NEW i, NEW m, NEW k,
           At2(c, b, i, m, k), i < Len(c.R[b])
    PROVE  Goes(c, m)
<1>1. ChosenAt(c, E, T, n, b, i, m, k)
    BY ChosenPlace
<1>2. Piece(c.R[b][i + 1], c.C[b], c.cut[b][i], c.cut[b][i + 1], E[b][c.cut[b][i]], c.K, n, T)
    BY <1>1 DEF ChosenAt
<1> QED BY <1>2, ChosenPlain, ChosenBranch, ChosenDecided, ChosenAdjust DEF Piece

LEMMA SelectEqual ==
    ASSUME NEW R, NEW C, NEW E, NEW cut, NEW T, NEW K, NEW n, NEW omit, Body(C, E, K, n, omit),
           Pieces(R, C, E, cut, T, K, n), Closed(R), NEW l, l \in Nat, n <= l
    PROVE  /\ Equal(R, C, omit, l)
           /\ Len(FlattenSeq(R)) \in Nat /\ Len(FlattenSeq(C)) \in Nat
<1>0. Blocks \in Nat \ {0} /\ 1 \in 1 .. Blocks /\ Blocks \in 1 .. Blocks
    BY RegAllocAssumption
<1>1. PICK S : Code(R, S)
    BY DEF Pieces
<1>2. /\ n \in Nat /\ Code(C, Wanted(n, omit)) /\ KnownOk(K, n) /\ Flow(C, E, omit)
    BY DEF Body
<1>3. PICK stR : Layout(R, Blocks, stR)
    BY <1>0, <1>1, FlattenLayout DEF Code
<1>4. PICK stC : Layout(C, Blocks, stC)
    BY <1>0, <1>2, FlattenLayout DEF Code
<1>5. Len(FlattenSeq(R)) \in Nat /\ Len(FlattenSeq(C)) \in Nat
    <2>1. FlattenSeq(R) \in Seq(S) /\ FlattenSeq(C) \in Seq(Wanted(n, omit))
        BY <1>0, <1>1, <1>2, FlattenLayout DEF Code
    <2> QED BY <2>1
<1> SUFFICES ASSUME NEW oracle, NEW f0, NEW g0,
                    IsRun(f0, R, oracle, FALSE, omit, l), IsRun(g0, C, oracle, FALSE, omit, l)
             PROVE  Sees(f0, R) = Sees(g0, C)
    BY <1>5 DEF Equal
<1> DEFINE needs == [b \in 1 .. Blocks |-> [i \in 0 .. Len(R[b]) |-> Kept(E, T, n, b, cut[b][i])]]
<1>6. \A b \in 1 .. Blocks : \A i \in 0 .. Len(R[b]) : needs[b][i] = Kept(E, T, n, b, cut[b][i])
    OBVIOUS
<1> HIDE DEF needs
<1>7. PICK c : /\ c.R = R /\ c.C = C /\ c.stR = stR /\ c.stC = stC
               /\ c.cut = cut /\ c.W = needs /\ c.h = Same(l) /\ c.K = K
               /\ c.S = {} /\ c.X = {} /\ c.n = l /\ c.omit = omit
               /\ c.oracle = oracle /\ c.f = f0 /\ c.g = g0
    <2>1. \E c : ContextOf(c, R, C, stR, stC, cut, needs, Same(l), K, {}, {}, l, omit, oracle, f0, g0)
        BY ContextExists, Zenon
    <2> QED BY <2>1, Zenon DEF ContextOf
<1>8. Running(c)
    <2>1. CutOk(R, C, cut)
        BY DEF Pieces
    <2>2. \A b \in 1 .. Blocks : /\ \A i \in 0 .. Len(c.R[b]) : c.cut[b][i] \in 0 .. Len(c.C[b])
                                 /\ c.cut[b][0] = 0
                                 /\ c.cut[b][Len(c.R[b])] = Len(c.C[b])
        BY <1>7, <2>1 DEF CutOk
    <2> QED BY <1>1, <1>2, <1>3, <1>4, <1>7, <2>2 DEF Running
<1>9. Choosing(c, E, T, n)
    <2>1. \A b \in 1 .. Blocks : \A i \in 0 .. Len(c.R[b]) :
             c.W[b][i] = Kept(E, T, n, b, c.cut[b][i])
        BY <1>6, <1>7
    <2>2. Body(c.C, E, c.K, n, c.omit) /\ Pieces(c.R, c.C, E, c.cut, T, c.K, n) /\ Closed(c.R)
        BY <1>7
    <2>3. c.S = {} /\ c.X = {} /\ c.h = Same(c.n) /\ c.n \in Nat /\ n <= c.n
        BY <1>7
    <2> QED BY <1>8, <2>1, <2>2, <2>3 DEF Choosing
<1>10. \E m, k : At2(c, 1, 0, m, k)
    <2> DEFINE e == Entry(PRegs, l)
    <2>1. Mach(e, l) /\ e.regs[zero] = Number(0)
        BY EntryIs
    <2> HIDE DEF e
    <2>2. Len(R[1]) \in Nat /\ Len(R[1]) > 0 /\ 0 \in 0 .. Len(R[1]) /\ cut[1][0] = 0
        <3>1. Len(R[1]) \in Nat
            BY <1>0, <1>1 DEF Code
        <3>2. Len(R[1]) > 0
            BY <1>0 DEF Closed
        <3>3. cut[1][0] = 0
            BY <1>0 DEF Pieces, CutOk
        <3> QED BY <3>1, <3>2, <3>3
    <2>3. c.W[1][0] = Kept(E, T, n, 1, 0)
        <3>1. needs[1][0] = Kept(E, T, n, 1, cut[1][0])
            BY <1>0, <1>6, <2>2
        <3> QED BY <1>7, <2>2, <3>1
    <2>4. c.W[1][0] \subseteq Fixed
        BY <1>2, <2>3 DEF Kept, Flow
    <2>5. \A r \in c.W[1][0] : c.h[r] = r
        BY <1>7, <2>4, CodeRegsIn DEF Same, Fixed
    <2>6. \A r \in c.W[1][0] \cap DOMAIN c.K : e.regs[r] = c.K[r]
        <3>1. Fixed \cap DOMAIN c.K = {zero} /\ c.K[zero] = Number(0)
            BY <1>9, FixedKept
        <3> QED BY <2>1, <2>4, <3>1
    <2>7. Unseen({}, e, e)
        BY DEF Unseen, SameMem
    <2>8. Related(c.W[1][0], c.h, c.K, {}, {}, e, e, l)
        BY <2>1, <2>5, <2>6, <2>7 DEF Related
    <2>9. Len(c.R[1]) > 0
        BY <1>7, <2>2
    <2>10. Related(c.W[1][0], c.h, c.K, c.S, c.X, Entry(PRegs, c.n), Entry(PRegs, c.n), c.n)
        BY <1>7, <2>8 DEF e
    <2> QED BY <1>8, <2>9, <2>10, RunsStart
<1>11. \A b, i, m, k : At2(c, b, i, m, k) /\ i < Len(c.R[b]) => Goes(c, m)
    BY <1>9, ChosenGoes
<1>12. PICK m, k : At2(c, Blocks, Len(c.R[Blocks]), m, k)
    BY <1>8, <1>10, <1>11, WalkEnds
<1>13. {a0, sp} \subseteq c.W[Blocks][Len(c.R[Blocks])] \ c.S
    <2>1. Len(R[Blocks]) \in Nat
        BY <1>0, <1>1 DEF Code
    <2>2. Len(R[Blocks]) \in 0 .. Len(R[Blocks])
        BY <2>1
    <2>3. c.W[Blocks][Len(c.R[Blocks])] = Kept(E, T, n, Blocks, cut[Blocks][Len(R[Blocks])])
        BY <1>0, <1>6, <1>7, <2>2
    <2>4. Fixed \subseteq Kept(E, T, n, Blocks, cut[Blocks][Len(R[Blocks])])
        BY <1>9, FixedKept
    <2> QED BY <1>7, <2>3, <2>4 DEF Fixed
<1>14. c.h[a0] = a0 /\ c.h[sp] = sp
    BY <1>7, CodeRegsIn DEF Same
<1>15. Sees(c.f, c.R) = Sees(c.g, c.C)
    BY <1>8, <1>12, <1>13, <1>14, WalkSees
<1> QED BY <1>7, <1>15

-----------------------------------------------------------------------------
(* Code that grows, with the requests it is for.  In block c, the code     *)
(* after lo is for a request still to come.                                *)
With(A, c, x) == [A EXCEPT ![c] = Append(@, x)]

(* The registers that are defined, with inst after z instructions of block *)
(* c: where it jumps to, no more than here.                                *)
Grown(E, c, z, inst) ==
    [b \in 1 .. Blocks |-> [j \in Nat |->
       IF b = c /\ j = z + 1 THEN E[c][z] \cup Defs(inst)
       ELSE IF IsTerminator(inst) /\ b = inst.block /\ j = 0 THEN E[b][j] \cap E[c][z]
       ELSE E[b][j]]]

Half(R, C, E, cut, T, K, n, omit, c, lo) ==
    /\ Body(C, E, K, n, omit)
    /\ \E S : Code(R, S)
    /\ T \subseteq CodeRegs(n) /\ \A t \in T : IsVReg(t)
    /\ c \in 1 .. Blocks /\ lo \in 0 .. Len(C[c])
    /\ \A b \in (c + 1) .. Blocks : R[b] = <<>> /\ C[b] = <<>>
    /\ \A b \in 1 .. Blocks :
          /\ \A i \in 0 .. Len(R[b]) : cut[b][i] \in 0 .. Len(C[b])
          /\ cut[b][0] = 0 /\ cut[b][Len(R[b])] = IF b = c THEN lo ELSE Len(C[b])
          /\ b = c => \A i \in 0 .. Len(R[b]) : cut[b][i] <= lo
    /\ \A b \in 1 .. Blocks : \A i \in 1 .. Len(R[b]) :
          /\ Piece(R[b][i], C[b], cut[b][i - 1], cut[b][i], E[b][cut[b][i - 1]], K, n, T)
          /\ Leads(R[b][i], b)

LEMMA WithIs ==
    ASSUME NEW S, NEW A, Code(A, S), NEW c \in 1 .. Blocks, NEW x \in S
    PROVE  /\ Code(With(A, c, x), S) /\ Len(A[c]) \in Nat
           /\ Len(With(A, c, x)[c]) = Len(A[c]) + 1 /\ With(A, c, x)[c][Len(A[c]) + 1] = x
           /\ \A j \in 1 .. Len(A[c]) : With(A, c, x)[c][j] = A[c][j]
           /\ \A b \in 1 .. Blocks : b # c => With(A, c, x)[b] = A[b]
           /\ With(A, c, x)[c] = Append(A[c], x)
<1> DEFINE s == A[c]
           t == Append(s, x)
<1>1. s \in Seq(S)
    BY DEF Code
<1>2. /\ t \in Seq(S) /\ Len(s) \in Nat /\ Len(t) = Len(s) + 1 /\ t[Len(s) + 1] = x
      /\ \A j \in 1 .. Len(s) : t[j] = s[j]
    <2> HIDE DEF s
    <2> QED BY <1>1
<1> HIDE DEF t
<1>3. With(A, c, x)[c] = t /\ \A b \in 1 .. Blocks : b # c => With(A, c, x)[b] = A[b]
    BY DEF With, Code, t
<1>4. Code(With(A, c, x), S)
    <2>1. With(A, c, x) = [b \in 1 .. Blocks |-> IF b = c THEN t ELSE A[b]]
        BY DEF With, Code, t
    <2> QED BY <1>2, <2>1 DEF Code
<1> QED BY <1>2, <1>3, <1>4 DEF t

(* A piece is about the code it stands for only. *)
LEMMA PieceSame ==
    ASSUME NEW request, NEW A, NEW B, NEW lo \in Nat, NEW hi \in Nat, NEW D, NEW K, NEW n, NEW T,
           \A j \in (lo + 1) .. hi : A[j] = B[j], Piece(request, A, lo, hi, D, K, n, T)
    PROVE  Piece(request, B, lo, hi, D, K, n, T)
<1>1. hi = lo + 1 => A[lo + 1] = B[lo + 1]
    <2> SUFFICES ASSUME hi = lo + 1 PROVE A[lo + 1] = B[lo + 1]
        OBVIOUS
    <2>1. lo + 1 \in (lo + 1) .. hi
        OBVIOUS
    <2> QED BY <2>1
<1>2. hi = lo + 2 => A[lo + 1] = B[lo + 1] /\ A[lo + 2] = B[lo + 2]
    <2> SUFFICES ASSUME hi = lo + 2 PROVE A[lo + 1] = B[lo + 1] /\ A[lo + 2] = B[lo + 2]
        OBVIOUS
    <2>1. lo + 1 \in (lo + 1) .. hi /\ lo + 2 \in (lo + 1) .. hi
        OBVIOUS
    <2> QED BY <2>1
<1>3. CASE PlainPiece(request, A, lo, hi, n, T)
    BY <1>1, <1>3 DEF PlainPiece, Piece
<1>4. CASE BranchPiece(request, A, lo, hi, n, T)
    BY <1>1, <1>4 DEF BranchPiece, Piece
<1>5. CASE DecidedPiece(request, A, lo, hi, D, K, n, T)
    BY <1>1, <1>5 DEF DecidedPiece, Piece
<1>6. CASE AdjustPiece(request, A, lo, hi, T)
    BY <1>1, <1>2, <1>6 DEF AdjustPiece, Piece
<1> QED BY <1>3, <1>4, <1>5, <1>6 DEF Piece

(* An instruction that may come next, where the registers D are defined. *)
Fit(inst, D, c, K, n, omit) ==
    /\ inst \in Wanted(n, omit) /\ Uses(inst, omit) \subseteq D \cup Fixed
    /\ SetsKnown(inst, K) /\ (IsTerminator(inst) => inst.block \in (c + 1) .. Blocks)

LEMMA BodyGrows ==
    ASSUME NEW C, NEW E, NEW K, NEW n, NEW omit, Body(C, E, K, n, omit), NEW c \in 1 .. Blocks,
           \A b \in (c + 1) .. Blocks : C[b] = <<>>,
           NEW inst, Fit(inst, E[c][Len(C[c])], c, K, n, omit)
    PROVE  Body(With(C, c, inst), Grown(E, c, Len(C[c]), inst), K, n, omit)
<1> DEFINE C2 == With(C, c, inst)
           z == Len(C[c])
           E2 == Grown(E, c, z, inst)
<1>1. /\ n \in Nat /\ Code(C, Wanted(n, omit)) /\ Forward(C) /\ Flow(C, E, omit) /\ KnownOk(K, n)
      /\ \A b \in 1 .. Blocks : \A i \in 1 .. Len(C[b]) : SetsKnown(C[b][i], K)
    BY DEF Body
<1>2. /\ inst \in Wanted(n, omit) /\ Uses(inst, omit) \subseteq E[c][z] \cup Fixed
      /\ SetsKnown(inst, K) /\ (IsTerminator(inst) => inst.block \in (c + 1) .. Blocks)
    BY DEF Fit
<1>3. /\ Code(C2, Wanted(n, omit)) /\ z \in Nat /\ Len(C2[c]) = z + 1 /\ C2[c][z + 1] = inst
      /\ \A j \in 1 .. z : C2[c][j] = C[c][j]
      /\ \A b \in 1 .. Blocks : b # c => C2[b] = C[b]
    BY <1>1, <1>2, WithIs
<1>4. \A b \in 1 .. Blocks : Len(C[b]) \in Nat
    BY <1>1 DEF Code
<1>5. \A b \in (c + 1) .. Blocks : Len(C[b]) = 0
    OBVIOUS
<1> HIDE DEF C2, z
(* An instruction of the new code is one of the old, or the new one. *)
<1>6. ASSUME NEW b \in 1 .. Blocks, NEW i \in 1 .. Len(C2[b])
      PROVE  \/ i \in 1 .. Len(C[b]) /\ C2[b][i] = C[b][i] /\ (b = c => i - 1 # z + 1 /\ i # z + 1)
             \/ b = c /\ i = z + 1 /\ C2[b][i] = inst
    <2>1. CASE b # c
        BY <1>3, <2>1
    <2>2. CASE b = c
        <3>1. i \in 1 .. (z + 1)
            BY <1>3, <2>2
        <3>2. CASE i = z + 1
            BY <1>3, <2>2, <3>2
        <3>3. CASE i # z + 1
            <4>1. i \in 1 .. z /\ i - 1 # z + 1
                BY <1>3, <3>1, <3>3
            <4> QED BY <1>3, <2>2, <3>3, <4>1 DEF z
        <3> QED BY <3>2, <3>3
    <2> QED BY <2>1, <2>2
<1>7. \A b \in 1 .. Blocks : \A j \in Nat :
         /\ E2[b][j] = (IF b = c /\ j = z + 1 THEN E[c][z] \cup Defs(inst)
                        ELSE IF IsTerminator(inst) /\ b = inst.block /\ j = 0 THEN E[b][j] \cap E[c][z]
                        ELSE E[b][j])
    BY DEF Grown
<1> HIDE DEF E2
<1>8. \A b \in 1 .. Blocks : E2[b][0] \subseteq E[b][0]
    <2>1. 0 # z + 1 /\ 0 \in Nat
        BY <1>3
    <2> QED BY <1>7, <2>1
(* A block that is jumped to by inst is still empty. *)
<1>9. \A b \in 1 .. Blocks : \A i \in 1 .. Len(C[b]) :
         E2[b][i - 1] = IF b = c /\ i - 1 = z + 1 THEN E[c][z] \cup Defs(inst) ELSE E[b][i - 1]
    <2> SUFFICES ASSUME NEW b \in 1 .. Blocks, NEW i \in 1 .. Len(C[b])
                 PROVE  E2[b][i - 1] = IF b = c /\ i - 1 = z + 1 THEN E[c][z] \cup Defs(inst)
                                       ELSE E[b][i - 1]
        OBVIOUS
    <2>1. i - 1 \in Nat
        BY <1>4
    <2>2. ~(IsTerminator(inst) /\ b = inst.block)
        BY <1>2, <1>4, <1>5
    <2> QED BY <1>7, <2>1, <2>2
<1>10. E2[c][z] = E[c][z]
    <2>1. z # z + 1
        BY <1>3
    <2>2. ~(IsTerminator(inst) /\ c = inst.block)
        BY <1>2, RegAllocAssumption
    <2> QED BY <1>3, <1>7, <2>1, <2>2
<1>11. Flow(C2, E2, omit)
    <2>1. ASSUME NEW b \in 1 .. Blocks, NEW i \in 1 .. Len(C2[b])
          PROVE  /\ Uses(C2[b][i], omit) \subseteq E2[b][i - 1] \cup Fixed
                 /\ C2[b][i].kind # "J" => E2[b][i] \subseteq E2[b][i - 1] \cup Defs(C2[b][i])
                 /\ IsTerminator(C2[b][i]) => E2[C2[b][i].block][0] \subseteq E2[b][i - 1]
        <3>1. CASE i \in 1 .. Len(C[b]) /\ C2[b][i] = C[b][i] /\ (b = c => i - 1 # z + 1 /\ i # z + 1)
            <4>1. E2[b][i - 1] = E[b][i - 1]
                BY <1>9, <3>1
            <4>2. E2[b][i] = E[b][i]
                <5>1. i \in Nat /\ i # 0
                    BY <3>1, <1>4
                <5> QED BY <1>7, <3>1, <5>1
            <4>3. IsTerminator(C[b][i]) => C[b][i].block \in 1 .. Blocks
                <5>1. IsTerminator(C[b][i]) => C[b][i].block \in (b + 1) .. Blocks
                    BY <1>1, <3>1 DEF Forward
                <5> QED BY <5>1, RegAllocAssumption
            <4>4. /\ Uses(C[b][i], omit) \subseteq E[b][i - 1] \cup Fixed
                  /\ C[b][i].kind # "J" => E[b][i] \subseteq E[b][i - 1] \cup Defs(C[b][i])
                  /\ IsTerminator(C[b][i]) => E[C[b][i].block][0] \subseteq E[b][i - 1]
                BY <1>1, <3>1 DEF Flow
            <4>5. IsTerminator(C[b][i]) => E2[C[b][i].block][0] \subseteq E[b][i - 1]
                BY <1>8, <4>3, <4>4
            <4> QED BY <3>1, <4>1, <4>2, <4>4, <4>5
        <3>2. CASE b = c /\ i = z + 1 /\ C2[b][i] = inst
            <4>1. i - 1 = z
                BY <1>3, <3>2
            <4>2. E2[b][i - 1] = E[c][z]
                BY <1>10, <3>2, <4>1
            <4>3. E2[b][i] = E[c][z] \cup Defs(inst)
                <5>1. z + 1 \in Nat
                    BY <1>3
                <5>2. E2[c][z + 1] = E[c][z] \cup Defs(inst)
                    BY <1>7, <5>1
                <5> QED BY <3>2, <5>2
            <4>4. IsTerminator(inst) => E2[inst.block][0] \subseteq E[c][z]
                <5>1. IsTerminator(inst) => inst.block \in 1 .. Blocks /\ 0 # z + 1 /\ 0 \in Nat
                    BY <1>2, <1>3, RegAllocAssumption
                <5> QED BY <1>7, <5>1
            <4> QED BY <1>2, <3>2, <4>2, <4>3, <4>4
        <3> QED BY <1>6, <3>1, <3>2
    <2>2. E2[1][0] = {}
        <3>1. E[1][0] = {} /\ 1 \in 1 .. Blocks
            BY <1>1, RegAllocAssumption DEF Flow
        <3> QED BY <1>8, <3>1
    <2> QED BY <2>1, <2>2 DEF Flow
<1>12. Forward(C2)
    <2>1. ASSUME NEW b \in 1 .. Blocks, NEW i \in 1 .. Len(C2[b]), IsTerminator(C2[b][i])
          PROVE  C2[b][i].block \in (b + 1) .. Blocks
        BY <1>1, <1>2, <1>6, <2>1 DEF Forward
    <2> QED BY <2>1 DEF Forward
<1>13. \A b \in 1 .. Blocks : \A i \in 1 .. Len(C2[b]) : SetsKnown(C2[b][i], K)
    BY <1>1, <1>2, <1>6
<1> QED BY <1>1, <1>3, <1>11, <1>12, <1>13 DEF Body, C2, E2, z

GrownOk(E, E2, c, z, inst) ==
    /\ \A b \in 1 .. Blocks : \A j \in Nat : (b = c /\ j # z + 1) \/ (b < c) => E2[b][j] = E[b][j]
    /\ E2[c][z + 1] = E[c][z] \cup Defs(inst)
    /\ \A b \in (c + 1) .. Blocks :
          E2[b][0] = IF IsTerminator(inst) /\ b = inst.block THEN E[b][0] \cap E[c][z] ELSE E[b][0]

LEMMA GrownIs ==
    ASSUME NEW E, NEW c \in 1 .. Blocks, NEW z \in Nat, NEW inst,
           IsTerminator(inst) => inst.block \in (c + 1) .. Blocks
    PROVE  GrownOk(E, Grown(E, c, z, inst), c, z, inst)
<1> DEFINE E2 == Grown(E, c, z, inst)
<1>1. \A b \in 1 .. Blocks : \A j \in Nat :
         E2[b][j] = (IF b = c /\ j = z + 1 THEN E[c][z] \cup Defs(inst)
                     ELSE IF IsTerminator(inst) /\ b = inst.block /\ j = 0 THEN E[b][j] \cap E[c][z]
                     ELSE E[b][j])
    BY DEF Grown
<1> HIDE DEF E2
<1>2. ASSUME NEW b \in 1 .. Blocks, NEW j \in Nat, (b = c /\ j # z + 1) \/ b < c
      PROVE  E2[b][j] = E[b][j]
    <2>1. ~(IsTerminator(inst) /\ b = inst.block)
        BY <1>2, RegAllocAssumption
    <2>2. ~(b = c /\ j = z + 1)
        BY <1>2
    <2> QED BY <1>1, <2>1, <2>2
<1>3. E2[c][z + 1] = E[c][z] \cup Defs(inst)
    <2>1. z + 1 \in Nat
        OBVIOUS
    <2> QED BY <1>1, <2>1
<1>4. ASSUME NEW b \in (c + 1) .. Blocks
      PROVE  E2[b][0] = IF IsTerminator(inst) /\ b = inst.block THEN E[b][0] \cap E[c][z] ELSE E[b][0]
    <2>1. b \in 1 .. Blocks /\ b # c /\ 0 \in Nat
        BY RegAllocAssumption
    <2> QED BY <1>1, <2>1
<1>5. GrownOk(E, E2, c, z, inst)
    BY <1>2, <1>3, <1>4 DEF GrownOk
<1> QED BY <1>5 DEF E2

LEMMA HalfGrows ==
    ASSUME NEW R, NEW C, NEW E, NEW cut, NEW T, NEW K, NEW n, NEW omit, NEW c, NEW lo,
           Half(R, C, E, cut, T, K, n, omit, c, lo),
           NEW inst, Fit(inst, E[c][Len(C[c])], c, K, n, omit)
    PROVE  Half(R, With(C, c, inst), Grown(E, c, Len(C[c]), inst), cut, T, K, n, omit, c, lo)
<1> DEFINE C2 == With(C, c, inst)
           z == Len(C[c])
           E2 == Grown(E, c, z, inst)
<1>1. /\ Body(C, E, K, n, omit) /\ c \in 1 .. Blocks /\ lo \in 0 .. z
      /\ \A b \in (c + 1) .. Blocks : R[b] = <<>> /\ C[b] = <<>>
    BY DEF Half
<1>2. Body(C2, E2, K, n, omit)
    BY <1>1, BodyGrows
<1>3. inst \in Wanted(n, omit) /\ (IsTerminator(inst) => inst.block \in (c + 1) .. Blocks)
    BY DEF Fit
<1>4. /\ z \in Nat /\ Len(C2[c]) = z + 1
      /\ \A j \in 1 .. z : C2[c][j] = C[c][j]
      /\ \A b \in 1 .. Blocks : b # c => C2[b] = C[b]
    <2>1. Code(C, Wanted(n, omit))
        BY <1>1 DEF Body
    <2> QED BY <1>1, <1>3, <2>1, WithIs
<1>5. /\ \A b \in 1 .. Blocks : \A j \in Nat : (b = c /\ j # z + 1) \/ b < c => E2[b][j] = E[b][j]
    <2>1. /\ c \in 1 .. Blocks /\ z \in Nat
          /\ IsTerminator(inst) => inst.block \in (c + 1) .. Blocks
        BY <1>1, <1>3, <1>4
    <2>2. GrownOk(E, E2, c, z, inst)
        <3> HIDE DEF z, C2
        <3> QED BY <2>1, GrownIs
    <2> HIDE DEF E2
    <2> QED BY <2>2 DEF GrownOk
<1>6. \A b \in 1 .. Blocks : Len(C[b]) \in Nat
    BY <1>1 DEF Body, Code
<1>7. \A b \in 1 .. Blocks : Len(R[b]) \in Nat
    BY DEF Half, Code
<1>8. lo \in 0 .. Len(C2[c]) /\ \A b \in (c + 1) .. Blocks : R[b] = <<>> /\ C2[b] = <<>>
    <2>1. lo \in 0 .. (z + 1)
        BY <1>1, <1>4
    <2>2. \A b \in (c + 1) .. Blocks : b \in 1 .. Blocks /\ b # c
        BY <1>1, RegAllocAssumption
    <2> QED BY <1>1, <1>4, <2>1, <2>2
<1> HIDE DEF C2, z, E2
<1>9. ASSUME NEW b \in 1 .. Blocks
      PROVE  /\ \A i \in 0 .. Len(R[b]) : cut[b][i] \in 0 .. Len(C2[b])
             /\ cut[b][0] = 0 /\ cut[b][Len(R[b])] = IF b = c THEN lo ELSE Len(C2[b])
             /\ b = c => \A i \in 0 .. Len(R[b]) : cut[b][i] <= lo
    <2>1. /\ \A i \in 0 .. Len(R[b]) : cut[b][i] \in 0 .. Len(C[b])
          /\ cut[b][0] = 0 /\ cut[b][Len(R[b])] = IF b = c THEN lo ELSE Len(C[b])
          /\ b = c => \A i \in 0 .. Len(R[b]) : cut[b][i] <= lo
        BY DEF Half
    <2>2. CASE b = c
        <3>1. \A q \in 0 .. z : q \in 0 .. (z + 1)
            BY <1>4
        <3> QED BY <1>4, <2>1, <2>2, <3>1 DEF z
    <2>3. CASE b # c
        BY <1>4, <2>1, <2>3
    <2> QED BY <2>2, <2>3
<1>10. ASSUME NEW b \in 1 .. Blocks, NEW i \in 1 .. Len(R[b])
       PROVE  /\ Piece(R[b][i], C2[b], cut[b][i - 1], cut[b][i], E2[b][cut[b][i - 1]], K, n, T)
              /\ Leads(R[b][i], b)
    <2>1. /\ Piece(R[b][i], C[b], cut[b][i - 1], cut[b][i], E[b][cut[b][i - 1]], K, n, T)
          /\ Leads(R[b][i], b)
        BY DEF Half
    <2>2. i - 1 \in 0 .. Len(R[b]) /\ i \in 0 .. Len(R[b])
        BY <1>7
    <2>3. cut[b][i - 1] \in 0 .. Len(C[b]) /\ cut[b][i] \in 0 .. Len(C[b])
        BY <2>2 DEF Half
    <2> DEFINE p == cut[b][i - 1]
               q == cut[b][i]
    <2>4. ~(b > c)
        <3> SUFFICES ASSUME b > c PROVE FALSE
            OBVIOUS
        <3>1. b \in (c + 1) .. Blocks
            BY <1>1, RegAllocAssumption
        <3>2. Len(R[b]) = 0
            BY <1>1, <3>1
        <3> QED BY <2>2, <3>2
    <2>5. b = c \/ b < c
        BY <1>1, <2>4, RegAllocAssumption
    <2>6. p \in Nat /\ q \in Nat
        <3> HIDE DEF p, q
        <3>1. p \in 0 .. Len(C[b]) /\ q \in 0 .. Len(C[b])
            BY <2>3 DEF p, q
        <3> QED BY <1>6, <3>1
    <2>7. b = c => p # z + 1
        <3>1. p \in 0 .. Len(C[b])
            BY <2>3
        <3> HIDE DEF p
        <3> QED BY <1>4, <3>1 DEF z
    <2>8. E2[b][p] = E[b][p]
        <3> HIDE DEF p
        <3> QED BY <1>5, <2>5, <2>6, <2>7
    <2>9. \A j \in (p + 1) .. q : C2[b][j] = C[b][j]
        <3>1. \A j \in (p + 1) .. q : j \in 1 .. Len(C[b])
            <4>1. q \in 0 .. Len(C[b]) /\ Len(C[b]) \in Nat
                BY <1>6, <2>3
            <4> HIDE DEF p, q
            <4> QED BY <2>6, <4>1
        <3> QED BY <1>4, <3>1 DEF z
    <2>10. Piece(R[b][i], C2[b], p, q, E2[b][p], K, n, T)
        <3>1. Piece(R[b][i], C[b], p, q, E2[b][p], K, n, T)
            BY <2>1, <2>8
        <3> HIDE DEF p, q
        <3> QED BY <2>6, <2>9, <3>1, PieceSame
    <2> QED BY <2>1, <2>10
<1>11. (\E S : Code(R, S)) /\ T \subseteq CodeRegs(n) /\ \A t \in T : IsVReg(t)
    BY DEF Half
<1> QED BY <1>1, <1>2, <1>8, <1>9, <1>10, <1>11 DEF Half, C2, E2, z

CutWith(cut, c, i, z) ==
    [b \in 1 .. Blocks |-> [j \in Nat |-> IF b = c /\ j = i THEN z ELSE cut[b][j]]]

(* What the code after lo is for is asked for. *)
LEMMA HalfAsked ==
    ASSUME NEW R, NEW C, NEW E, NEW cut, NEW T, NEW K, NEW n, NEW omit, NEW c, NEW lo,
           Half(R, C, E, cut, T, K, n, omit, c, lo), NEW request,
           Piece(request, C[c], lo, Len(C[c]), E[c][lo], K, n, T), Leads(request, c)
    PROVE  Half(With(R, c, request), C, E, CutWith(cut, c, Len(R[c]) + 1, Len(C[c])), T, K, n,
                omit, c, Len(C[c]))
<1> DEFINE R2 == With(R, c, request)
           y == Len(R[c])
           z == Len(C[c])
           cut2 == CutWith(cut, c, y + 1, z)
<1>1. /\ Body(C, E, K, n, omit) /\ c \in 1 .. Blocks /\ lo \in 0 .. z
      /\ \A b \in (c + 1) .. Blocks : R[b] = <<>> /\ C[b] = <<>>
      /\ T \subseteq CodeRegs(n) /\ \A t \in T : IsVReg(t)
    BY DEF Half
<1>2. PICK S : Code(R, S)
    BY DEF Half
<1>3. Code(R, S \cup {request})
    BY <1>2 DEF Code
<1>4. /\ Code(R2, S \cup {request}) /\ y \in Nat /\ Len(R2[c]) = y + 1 /\ R2[c][y + 1] = request
      /\ \A j \in 1 .. y : R2[c][j] = R[c][j]
      /\ \A b \in 1 .. Blocks : b # c => R2[b] = R[b]
    BY <1>1, <1>3, WithIs
<1>5. \A b \in 1 .. Blocks : Len(C[b]) \in Nat /\ Len(R[b]) \in Nat
    BY <1>1, <1>2 DEF Body, Code
<1>6. \A b \in 1 .. Blocks : \A j \in Nat :
         cut2[b][j] = IF b = c /\ j = y + 1 THEN z ELSE cut[b][j]
    BY DEF CutWith
<1> HIDE DEF R2, y, z, cut2
<1>7. z \in Nat /\ z \in 0 .. Len(C[c])
    BY <1>1, <1>5 DEF z
<1>8. \A b \in (c + 1) .. Blocks : R2[b] = <<>> /\ C[b] = <<>>
    <2>1. \A b \in (c + 1) .. Blocks : b \in 1 .. Blocks /\ b # c
        BY <1>1, RegAllocAssumption
    <2> QED BY <1>1, <1>4, <2>1
<1>9. ASSUME NEW b \in 1 .. Blocks
      PROVE  /\ \A i \in 0 .. Len(R2[b]) : cut2[b][i] \in 0 .. Len(C[b])
             /\ cut2[b][0] = 0 /\ cut2[b][Len(R2[b])] = IF b = c THEN z ELSE Len(C[b])
             /\ b = c => \A i \in 0 .. Len(R2[b]) : cut2[b][i] <= z
    <2>1. /\ \A i \in 0 .. Len(R[b]) : cut[b][i] \in 0 .. Len(C[b])
          /\ cut[b][0] = 0 /\ cut[b][Len(R[b])] = IF b = c THEN lo ELSE Len(C[b])
        BY DEF Half
    <2>2. CASE b = c
        <3>1. ASSUME NEW i \in 0 .. (y + 1)
              PROVE  cut2[c][i] \in 0 .. z /\ cut2[c][i] <= z
            <4>1. CASE i = y + 1
                <5>1. cut2[c][i] = z
                    BY <1>1, <1>4, <1>6, <4>1
                <5> QED BY <1>7, <5>1
            <4>2. CASE i # y + 1
                <5>1. i \in 0 .. y /\ i \in Nat
                    BY <1>4, <4>2
                <5>2. cut2[c][i] = cut[c][i]
                    BY <1>1, <1>6, <4>2, <5>1
                <5>3. cut2[c][i] \in 0 .. z
                    BY <2>1, <2>2, <5>1, <5>2 DEF y, z
                <5> QED BY <1>7, <5>3
            <4> QED BY <4>1, <4>2
        <3>2. cut2[c][0] = 0
            <4>1. 0 # y + 1 /\ 0 \in Nat
                BY <1>4
            <4> QED BY <1>1, <1>6, <2>1, <2>2, <4>1
        <3>3. cut2[c][y + 1] = z
            <4>1. y + 1 \in Nat
                BY <1>4
            <4> QED BY <1>1, <1>6, <4>1
        <3> QED BY <1>4, <2>2, <3>1, <3>2, <3>3 DEF z
    <2>3. CASE b # c
        <3>1. \A i \in 0 .. Len(R[b]) : cut2[b][i] = cut[b][i]
            BY <1>5, <1>6, <2>3
        <3>2. 0 \in 0 .. Len(R[b]) /\ Len(R[b]) \in 0 .. Len(R[b])
            BY <1>5
        <3> QED BY <1>4, <2>1, <2>3, <3>1, <3>2
    <2> QED BY <2>2, <2>3
<1>10. ASSUME NEW b \in 1 .. Blocks, NEW i \in 1 .. Len(R2[b])
       PROVE  /\ Piece(R2[b][i], C[b], cut2[b][i - 1], cut2[b][i], E[b][cut2[b][i - 1]], K, n, T)
              /\ Leads(R2[b][i], b)
    <2>1. CASE b = c /\ i = y + 1
        <3>1. cut2[c][y + 1] = z
            <4>1. y + 1 \in Nat
                BY <1>4
            <4> QED BY <1>1, <1>6, <4>1
        <3>2. cut2[c][y] = lo
            <4>1. y \in Nat /\ y # y + 1
                BY <1>4
            <4>2. cut[c][y] = lo
                BY <1>1 DEF Half, y
            <4> QED BY <1>1, <1>6, <4>1, <4>2
        <3>3. (y + 1) - 1 = y
            BY <1>4
        <3>4. Piece(request, C[c], lo, z, E[c][lo], K, n, T)
            BY DEF z
        <3> QED BY <1>4, <2>1, <3>1, <3>2, <3>3, <3>4
    <2>2. CASE ~(b = c /\ i = y + 1)
        <3>1. i \in 1 .. Len(R[b]) /\ R2[b][i] = R[b][i]
            <4>1. CASE b = c
                <5>1. i \in 1 .. y
                    BY <1>4, <2>2, <4>1
                <5> QED BY <1>4, <4>1, <5>1 DEF y
            <4>2. CASE b # c
                BY <1>4, <4>2
            <4> QED BY <4>1, <4>2
        <3>2. /\ Piece(R[b][i], C[b], cut[b][i - 1], cut[b][i], E[b][cut[b][i - 1]], K, n, T)
              /\ Leads(R[b][i], b)
            BY <3>1 DEF Half
        <3>3. i \in Nat /\ i - 1 \in Nat /\ (b = c => i - 1 # y + 1)
            <4>1. i \in Nat /\ i - 1 \in Nat
                BY <1>5, <3>1
            <4>2. b = c => i \in 1 .. y
                BY <3>1 DEF y
            <4> QED BY <1>4, <4>1, <4>2
        <3>4. cut2[b][i] = cut[b][i] /\ cut2[b][i - 1] = cut[b][i - 1]
            BY <1>6, <2>2, <3>3
        <3> QED BY <3>1, <3>2, <3>4
    <2> QED BY <2>1, <2>2
<1>11. \E Q : Code(R2, Q)
    BY <1>4
<1>12. Half(R2, C, E, cut2, T, K, n, omit, c, z)
    BY <1>1, <1>7, <1>8, <1>9, <1>10, <1>11 DEF Half
<1> QED BY <1>12 DEF R2, y, z, cut2

(* More registers, of the compiler's own or not, and more that are known.  *)
Wider(T, K, n, T2, K2, n2) ==
    /\ n \in Nat /\ n2 \in Nat /\ n <= n2
    /\ T \subseteq T2 /\ T2 \subseteq CodeRegs(n2) /\ (\A t \in T2 : IsVReg(t))
    /\ T2 \cap CodeRegs(n) \subseteq T
    /\ KnownOk(K2, n2) /\ (\A r \in DOMAIN K : r \in DOMAIN K2 /\ K2[r] = K[r])
    /\ DOMAIN K2 \cap CodeRegs(n) \subseteq DOMAIN K

LEMMA PieceWider ==
    ASSUME NEW request, NEW A, NEW lo, NEW hi, NEW D, NEW T, NEW K, NEW n, NEW T2, NEW K2, NEW n2,
           Wider(T, K, n, T2, K2, n2), Piece(request, A, lo, hi, D, K, n, T)
    PROVE  Piece(request, A, lo, hi, D, K2, n2, T2)
<1>1. CodeRegs(n) \subseteq CodeRegs(n2)
    BY MoreCodeRegs DEF Wider
<1>2. CodeRegs(n) \ T \subseteq CodeRegs(n2) \ T2
    BY <1>1 DEF Wider
<1>3. CASE PlainPiece(request, A, lo, hi, n, T)
    BY <1>2, <1>3, MoreInsts DEF PlainPiece, Piece
<1>4. CASE BranchPiece(request, A, lo, hi, n, T)
    BY <1>2, <1>4 DEF BranchPiece, Piece
<1>5. CASE DecidedPiece(request, A, lo, hi, D, K, n, T)
    <2>1. \A r \in DOMAIN K : r \in DOMAIN K2 /\ K2[r] = K[r]
        BY DEF Wider
    <2>2. \A r \in (D \cap CodeRegs(n)) \ T : r \in (D \cap CodeRegs(n2)) \ T2
        BY <1>2
    <2> QED BY <1>5, <2>1, <2>2 DEF DecidedPiece, Piece
<1>6. CASE AdjustPiece(request, A, lo, hi, T)
    <2>1. T \subseteq T2
        BY DEF Wider
    <2> QED BY <1>6, <2>1 DEF AdjustPiece, Piece
<1> QED BY <1>3, <1>4, <1>5, <1>6 DEF Piece

LEMMA MoreWanted ==
    ASSUME NEW n \in Nat, NEW n2 \in Nat, n <= n2, NEW omit
    PROVE  Wanted(n, omit) \subseteq Wanted(n2, omit)
<1>1. Instructions(CodeRegs(n)) \subseteq Instructions(CodeRegs(n2))
    BY MoreCodeRegs, MoreInsts
<1> QED BY <1>1 DEF Wanted

LEMMA HalfWider ==
    ASSUME NEW R, NEW C, NEW E, NEW cut, NEW T, NEW K, NEW n, NEW omit, NEW c, NEW lo,
           Half(R, C, E, cut, T, K, n, omit, c, lo), NEW T2, NEW K2, NEW n2,
           Wider(T, K, n, T2, K2, n2)
    PROVE  Half(R, C, E, cut, T2, K2, n2, omit, c, lo)
<1>1. /\ n \in Nat /\ n2 \in Nat /\ n <= n2 /\ KnownOk(K2, n2)
      /\ T2 \subseteq CodeRegs(n2) /\ (\A t \in T2 : IsVReg(t))
      /\ (\A r \in DOMAIN K : r \in DOMAIN K2 /\ K2[r] = K[r])
      /\ DOMAIN K2 \cap CodeRegs(n) \subseteq DOMAIN K
    BY DEF Wider
<1>2. /\ Code(C, Wanted(n, omit)) /\ Forward(C) /\ Flow(C, E, omit)
      /\ \A b \in 1 .. Blocks : \A i \in 1 .. Len(C[b]) : SetsKnown(C[b][i], K)
    BY DEF Half, Body
<1>3. Code(C, Wanted(n2, omit))
    <2>1. Wanted(n, omit) \subseteq Wanted(n2, omit)
        BY <1>1, MoreWanted
    <2> QED BY <1>2, <2>1 DEF Code
<1>4. ASSUME NEW b \in 1 .. Blocks, NEW i \in 1 .. Len(C[b])
      PROVE  SetsKnown(C[b][i], K2)
    <2>1. C[b][i] \in Instructions(CodeRegs(n))
        BY <1>2, InstIn DEF Wanted
    <2>2. C[b][i].kind \in Defining => C[b][i].rd \in CodeRegs(n)
        BY <2>1 DEF Instructions, Defining
    <2>3. SetsKnown(C[b][i], K)
        BY <1>2
    <2> QED BY <1>1, <2>2, <2>3 DEF SetsKnown
<1>5. Body(C, E, K2, n2, omit)
    BY <1>1, <1>2, <1>3, <1>4 DEF Body
<1>6. ASSUME NEW b \in 1 .. Blocks, NEW i \in 1 .. Len(R[b])
      PROVE  /\ Piece(R[b][i], C[b], cut[b][i - 1], cut[b][i], E[b][cut[b][i - 1]], K2, n2, T2)
             /\ Leads(R[b][i], b)
    <2>1. /\ Piece(R[b][i], C[b], cut[b][i - 1], cut[b][i], E[b][cut[b][i - 1]], K, n, T)
          /\ Leads(R[b][i], b)
        BY DEF Half
    <2> QED BY <2>1, PieceWider
<1> QED BY <1>1, <1>5, <1>6 DEF Half

-----------------------------------------------------------------------------
(* What is known of the code and the requests when block c is being        *)
(* selected: cur are registers that are defined, next[b] ones that will be *)
(* at the start of a later block.                                          *)
Chosen(R, C, c, cur, next, T, K, n, omit) ==
    \E E, cut : /\ Half(R, C, E, cut, T, K, n, omit, c, Len(C[c]))
                /\ cur \subseteq E[c][Len(C[c])]
                /\ \A b \in (c + 1) .. Blocks : next[b] \subseteq E[b][0]

(* With what inst defines. *)
Narrow(next, cur, inst) ==
    [b \in 1 .. Blocks |-> IF IsTerminator(inst) /\ b = inst.block THEN next[b] \cap cur ELSE next[b]]

Stands0(request, cur, K, n, T) ==
    \A A, D : \A lo \in Nat : cur \subseteq D => Piece(request, A, lo, lo, D, K, n, T)
Stands1(request, inst, cur, K, n, T) ==
    \A A, D : \A lo \in Nat : cur \subseteq D /\ A[lo + 1] = inst
                              => Piece(request, A, lo, lo + 1, D, K, n, T)
Stands2(request, i1, i2, cur, K, n, T) ==
    \A A, D : \A lo \in Nat : cur \subseteq D /\ A[lo + 1] = i1 /\ A[lo + 2] = i2
                              => Piece(request, A, lo, lo + 2, D, K, n, T)

LEMMA FitMore ==
    ASSUME NEW inst, NEW D, NEW D2, D \subseteq D2, NEW c, NEW K, NEW n, NEW omit,
           Fit(inst, D, c, K, n, omit)
    PROVE  Fit(inst, D2, c, K, n, omit)
BY DEF Fit

LEMMA ChosenWider ==
    ASSUME NEW R, NEW C, NEW c, NEW cur, NEW next, NEW T, NEW K, NEW n, NEW omit,
           Chosen(R, C, c, cur, next, T, K, n, omit), NEW T2, NEW K2, NEW n2, Wider(T, K, n, T2, K2, n2)
    PROVE  Chosen(R, C, c, cur, next, T2, K2, n2, omit)
BY HalfWider DEF Chosen

LEMMA ChosenNone ==
    ASSUME NEW R, NEW C, NEW c, NEW cur, NEW next, NEW T, NEW K, NEW n, NEW omit,
           Chosen(R, C, c, cur, next, T, K, n, omit),
           NEW request, Stands0(request, cur, K, n, T), Leads(request, c)
    PROVE  Chosen(With(R, c, request), C, c, cur, next, T, K, n, omit)
<1>1. PICK E, cut : /\ Half(R, C, E, cut, T, K, n, omit, c, Len(C[c]))
                    /\ cur \subseteq E[c][Len(C[c])]
                    /\ \A b \in (c + 1) .. Blocks : next[b] \subseteq E[b][0]
    BY DEF Chosen
<1>2. Len(C[c]) \in Nat
    BY <1>1 DEF Half, Body, Code
<1>3. Piece(request, C[c], Len(C[c]), Len(C[c]), E[c][Len(C[c])], K, n, T)
    BY <1>1, <1>2 DEF Stands0
<1> DEFINE cut2 == CutWith(cut, c, Len(R[c]) + 1, Len(C[c]))
<1>4. Half(With(R, c, request), C, E, cut2, T, K, n, omit, c, Len(C[c]))
    BY <1>1, <1>3, HalfAsked
<1> HIDE DEF cut2
<1> QED BY <1>1, <1>4 DEF Chosen

(* The same, with code for a request still to come. *)
Reach(R, C, E, cut, T, K, n, omit, c, lo, cur, next) ==
    /\ Half(R, C, E, cut, T, K, n, omit, c, lo) /\ cur \subseteq E[c][Len(C[c])]
    /\ \A b \in (c + 1) .. Blocks : next[b] \subseteq E[b][0]

(* The parts of what growing by an instruction gives. *)
GrowsTo(C, E, c, inst, C2, E2) ==
    /\ Len(C[c]) \in Nat /\ Len(C2[c]) = Len(C[c]) + 1 /\ C2[c][Len(C[c]) + 1] = inst
    /\ (\A j \in 1 .. Len(C[c]) : C2[c][j] = C[c][j])
    /\ (\A j \in 0 .. Len(C[c]) : E2[c][j] = E[c][j])

LEMMA GrowsBy ==
    ASSUME NEW R, NEW C, NEW c, NEW cur, NEW next, NEW T, NEW K, NEW n, NEW omit, NEW E, NEW cut, NEW lo,
           Reach(R, C, E, cut, T, K, n, omit, c, lo, cur, next),
           NEW inst, Fit(inst, cur, c, K, n, omit)
    PROVE  \E E2 : /\ GrowsTo(C, E, c, inst, With(C, c, inst), E2)
                   /\ Reach(R, With(C, c, inst), E2, cut, T, K, n, omit, c, lo, cur \cup Defs(inst),
                            Narrow(next, cur, inst))
<1> DEFINE C2 == With(C, c, inst)
           z == Len(C[c])
           E2 == Grown(E, c, z, inst)
<1>0. /\ Half(R, C, E, cut, T, K, n, omit, c, lo) /\ cur \subseteq E[c][Len(C[c])]
      /\ \A b \in (c + 1) .. Blocks : next[b] \subseteq E[b][0]
    BY DEF Reach
<1>1. Fit(inst, E[c][Len(C[c])], c, K, n, omit)
    BY <1>0, FitMore
<1>2. Half(R, C2, E2, cut, T, K, n, omit, c, lo)
    BY <1>0, <1>1, HalfGrows
<1>3. c \in 1 .. Blocks /\ Code(C, Wanted(n, omit))
    BY <1>0 DEF Half, Body
<1>4. inst \in Wanted(n, omit) /\ (IsTerminator(inst) => inst.block \in (c + 1) .. Blocks)
    BY DEF Fit
<1>5. /\ Len(C2[c]) = z + 1 /\ C2[c][z + 1] = inst /\ z \in Nat
      /\ \A j \in 1 .. z : C2[c][j] = C[c][j]
    BY <1>3, <1>4, WithIs
<1>a. cur \subseteq E[c][z]
    BY <1>0
<1>6. GrownOk(E, E2, c, z, inst)
    <2>1. z \in Nat
        BY <1>5
    <2> HIDE DEF z
    <2> QED BY <1>3, <1>4, <2>1, GrownIs
<1> HIDE DEF z, C2, E2
<1>7. \A j \in 0 .. z : E2[c][j] = E[c][j]
    <2>1. \A j \in 0 .. z : j \in Nat /\ j # z + 1
        BY <1>5
    <2> QED BY <1>3, <1>6, <2>1 DEF GrownOk
<1>8. \A b \in (c + 1) .. Blocks : Narrow(next, cur, inst)[b] \subseteq E2[b][0]
    <2>1. \A b \in (c + 1) .. Blocks : b \in 1 .. Blocks
        BY <1>3, RegAllocAssumption
    <2> QED BY <1>0, <1>6, <1>a, <2>1 DEF Narrow, GrownOk
<1>9. cur \cup Defs(inst) \subseteq E2[c][Len(C2[c])]
    BY <1>5, <1>6, <1>a DEF GrownOk
<1>10. Reach(R, C2, E2, cut, T, K, n, omit, c, lo, cur \cup Defs(inst), Narrow(next, cur, inst))
    BY <1>2, <1>8, <1>9 DEF Reach
<1>11. GrowsTo(C, E, c, inst, C2, E2)
    BY <1>5, <1>7 DEF GrowsTo, z
<1> QED BY <1>10, <1>11 DEF C2

LEMMA ChosenReach ==
    ASSUME NEW R, NEW C, NEW c, NEW cur, NEW next, NEW T, NEW K, NEW n, NEW omit
    PROVE  /\ Chosen(R, C, c, cur, next, T, K, n, omit)
                => \E E, cut : Reach(R, C, E, cut, T, K, n, omit, c, Len(C[c]), cur, next)
           /\ \A E, cut : Reach(R, C, E, cut, T, K, n, omit, c, Len(C[c]), cur, next)
                => Chosen(R, C, c, cur, next, T, K, n, omit)
BY Zenon DEF Chosen, Reach

(* The code after lo is all there is to a request. *)
LEMMA ReachAsked ==
    ASSUME NEW R, NEW C, NEW E, NEW cut, NEW T, NEW K, NEW n, NEW omit, NEW c, NEW lo, NEW cur, NEW next,
           Reach(R, C, E, cut, T, K, n, omit, c, lo, cur, next), NEW request,
           Piece(request, C[c], lo, Len(C[c]), E[c][lo], K, n, T), Leads(request, c)
    PROVE  Chosen(With(R, c, request), C, c, cur, next, T, K, n, omit)
<1> DEFINE cut2 == CutWith(cut, c, Len(R[c]) + 1, Len(C[c]))
<1>1. Half(R, C, E, cut, T, K, n, omit, c, lo)
    BY DEF Reach
<1>2. Half(With(R, c, request), C, E, cut2, T, K, n, omit, c, Len(C[c]))
    BY <1>1, HalfAsked
<1> HIDE DEF cut2
<1> QED BY <1>2 DEF Reach, Chosen

LEMMA ChosenOne ==
    ASSUME NEW R, NEW C, NEW c, NEW cur, NEW next, NEW T, NEW K, NEW n, NEW omit,
           Chosen(R, C, c, cur, next, T, K, n, omit),
           NEW request, NEW inst, Fit(inst, cur, c, K, n, omit),
           Stands1(request, inst, cur, K, n, T), Leads(request, c)
    PROVE  Chosen(With(R, c, request), With(C, c, inst), c, cur \cup Defs(inst),
                  Narrow(next, cur, inst), T, K, n, omit)
<1> DEFINE C2 == With(C, c, inst)
<1>1. PICK E, cut : Reach(R, C, E, cut, T, K, n, omit, c, Len(C[c]), cur, next)
    BY ChosenReach
<1>2. PICK E2 : /\ GrowsTo(C, E, c, inst, C2, E2)
                /\ Reach(R, C2, E2, cut, T, K, n, omit, c, Len(C[c]), cur \cup Defs(inst),
                         Narrow(next, cur, inst))
    BY <1>1, GrowsBy
<1> HIDE DEF C2
<1> DEFINE z == Len(C[c])
<1>3. /\ z \in Nat /\ Len(C2[c]) = z + 1 /\ C2[c][z + 1] = inst
      /\ \A j \in 0 .. z : E2[c][j] = E[c][j]
    BY <1>2 DEF GrowsTo
<1>a. cur \subseteq E[c][z]
    BY <1>1 DEF Reach
<1> HIDE DEF z
<1>4. cur \subseteq E2[c][z]
    <2>1. z \in 0 .. z
        BY <1>3
    <2> QED BY <1>3, <1>a, <2>1
<1>5. Piece(request, C2[c], z, Len(C2[c]), E2[c][z], K, n, T)
    BY <1>3, <1>4 DEF Stands1
<1> QED BY <1>2, <1>5, ReachAsked DEF z, C2

LEMMA ChosenTwo ==
    ASSUME NEW R, NEW C, NEW c, NEW cur, NEW next, NEW T, NEW K, NEW n, NEW omit,
           Chosen(R, C, c, cur, next, T, K, n, omit),
           NEW request, NEW i1, NEW i2, Fit(i1, cur, c, K, n, omit),
           Fit(i2, cur \cup Defs(i1), c, K, n, omit),
           Stands2(request, i1, i2, cur, K, n, T), Leads(request, c)
    PROVE  Chosen(With(R, c, request), With(With(C, c, i1), c, i2), c,
                  (cur \cup Defs(i1)) \cup Defs(i2),
                  Narrow(Narrow(next, cur, i1), cur \cup Defs(i1), i2), T, K, n, omit)
<1> DEFINE C2 == With(C, c, i1)
           C3 == With(C2, c, i2)
           z == Len(C[c])
           next2 == Narrow(next, cur, i1)
           cur2 == cur \cup Defs(i1)
<1>1. PICK E, cut : Reach(R, C, E, cut, T, K, n, omit, c, z, cur, next)
    BY ChosenReach
<1>2. PICK E2 : /\ GrowsTo(C, E, c, i1, C2, E2)
                /\ Reach(R, C2, E2, cut, T, K, n, omit, c, z, cur2, next2)
    BY <1>1, GrowsBy
<1> HIDE DEF C2, next2
<1>3. PICK E3 : /\ GrowsTo(C2, E2, c, i2, C3, E3)
                /\ Reach(R, C3, E3, cut, T, K, n, omit, c, z, cur2 \cup Defs(i2),
                         Narrow(next2, cur2, i2))
    <2>1. Fit(i2, cur2, c, K, n, omit)
        OBVIOUS
    <2> HIDE DEF cur2, z
    <2> QED BY <1>2, <2>1, GrowsBy
<1> HIDE DEF C3
<1> DEFINE z2 == Len(C2[c])
<1>4. /\ z \in Nat /\ z2 = z + 1 /\ C2[c][z + 1] = i1
      /\ \A j \in 0 .. z : E2[c][j] = E[c][j]
    BY <1>2 DEF GrowsTo
<1>5. /\ z2 \in Nat /\ Len(C3[c]) = z2 + 1 /\ C3[c][z2 + 1] = i2
      /\ \A j \in 1 .. z2 : C3[c][j] = C2[c][j]
      /\ \A j \in 0 .. z2 : E3[c][j] = E2[c][j]
    BY <1>3 DEF GrowsTo
<1>a. cur \subseteq E[c][z]
    BY <1>1 DEF Reach
<1> HIDE DEF z, z2, cur2
<1>6. /\ z \in 0 .. z /\ z \in 0 .. z2 /\ z + 1 \in 1 .. z2 /\ z2 + 1 = z + 2
    BY <1>4
<1>7. cur \subseteq E3[c][z] /\ C3[c][z + 1] = i1 /\ C3[c][z + 2] = i2
    BY <1>4, <1>5, <1>6, <1>a
<1>8. Piece(request, C3[c], z, Len(C3[c]), E3[c][z], K, n, T)
    BY <1>4, <1>5, <1>6, <1>7 DEF Stands2
<1>9. Chosen(With(R, c, request), C3, c, cur2 \cup Defs(i2), Narrow(next2, cur2, i2), T, K, n, omit)
    BY <1>3, <1>8, ReachAsked
<1> QED BY <1>9 DEF C3, C2, cur2, next2

(* The next block. *)
LEMMA ChosenOn ==
    ASSUME NEW R, NEW C, NEW c, NEW cur, NEW next, NEW T, NEW K, NEW n, NEW omit,
           Chosen(R, C, c, cur, next, T, K, n, omit), c < Blocks
    PROVE  Chosen(R, C, c + 1, next[c + 1], next, T, K, n, omit)
<1>1. PICK E, cut : /\ Half(R, C, E, cut, T, K, n, omit, c, Len(C[c]))
                    /\ cur \subseteq E[c][Len(C[c])]
                    /\ \A b \in (c + 1) .. Blocks : next[b] \subseteq E[b][0]
    BY DEF Chosen
<1>2. /\ Body(C, E, K, n, omit) /\ (\E S : Code(R, S)) /\ T \subseteq CodeRegs(n)
      /\ (\A t \in T : IsVReg(t)) /\ c \in 1 .. Blocks
      /\ (\A b \in (c + 1) .. Blocks : R[b] = <<>> /\ C[b] = <<>>)
      /\ (\A b \in 1 .. Blocks : /\ \A i \in 0 .. Len(R[b]) : cut[b][i] \in 0 .. Len(C[b])
                                 /\ cut[b][0] = 0
                                 /\ cut[b][Len(R[b])] = IF b = c THEN Len(C[c]) ELSE Len(C[b]))
      /\ \A b \in 1 .. Blocks : \A i \in 1 .. Len(R[b]) :
            /\ Piece(R[b][i], C[b], cut[b][i - 1], cut[b][i], E[b][cut[b][i - 1]], K, n, T)
            /\ Leads(R[b][i], b)
    BY <1>1 DEF Half
<1>3. /\ c + 1 \in 1 .. Blocks /\ c + 1 \in (c + 1) .. Blocks
      /\ \A b \in ((c + 1) + 1) .. Blocks : b \in (c + 1) .. Blocks
    BY <1>2, RegAllocAssumption
<1>4. R[c + 1] = <<>> /\ C[c + 1] = <<>> /\ Len(R[c + 1]) = 0 /\ Len(C[c + 1]) = 0
    BY <1>2, <1>3
<1>5. \A b \in 1 .. Blocks : Len(C[b]) \in Nat /\ Len(R[b]) \in Nat
    BY <1>2 DEF Body, Code
<1>6. Half(R, C, E, cut, T, K, n, omit, c + 1, Len(C[c + 1]))
    <2>1. \A b \in 1 .. Blocks :
             /\ \A i \in 0 .. Len(R[b]) : cut[b][i] \in 0 .. Len(C[b])
             /\ cut[b][0] = 0
             /\ cut[b][Len(R[b])] = IF b = c + 1 THEN Len(C[c + 1]) ELSE Len(C[b])
             /\ b = c + 1 => \A i \in 0 .. Len(R[b]) : cut[b][i] <= Len(C[c + 1])
        <3>1. \A i \in 0 .. Len(R[c + 1]) : i = 0
            BY <1>4
        <3>2. cut[c + 1][0] = 0
            BY <1>2, <1>3
        <3>3. \A i \in 0 .. Len(R[c + 1]) : cut[c + 1][i] <= Len(C[c + 1])
            BY <1>4, <3>1, <3>2
        <3> QED BY <1>2, <3>3
    <2>2. Len(C[c + 1]) \in 0 .. Len(C[c + 1])
        BY <1>4
    <2>3. \A b \in ((c + 1) + 1) .. Blocks : R[b] = <<>> /\ C[b] = <<>>
        BY <1>2, <1>3
    <2> QED BY <1>2, <1>3, <2>1, <2>2, <2>3 DEF Half
<1>7. next[c + 1] \subseteq E[c + 1][Len(C[c + 1])]
    BY <1>1, <1>3, <1>4
<1>8. \A b \in ((c + 1) + 1) .. Blocks : next[b] \subseteq E[b][0]
    BY <1>1, <1>3
<1> QED BY <1>6, <1>7, <1>8 DEF Chosen

(* Fewer registers. *)
LEMMA ChosenLess ==
    ASSUME NEW R, NEW C, NEW c, NEW cur, NEW next, NEW T, NEW K, NEW n, NEW omit,
           Chosen(R, C, c, cur, next, T, K, n, omit), NEW cur2, NEW next2, cur2 \subseteq cur,
           \A b \in (c + 1) .. Blocks : next2[b] \subseteq next[b]
    PROVE  Chosen(R, C, c, cur2, next2, T, K, n, omit)
<1>1. PICK E, cut : /\ Half(R, C, E, cut, T, K, n, omit, c, Len(C[c]))
                    /\ cur \subseteq E[c][Len(C[c])]
                    /\ \A b \in (c + 1) .. Blocks : next[b] \subseteq E[b][0]
    BY DEF Chosen
<1>2. cur2 \subseteq E[c][Len(C[c])] /\ \A b \in (c + 1) .. Blocks : next2[b] \subseteq E[b][0]
    BY <1>1
<1> QED BY <1>1, <1>2 DEF Chosen

-----------------------------------------------------------------------------
(* Instruction selection keeps what it needs. *)

Vs(S) == {r \in S : IsVReg(r)}

Ended(A, c) == \A b \in 1 .. Blocks : b < c => Len(A[b]) > 0 /\ A[b][Len(A[b])].kind = "J"

(* K: the constants. *)
Names(R, K) ==
    /\ \A b \in 1 .. Blocks : \A i \in 1 .. Len(R[b]) :
          R[b][i].kind = "Li" => R[b][i].rd \in DOMAIN K /\ K[R[b][i].rd] = Number(R[b][i].imm)
    /\ \A r \in DOMAIN K : IsVReg(r) =>
          \E b \in 1 .. Blocks : \E i \in 1 .. Len(R[b]) : R[b][i].kind = "Li" /\ R[b][i].rd = r

Nexts(d) == [b \in 1 .. Blocks |-> Vs(d[b])]

SelIn(R, C, c, d, n, omit, T, K) ==
    /\ Chosen(R, C, c, Vs(d[c]), Nexts(d), T, K, n, omit)
    /\ DOMAIN d = 1 .. Blocks
    /\ Vs(d[c]) \subseteq CodeRegs(n) \ T
    /\ Ended(R, c) /\ Ended(C, c)
    /\ R[Blocks] = <<>> /\ C[Blocks] = <<>>
    /\ Names(R, K)

LEMMA ChosenIs ==
    ASSUME NEW R, NEW C, NEW c, NEW cur, NEW next, NEW T, NEW K, NEW n, NEW omit,
           Chosen(R, C, c, cur, next, T, K, n, omit)
    PROVE  /\ n \in Nat /\ KnownOk(K, n) /\ c \in 1 .. Blocks
           /\ T \subseteq CodeRegs(n) /\ (\A t \in T : IsVReg(t))
           /\ Code(C, Wanted(n, omit)) /\ (\E S : Code(R, S))
           /\ (\A b \in (c + 1) .. Blocks : R[b] = <<>> /\ C[b] = <<>>)
BY DEF Chosen, Half, Body

(* What the code, the requests and the registers have become. *)
EmitTo(R, C, c, R2, C2, cur2, next2, d2, n2, T2, K2, omit) ==
    /\ Chosen(R2, C2, c, cur2, next2, T2, K2, n2, omit)
    /\ \A b \in 1 .. Blocks : b # c => R2[b] = R[b] /\ C2[b] = C[b]
    /\ DOMAIN d2 = 1 .. Blocks /\ Vs(d2[c]) \subseteq cur2 /\ Vs(d2[c]) \subseteq CodeRegs(n2) \ T2
    /\ \A b \in (c + 1) .. Blocks : Vs(d2[b]) \subseteq next2[b]
    /\ Names(R2, K2)

LEMMA EmitIn ==
    ASSUME NEW R, NEW C, NEW c, NEW d, NEW n, NEW omit, NEW T, NEW K,
           SelIn(R, C, c, d, n, omit, T, K), c < Blocks,
           NEW R2, NEW C2, NEW cur2, NEW next2, NEW T2, NEW K2, NEW n2, NEW d2,
           EmitTo(R, C, c, R2, C2, cur2, next2, d2, n2, T2, K2, omit)
    PROVE  SelIn(R2, C2, c, d2, n2, omit, T2, K2)
<1>a. /\ Chosen(R2, C2, c, cur2, next2, T2, K2, n2, omit)
      /\ \A b \in 1 .. Blocks : b # c => R2[b] = R[b] /\ C2[b] = C[b]
      /\ DOMAIN d2 = 1 .. Blocks /\ Vs(d2[c]) \subseteq cur2 /\ Vs(d2[c]) \subseteq CodeRegs(n2) \ T2
      /\ \A b \in (c + 1) .. Blocks : Vs(d2[b]) \subseteq next2[b]
      /\ Names(R2, K2)
    BY DEF EmitTo
<1>0. c \in 1 .. Blocks
    BY <1>a, ChosenIs
<1>1. \A b \in (c + 1) .. Blocks : Nexts(d2)[b] \subseteq next2[b]
    <2>1. \A b \in (c + 1) .. Blocks : b \in 1 .. Blocks
        BY <1>0, RegAllocAssumption
    <2> QED BY <1>a, <2>1 DEF Nexts
<1>2. Chosen(R2, C2, c, Vs(d2[c]), Nexts(d2), T2, K2, n2, omit)
    <2> DEFINE curz == Vs(d2[c])
               nextz == Nexts(d2)
    <2>1. curz \subseteq cur2 /\ \A b \in (c + 1) .. Blocks : nextz[b] \subseteq next2[b]
        BY <1>a, <1>1
    <2>2. Chosen(R2, C2, c, cur2, next2, T2, K2, n2, omit)
        BY <1>a
    <2> HIDE DEF curz, nextz
    <2>3. Chosen(R2, C2, c, curz, nextz, T2, K2, n2, omit)
        BY <2>1, <2>2, ChosenLess
    <2> QED BY <2>3 DEF curz, nextz
<1>3. Ended(R2, c) /\ Ended(C2, c)
    <2>1. \A b \in 1 .. Blocks : b < c => b # c
        BY <1>0, RegAllocAssumption
    <2> QED BY <1>a, <2>1 DEF Ended, SelIn
<1>4. R2[Blocks] = <<>> /\ C2[Blocks] = <<>>
    <2>1. Blocks \in 1 .. Blocks /\ Blocks # c
        BY <1>0, RegAllocAssumption
    <2> QED BY <1>a, <2>1 DEF SelIn
<1>5. DOMAIN d2 = 1 .. Blocks /\ Vs(d2[c]) \subseteq CodeRegs(n2) \ T2 /\ Names(R2, K2)
    BY <1>a
<1> QED BY <1>2, <1>3, <1>4, <1>5, Zenon DEF SelIn

LEMMA NamesKept ==
    ASSUME NEW S, NEW R, Code(R, S), NEW K, Names(R, K), NEW c \in 1 .. Blocks, NEW request,
           NEW K2, \A r \in DOMAIN K : r \in DOMAIN K2 /\ K2[r] = K[r],
           request.kind = "Li" => request.rd \in DOMAIN K2 /\ K2[request.rd] = Number(request.imm),
           \A r \in DOMAIN K2 : r \in DOMAIN K \/ (request.kind = "Li" /\ request.rd = r)
    PROVE  Names(With(R, c, request), K2)
<1> DEFINE R2 == With(R, c, request)
           z == Len(R[c])
<1>1. /\ z \in Nat /\ Len(R2[c]) = z + 1 /\ R2[c][z + 1] = request
      /\ \A j \in 1 .. z : R2[c][j] = R[c][j]
      /\ \A b \in 1 .. Blocks : b # c => R2[b] = R[b]
    <2>1. Code(R, S \cup {request})
        BY DEF Code
    <2> QED BY <2>1, WithIs
<1> HIDE DEF R2, z
<1>2. ASSUME NEW b \in 1 .. Blocks, NEW i \in 1 .. Len(R2[b])
      PROVE  (i \in 1 .. Len(R[b]) /\ R2[b][i] = R[b][i]) \/ R2[b][i] = request
    <2>1. CASE b # c
        BY <1>1, <2>1
    <2>2. CASE b = c
        <3>1. i \in 1 .. z \/ i = z + 1
            BY <1>1, <2>2
        <3> QED BY <1>1, <2>2, <3>1 DEF z
    <2> QED BY <2>1, <2>2
<1>3. ASSUME NEW b \in 1 .. Blocks, NEW i \in 1 .. Len(R[b])
      PROVE  i \in 1 .. Len(R2[b]) /\ R2[b][i] = R[b][i]
    <2>1. CASE b # c
        BY <1>1, <2>1
    <2>2. CASE b = c
        <3>1. i \in 1 .. z /\ i \in 1 .. (z + 1)
            BY <1>1, <2>2 DEF z
        <3> QED BY <1>1, <2>2, <3>1 DEF z
    <2> QED BY <2>1, <2>2
<1>4. ASSUME NEW b \in 1 .. Blocks, NEW i \in 1 .. Len(R2[b]), R2[b][i].kind = "Li"
      PROVE  R2[b][i].rd \in DOMAIN K2 /\ K2[R2[b][i].rd] = Number(R2[b][i].imm)
    <2>1. CASE i \in 1 .. Len(R[b]) /\ R2[b][i] = R[b][i]
        <3>1. R[b][i].rd \in DOMAIN K /\ K[R[b][i].rd] = Number(R[b][i].imm)
            BY <1>4, <2>1 DEF Names
        <3> QED BY <2>1, <3>1
    <2>2. CASE R2[b][i] = request
        BY <1>4, <2>2
    <2> QED BY <1>2, <2>1, <2>2
<1>5. ASSUME NEW r \in DOMAIN K2, IsVReg(r)
      PROVE  \E b \in 1 .. Blocks : \E i \in 1 .. Len(R2[b]) : R2[b][i].kind = "Li" /\ R2[b][i].rd = r
    <2>1. CASE r \in DOMAIN K
        <3>1. PICK b \in 1 .. Blocks : \E i \in 1 .. Len(R[b]) : R[b][i].kind = "Li" /\ R[b][i].rd = r
            BY <1>5, <2>1 DEF Names
        <3>2. PICK i \in 1 .. Len(R[b]) : R[b][i].kind = "Li" /\ R[b][i].rd = r
            BY <3>1
        <3> QED BY <1>3, <3>2
    <2>2. CASE request.kind = "Li" /\ request.rd = r
        <3>1. z + 1 \in 1 .. Len(R2[c])
            BY <1>1
        <3> QED BY <1>1, <2>2, <3>1
    <2> QED BY <2>1, <2>2
<1> QED BY <1>4, <1>5 DEF Names, R2

(* K with a value for r. *)
Knows(K, r, v) == [q \in DOMAIN K \cup {r} |-> IF q = r THEN v ELSE K[q]]

LEMMA WiderBy ==
    ASSUME NEW n \in Nat, NEW K, KnownOk(K, n), NEW T, T \subseteq CodeRegs(n), \A t \in T : IsVReg(t)
    PROVE  /\ Wider(T, K, n, T, K, n) /\ Wider(T, K, n, T, K, n + 1)
           /\ Wider(T, K, n, T \cup {V(n)}, K, n + 1)
           /\ \A v : Wider(T, K, n, T, Knows(K, V(n), v), n + 1)
           /\ V(n) \in CodeRegs(n + 1) /\ V(n) \notin CodeRegs(n) /\ V(n) \notin DOMAIN K
<1>1. n + 1 \in Nat /\ n <= n + 1 /\ n <= n
    OBVIOUS
<1>2. CodeRegs(n) \subseteq CodeRegs(n + 1)
    BY <1>1, MoreCodeRegs
<1>3. V(n) \in CodeRegs(n + 1) /\ V(n) \notin CodeRegs(n)
    <2>1. n \in 0 .. ((n + 1) - 1) /\ n \notin 0 .. (n - 1)
        BY <1>1
    <2>2. V(n) \in CodeRegs(n + 1)
        BY <2>1 DEF CodeRegs
    <2>3. V(n) \notin CodeRegs(n)
        BY <2>1, RegsDiffer DEF CodeRegs
    <2> QED BY <2>2, <2>3
<1>4. V(n) \notin DOMAIN K
    <2>1. V(n) # zero
        BY RegsDiffer
    <2> QED BY <1>3, <2>1 DEF KnownOk
<1>5. KnownOk(K, n + 1)
    BY <1>2 DEF KnownOk
<1>6. Wider(T, K, n, T, K, n) /\ Wider(T, K, n, T, K, n + 1)
    BY <1>1, <1>2, <1>5 DEF Wider
<1>7. Wider(T, K, n, T \cup {V(n)}, K, n + 1)
    BY <1>1, <1>2, <1>3, <1>5, RegsDiffer DEF Wider
<1>8. ASSUME NEW v PROVE Wider(T, K, n, T, Knows(K, V(n), v), n + 1)
    <2> DEFINE K2 == Knows(K, V(n), v)
    <2>1. DOMAIN K2 = DOMAIN K \cup {V(n)} /\ \A r \in DOMAIN K : K2[r] = K[r]
        BY <1>4 DEF Knows
    <2> HIDE DEF K2
    <2>2. IsVReg(V(n))
        BY RegsDiffer
    <2>3. KnownOk(K2, n + 1)
        BY <1>3, <1>5, <2>1, <2>2 DEF KnownOk
    <2> QED BY <1>1, <1>2, <1>3, <2>1, <2>3 DEF Wider, K2
<1> QED BY <1>3, <1>4, <1>6, <1>7, <1>8
=============================================================================
