--------------------------- MODULE RegAllocProofs ---------------------------
(***************************************************************************)
(* RegAlloc for any registers, immediates, adjustments and blocks: code    *)
(* that was selected, spilled or allocated does what was asked for.        *)
(* Actions of selection keep Selects, the invariant of a body under        *)
(* construction; loads and stores around the instructions that touch a     *)
(* spilled register are a case of runs side by side (SpillEqual), and so   *)
(* is any allocation.                                                      *)
(***************************************************************************)
EXTENDS RegAllocRunProofs

(* An instruction that is its own code. *)
InstOk(inst, cur, n, omit, T) ==
    /\ inst \in Wanted(n, omit) /\ inst \in Instructions(CodeRegs(n) \ T)
    /\ Uses(inst, omit) \subseteq cur \cup Fixed /\ inst.kind \notin {"J", "Br", "CondBr"}

KnownTo(K, K2, inst) ==
    /\ SetsKnown(inst, K2)
    /\ (inst.kind = "Li" => inst.rd \in DOMAIN K2 /\ K2[inst.rd] = Number(inst.imm))
    /\ \A r \in DOMAIN K2 : r \in DOMAIN K \/ (inst.kind = "Li" /\ inst.rd = r)

DefinedTo(d, d2, c, inst, n2, T) ==
    /\ DOMAIN d2 = 1 .. Blocks
    /\ Vs(d2[c]) \subseteq Vs(d[c]) \cup Defs(inst) /\ Vs(d2[c]) \subseteq CodeRegs(n2) \ T
    /\ \A b \in (c + 1) .. Blocks : Vs(d2[b]) \subseteq Vs(d[b])

LEMMA PlainStands ==
    ASSUME NEW inst, NEW cur, NEW n, NEW T, NEW K, inst \in Instructions(CodeRegs(n) \ T),
           inst.kind # "Br"
    PROVE  Stands1(inst, inst, cur, K, n, T)
BY DEF Stands1, Piece, PlainPiece

LEMMA AppendIs ==
    ASSUME NEW S, NEW s \in Seq(S), NEW x, NEW y
    PROVE  s \o <<x>> = Append(s, x) /\ s \o <<x, y>> = Append(Append(s, x), y)
<1>1. s \in Seq(S \cup {x, y})
    OBVIOUS
<1>2. s \o <<x>> = Append(s, x)
    BY <1>1
<1>3. s \o <<x, y>> = Append(Append(s, x), y)
    BY <1>1
<1> QED BY <1>2, <1>3

LEMMA PlainIn ==
    ASSUME NEW R, NEW C, NEW c, NEW d, NEW n, NEW omit, NEW T, NEW K,
           SelIn(R, C, c, d, n, omit, T, K), c < Blocks,
           NEW inst, NEW K2, NEW n2, NEW d2,
           Wider(T, K, n, T, K2, n2), InstOk(inst, Vs(d[c]), n2, omit, T), KnownTo(K, K2, inst),
           DefinedTo(d, d2, c, inst, n2, T)
    PROVE  SelIn(With(R, c, inst), With(C, c, inst), c, d2, n2, omit, T, K2)
<1> DEFINE cur == Vs(d[c])
           R2 == With(R, c, inst)
           C2 == With(C, c, inst)
<1>1. Chosen(R, C, c, cur, Nexts(d), T, K, n, omit) /\ Names(R, K)
    BY DEF SelIn
<1>2. /\ c \in 1 .. Blocks /\ Code(C, Wanted(n, omit)) /\ (\E S : Code(R, S))
    BY <1>1, ChosenIs
<1>3. Chosen(R, C, c, cur, Nexts(d), T, K2, n2, omit)
    BY <1>1, ChosenWider
<1>4. Fit(inst, cur, c, K2, n2, omit)
    BY DEF Fit, InstOk, IsTerminator, KnownTo
<1>5. Stands1(inst, inst, cur, K2, n2, T) /\ Leads(inst, c)
    BY PlainStands DEF InstOk, Leads
<1> DEFINE next2 == Narrow(Nexts(d), cur, inst)
<1>6. Chosen(R2, C2, c, cur \cup Defs(inst), next2, T, K2, n2, omit)
    <2> HIDE DEF cur
    <2> QED BY <1>3, <1>4, <1>5, ChosenOne
<1>7. \A b \in (c + 1) .. Blocks : Vs(d2[b]) \subseteq next2[b]
    <2>1. \A b \in (c + 1) .. Blocks : b \in 1 .. Blocks
        BY <1>2, RegAllocAssumption
    <2> QED BY <2>1 DEF DefinedTo, Narrow, Nexts, IsTerminator, InstOk
<1>8. \A b \in 1 .. Blocks : b # c => R2[b] = R[b] /\ C2[b] = C[b]
    <2>1. PICK S : Code(R, S)
        BY <1>2
    <2>2. Code(R, S \cup {inst}) /\ Code(C, Wanted(n, omit) \cup {inst})
        BY <1>2, <2>1 DEF Code
    <2>3. \A b \in 1 .. Blocks : b # c => R2[b] = R[b]
        BY <1>2, <2>2, WithIs
    <2>4. \A b \in 1 .. Blocks : b # c => C2[b] = C[b]
        BY <1>2, <2>2, WithIs
    <2> QED BY <2>3, <2>4, Zenon
<1>9. Names(R2, K2)
    <2>1. \A r \in DOMAIN K : r \in DOMAIN K2 /\ K2[r] = K[r]
        BY DEF Wider
    <2>2. PICK S : Code(R, S)
        BY <1>2
    <2> QED BY <1>1, <1>2, <2>1, <2>2, NamesKept DEF KnownTo
<1> HIDE DEF R2, C2, next2
<1>10. Vs(d2[c]) \subseteq cur \cup Defs(inst) /\ Vs(d2[c]) \subseteq CodeRegs(n2) \ T
       /\ DOMAIN d2 = 1 .. Blocks
    BY DEF DefinedTo
<1> DEFINE cur2 == cur \cup Defs(inst)
<1>12. Chosen(R2, C2, c, cur2, next2, T, K2, n2, omit) /\ Vs(d2[c]) \subseteq cur2
    BY <1>6, <1>10
<1> HIDE DEF cur, cur2
<1>13. EmitTo(R, C, c, R2, C2, cur2, next2, d2, n2, T, K2, omit)
    BY <1>12, <1>7, <1>8, <1>9, <1>10 DEF EmitTo
<1>11. SelIn(R2, C2, c, d2, n2, omit, T, K2)
    BY <1>13, EmitIn
<1> QED BY <1>11 DEF R2, C2

-----------------------------------------------------------------------------
(* The invariant of instruction selection. *)

Picked(T, K) == SelIn(requests, code, curr_block, defined, vreg_counter, omit_frame_pointer, T, K)

Selects == phase = "select" => storage = 8 /\ \E T, K : Picked(T, K)

LEMMA PickedIs ==
    ASSUME NEW T, NEW K, Picked(T, K)
    PROVE  /\ vreg_counter \in Nat /\ KnownOk(K, vreg_counter) /\ curr_block \in 1 .. Blocks
           /\ T \subseteq CodeRegs(vreg_counter) /\ (\A t \in T : IsVReg(t))
           /\ Code(code, Wanted(vreg_counter, omit_frame_pointer)) /\ (\E S : Code(requests, S))
           /\ Locals = Vs(defined[curr_block]) /\ DOMAIN defined = 1 .. Blocks
           /\ Locals \subseteq CodeRegs(vreg_counter) \ T
<1>1. Locals = Vs(defined[curr_block])
    BY DEF Locals, Readable, Vs
<1>2. /\ Chosen(requests, code, curr_block, Vs(defined[curr_block]), Nexts(defined), T, K, vreg_counter, omit_frame_pointer)
      /\ DOMAIN defined = 1 .. Blocks
      /\ Vs(defined[curr_block]) \subseteq CodeRegs(vreg_counter) \ T
    BY DEF Picked, SelIn
<1>3. /\ vreg_counter \in Nat /\ KnownOk(K, vreg_counter) /\ curr_block \in 1 .. Blocks
      /\ T \subseteq CodeRegs(vreg_counter) /\ (\A t \in T : IsVReg(t))
      /\ Code(code, Wanted(vreg_counter, omit_frame_pointer)) /\ (\E S : Code(requests, S))
    BY <1>2, ChosenIs
<1> QED BY <1>1, <1>2, <1>3

LEMMA EmitsPlain ==
    ASSUME NEW T, NEW K, Picked(T, K), storage = 8, NEW inst, Emit(inst, <<inst>>), NEW K2,
           Wider(T, K, vreg_counter, T, K2, vreg_counter'),
           InstOk(inst, Locals, vreg_counter', omit_frame_pointer, T), KnownTo(K, K2, inst),
           DefinedTo(defined, defined', curr_block, inst, vreg_counter', T)
    PROVE  Selects'
<1>1. /\ curr_block \in 1 .. Blocks /\ Locals = Vs(defined[curr_block])
      /\ Code(code, Wanted(vreg_counter, omit_frame_pointer)) /\ (\E S : Code(requests, S))
    BY PickedIs
<1>2. /\ curr_block < Blocks
      /\ requests' = [requests EXCEPT ![curr_block] = Append(@, inst)]
      /\ code' = [code EXCEPT ![curr_block] = @ \o <<inst>>]
      /\ omit_frame_pointer' = omit_frame_pointer /\ curr_block' = curr_block /\ storage' = storage
    BY DEF Emit
<1>3. requests' = With(requests, curr_block, inst)
    BY <1>2 DEF With
<1>4. code' = With(code, curr_block, inst)
    <2>1. code[curr_block] \in Seq(Wanted(vreg_counter, omit_frame_pointer))
        BY <1>1 DEF Code
    <2>2. code[curr_block] \o <<inst>> = Append(code[curr_block], inst)
        BY <2>1, AppendIs
    <2> QED BY <1>2, <2>2 DEF With
<1>5. SelIn(With(requests, curr_block, inst), With(code, curr_block, inst), curr_block, defined',
            vreg_counter', omit_frame_pointer, T, K2)
    <2>1. InstOk(inst, Vs(defined[curr_block]), vreg_counter', omit_frame_pointer, T)
        BY <1>1
    <2>2. SelIn(requests, code, curr_block, defined, vreg_counter, omit_frame_pointer, T, K)
        BY DEF Picked
    <2> QED BY <1>2, <2>1, <2>2, PlainIn
<1>6. Picked(T, K2)'
    BY <1>2, <1>3, <1>4, <1>5 DEF Picked
<1> QED BY <1>2, <1>6 DEF Selects

(* What is wanted beyond the registers. *)
Plain(inst, omit) ==
    /\ inst.kind = "Call" => inst.arg_regs \subseteq {a0}
    /\ inst.kind \in {"Load", "LoadAddr", "Store"} =>
          inst.loc = ProgramSlot \/ (inst.loc.kind = "RegOffset" /\ inst.loc.offset = 8)
    /\ Base(omit) \notin Defs(inst) /\ zero \notin Defs(inst) /\ fp \notin Defs(inst)
    /\ inst.kind \notin {"J", "Br", "CondBr"}

LEMMA InstOkIf ==
    ASSUME NEW inst, NEW Q, NEW n, NEW T, NEW cur, NEW omit, inst \in Instructions(Q),
           Q \subseteq CodeRegs(n) \ T, Plain(inst, omit), Uses(inst, omit) \subseteq cur \cup Fixed
    PROVE  InstOk(inst, cur, n, omit, T)
<1>1. inst \in Instructions(CodeRegs(n) \ T)
    BY MoreInsts
<1>2. inst \in Instructions(CodeRegs(n))
    <2>1. CodeRegs(n) \ T \subseteq CodeRegs(n)
        OBVIOUS
    <2> QED BY <1>1, <2>1, MoreInsts
<1> QED BY <1>1, <1>2 DEF InstOk, Wanted, Plain

(* An instruction into a new register. *)
LEMMA EmitsNew ==
    ASSUME Selects, NEW inst, EmitNew(inst), inst.kind \in Defining, inst.rd = NewVReg(0),
           inst \in Instructions(Locals \cup Fixed \cup {NewVReg(0)}), Plain(inst, omit_frame_pointer),
           Uses(inst, omit_frame_pointer) \subseteq Locals \cup Fixed
    PROVE  Selects'
<1> DEFINE n == vreg_counter
           v == NewVReg(0)
<1>1. /\ Emit(inst, <<inst>>) /\ phase = "select" /\ vreg_counter' = n + 1
      /\ defined' = [defined EXCEPT ![curr_block] = @ \cup {v}]
    BY DEF EmitNew, Emit, Defining1
<1>2. storage = 8 /\ \E T, K : Picked(T, K)
    BY <1>1 DEF Selects
<1>3. PICK T, K : Picked(T, K)
    BY <1>2
<1>4. /\ n \in Nat /\ KnownOk(K, n) /\ curr_block \in 1 .. Blocks
      /\ T \subseteq CodeRegs(n) /\ (\A t \in T : IsVReg(t))
      /\ Locals = Vs(defined[curr_block]) /\ DOMAIN defined = 1 .. Blocks
      /\ Locals \subseteq CodeRegs(n) \ T
    BY <1>3, PickedIs
<1>5. v = V(n)
    BY <1>4 DEF NewVReg
<1>6. /\ Wider(T, K, n, T, K, n + 1) /\ \A x : Wider(T, K, n, T, Knows(K, V(n), x), n + 1)
      /\ V(n) \in CodeRegs(n + 1) /\ V(n) \notin CodeRegs(n) /\ V(n) \notin DOMAIN K
    BY <1>4, WiderBy
<1>7. CodeRegs(n) \subseteq CodeRegs(n + 1)
    BY <1>4, MoreCodeRegs
<1>8. Locals \cup Fixed \cup {v} \subseteq CodeRegs(n + 1) \ T
    <2> HIDE DEF n, v
    <2>1. Fixed \subseteq CodeRegs(n + 1) /\ \A r \in Fixed : ~IsVReg(r)
        BY CodeRegsIn, RegsDiffer DEF Fixed
    <2>2. v \in CodeRegs(n + 1) /\ v \notin T
        BY <1>4, <1>5, <1>6, Zenon
    <2> QED BY <1>4, <1>7, <2>1, <2>2, Zenon
<1>9. InstOk(inst, Locals, n + 1, omit_frame_pointer, T)
    BY <1>8, InstOkIf
<1>10. DefinedTo(defined, defined', curr_block, inst, n + 1, T)
    <2>1. defined'[curr_block] = defined[curr_block] \cup {v} /\ DOMAIN defined' = 1 .. Blocks
          /\ \A b \in 1 .. Blocks : b # curr_block => defined'[b] = defined[b]
        BY <1>1, <1>4
    <2>2. Vs(defined'[curr_block]) \subseteq Vs(defined[curr_block]) \cup {v}
        BY <2>1 DEF Vs
    <2>3. Defs(inst) = {v}
        BY DEF Defs, Defining
    <2>4. \A b \in (curr_block + 1) .. Blocks : b \in 1 .. Blocks /\ b # curr_block
        BY <1>4, RegAllocAssumption
    <2> QED BY <1>4, <1>8, <2>1, <2>2, <2>3, <2>4 DEF DefinedTo
<1>11. CASE inst.kind = "Li"
    <2> DEFINE K2 == Knows(K, v, Number(inst.imm))
    <2>1. DOMAIN K2 = DOMAIN K \cup {v} /\ K2[v] = Number(inst.imm)
        BY DEF Knows
    <2>2. Wider(T, K, n, T, K2, n + 1)
        BY <1>5, <1>6
    <2> HIDE DEF K2, v
    <2>3. KnownTo(K, K2, inst)
        BY <1>11, <2>1 DEF KnownTo, SetsKnown, v
    <2> QED BY <1>1, <1>2, <1>3, <1>9, <1>10, <2>2, <2>3, EmitsPlain
<1>12. CASE inst.kind # "Li"
    <2>1. KnownTo(K, K, inst)
        BY <1>5, <1>6, <1>12 DEF KnownTo, SetsKnown
    <2> QED BY <1>1, <1>2, <1>3, <1>6, <1>9, <1>10, <2>1, EmitsPlain
<1> QED BY <1>11, <1>12

LEMMA AskedIs ==
    ASSUME NEW S, Code(requests, S)
    PROVE  /\ \A b \in 1 .. Blocks : \A i \in 1 .. Len(requests[b]) :
                 \E p \in DOMAIN Asked : Asked[p] = requests[b][i]
           /\ \A p \in DOMAIN Asked : \E b \in 1 .. Blocks : \E i \in 1 .. Len(requests[b]) :
                 Asked[p] = requests[b][i]
<1>0. Blocks \in Nat \ {0} /\ requests \in [1 .. Blocks -> Seq(S)]
    BY RegAllocAssumption DEF Code
<1>1. PICK st : Layout(requests, Blocks, st)
    BY <1>0, FlattenLayout
<1>2. FlattenSeq(requests) \in Seq(S)
    BY <1>0, FlattenLayout
<1>3. DOMAIN Asked = 1 .. Len(FlattenSeq(requests)) /\ Asked = FlattenSeq(requests)
    BY <1>2 DEF Asked
<1>4. /\ \A b \in 1 .. (Blocks + 1) : st[b] \in Nat \ {0}
      /\ \A b \in 1 .. Blocks : Len(requests[b]) \in Nat /\ st[b + 1] = st[b] + Len(requests[b])
      /\ \A a \in 1 .. Blocks : \A b \in (a + 1) .. (Blocks + 1) :
            st[a] + Len(requests[a]) <= st[b]
      /\ Len(FlattenSeq(requests)) \in Nat /\ Len(FlattenSeq(requests)) = st[Blocks + 1] - 1
    BY <1>1, CodeStarts
<1>5. ASSUME NEW b \in 1 .. Blocks, NEW i \in 1 .. Len(requests[b])
      PROVE  \E p \in DOMAIN Asked : Asked[p] = requests[b][i]
    <2> DEFINE q == st[b]
               l == Len(requests[b])
               z == st[Blocks + 1]
    <2>1. b \in 1 .. (Blocks + 1) /\ Blocks + 1 \in (b + 1) .. (Blocks + 1) /\ Blocks + 1 \in 1 .. (Blocks + 1)
        BY <1>0
    <2>2. q \in Nat \ {0} /\ l \in Nat /\ q + l <= z /\ z \in Nat /\ i \in 1 .. l
        BY <1>4, <2>1
    <2>3. Len(FlattenSeq(requests)) = z - 1
        BY <1>4
    <2>4. FlattenSeq(requests)[q + i - 1] = requests[b][i]
        BY <1>1 DEF Layout
    <2> HIDE DEF q, l, z
    <2>5. q + i - 1 \in 1 .. (z - 1)
        BY <2>2
    <2> QED BY <1>3, <2>3, <2>4, <2>5
<1>6. ASSUME NEW p \in DOMAIN Asked
      PROVE  \E b \in 1 .. Blocks : \E i \in 1 .. Len(requests[b]) : Asked[p] = requests[b][i]
    <2>1. p \in 1 .. Len(FlattenSeq(requests))
        BY <1>3
    <2>2. PICK b \in 1 .. Blocks : \E i \in 1 .. Len(requests[b]) :
             p = st[b] + i - 1 /\ FlattenSeq(requests)[p] = requests[b][i]
        BY <1>1, <2>1, PosOf
    <2> QED BY <1>3, <2>2
<1> QED BY <1>5, <1>6

LEMMA ConstantIs ==
    ASSUME NEW T, NEW K, Picked(T, K), NEW r \in Locals
    PROVE  r \in Constants <=> r \in DOMAIN K
<1>1. PICK S : Code(requests, S)
    BY PickedIs
<1>2. Names(requests, K)
    BY DEF Picked, SelIn
<1>3. IsVReg(r)
    BY DEF Locals
<1>4. ASSUME r \in DOMAIN K PROVE r \in Constants
    <2>1. PICK b \in 1 .. Blocks : \E i \in 1 .. Len(requests[b]) :
             requests[b][i].kind = "Li" /\ requests[b][i].rd = r
        BY <1>2, <1>3, <1>4 DEF Names
    <2>2. PICK i \in 1 .. Len(requests[b]) : requests[b][i].kind = "Li" /\ requests[b][i].rd = r
        BY <2>1
    <2>3. PICK p \in DOMAIN Asked : Asked[p] = requests[b][i]
        BY <1>1, AskedIs
    <2> QED BY <2>2, <2>3 DEF Constants
<1>5. ASSUME r \in Constants PROVE r \in DOMAIN K
    <2>1. PICK p \in DOMAIN Asked : Asked[p].kind = "Li" /\ Asked[p].rd = r
        BY <1>5 DEF Constants
    <2>2. PICK b \in 1 .. Blocks : \E i \in 1 .. Len(requests[b]) : Asked[p] = requests[b][i]
        BY <1>1, AskedIs
    <2>3. PICK i \in 1 .. Len(requests[b]) : Asked[p] = requests[b][i]
        BY <2>2
    <2> QED BY <1>2, <2>1, <2>3 DEF Names
<1> QED BY <1>4, <1>5

LEMMA ImmIs ==
    ASSUME NEW T, NEW K, Picked(T, K), NEW r \in Constants
    PROVE  r \in DOMAIN K /\ K[r] = Number(Asked[ImmOf(r)].imm)
<1>1. PICK S : Code(requests, S)
    BY PickedIs
<1>2. Names(requests, K)
    BY DEF Picked, SelIn
<1>3. \E i \in DOMAIN Asked : Asked[i].kind = "Li" /\ Asked[i].rd = r
    BY DEF Constants
<1>4. ImmOf(r) \in DOMAIN Asked /\ Asked[ImmOf(r)].kind = "Li" /\ Asked[ImmOf(r)].rd = r
    BY <1>3 DEF ImmOf
<1> DEFINE p == ImmOf(r)
<1> HIDE DEF p
<1>5. p \in DOMAIN Asked /\ Asked[p].kind = "Li" /\ Asked[p].rd = r
    BY <1>4 DEF p
<1>6. PICK b \in 1 .. Blocks : \E i \in 1 .. Len(requests[b]) : Asked[p] = requests[b][i]
    BY <1>1, <1>5, AskedIs
<1>7. PICK i \in 1 .. Len(requests[b]) : Asked[p] = requests[b][i]
    BY <1>6
<1>8. r \in DOMAIN K /\ K[r] = Number(Asked[p].imm)
    BY <1>2, <1>5, <1>7 DEF Names
<1> QED BY <1>8 DEF p

LEMMA EmitsOld ==
    ASSUME Selects, NEW inst, Emit(inst, <<inst>>), UNCHANGED vreg_counter,
           UNCHANGED defined \/ Defining1(a0), inst \in Instructions(Locals \cup Fixed),
           Plain(inst, omit_frame_pointer), Uses(inst, omit_frame_pointer) \subseteq Locals \cup Fixed,
           inst.kind # "Li", inst.kind \in Defining => inst.rd \in (Locals \ Constants) \cup {a0}
    PROVE  Selects'
<1> DEFINE n == vreg_counter
<1>1. phase = "select"
    BY DEF Emit
<1>2. storage = 8 /\ \E T, K : Picked(T, K)
    BY <1>1 DEF Selects
<1>3. PICK T, K : Picked(T, K)
    BY <1>2
<1>4. /\ n \in Nat /\ KnownOk(K, n) /\ curr_block \in 1 .. Blocks
      /\ T \subseteq CodeRegs(n) /\ (\A t \in T : IsVReg(t))
      /\ Locals = Vs(defined[curr_block]) /\ DOMAIN defined = 1 .. Blocks
      /\ Locals \subseteq CodeRegs(n) \ T
    BY <1>3, PickedIs
<1>6. Wider(T, K, n, T, K, n)
    BY <1>4, WiderBy
<1>8. Locals \cup Fixed \subseteq CodeRegs(n) \ T
    BY <1>4, CodeRegsIn, RegsDiffer DEF Fixed
<1>9. InstOk(inst, Locals, n, omit_frame_pointer, T)
    BY <1>8, InstOkIf
<1>10. DefinedTo(defined, defined', curr_block, inst, n, T)
    <2>1. /\ \/ defined'[curr_block] = defined[curr_block]
             \/ defined'[curr_block] = defined[curr_block] \cup {a0}
          /\ DOMAIN defined' = 1 .. Blocks
          /\ \A b \in 1 .. Blocks : b # curr_block => defined'[b] = defined[b]
        <3>1. CASE UNCHANGED defined
            BY <1>4, <3>1
        <3>2. CASE Defining1(a0)
            BY <1>4, <3>2 DEF Defining1
        <3> QED BY <3>1, <3>2
    <2>2. Vs(defined'[curr_block]) = Vs(defined[curr_block])
        BY <2>1, RegsDiffer DEF Vs
    <2>4. \A b \in (curr_block + 1) .. Blocks : b \in 1 .. Blocks /\ b # curr_block
        BY <1>4, RegAllocAssumption
    <2> QED BY <1>4, <1>8, <2>1, <2>2, <2>4 DEF DefinedTo
<1>12. KnownTo(K, K, inst)
    <2>1. a0 \notin DOMAIN K
        BY <1>4, RegsDiffer DEF KnownOk
    <2>2. inst.kind \in Defining => inst.rd \notin DOMAIN K
        BY <1>3, <2>1, ConstantIs
    <2> QED BY <2>2 DEF KnownTo, SetsKnown
<1> QED BY <1>2, <1>3, <1>6, <1>9, <1>10, <1>12, EmitsPlain

LEMMA BaseIs ==
    ASSUME NEW omit
    PROVE  Base(omit) \in {sp, fp}
BY DEF Base

LEMMA PlainNew ==
    ASSUME NEW inst, NEW omit, inst.kind \in Defining, inst.rd = NewVReg(0),
           inst.kind \in {"Load", "LoadAddr"} =>
              inst.loc = ProgramSlot \/ (inst.loc.kind = "RegOffset" /\ inst.loc.offset = 8)
    PROVE  Plain(inst, omit)
<1>1. Defs(inst) = {NewVReg(0)}
    BY DEF Defs, Defining
<1> QED BY <1>1, BaseIs, RegsDiffer DEF Plain, NewVReg, Defining

LEMMA EmitLiSelects == Selects /\ EmitLi => Selects'
<1> SUFFICES ASSUME Selects, NEW i \in Imms, EmitNew(Li(NewVReg(0), i)) PROVE Selects'
    BY DEF EmitLi
<1> DEFINE inst == Li(NewVReg(0), i)
<1>1. inst.kind = "Li" /\ inst.rd = NewVReg(0) /\ inst \in Instructions(Locals \cup Fixed \cup {NewVReg(0)})
    BY RegAllocAssumption DEF Li, Instructions
<1>2. Uses(inst, omit_frame_pointer) = {}
    BY DEF Li, Uses
<1> HIDE DEF inst
<1>3. Plain(inst, omit_frame_pointer)
    BY <1>1, PlainNew DEF Defining
<1>4. EmitNew(inst)
    BY DEF inst
<1> QED BY <1>1, <1>2, <1>3, <1>4, EmitsNew DEF Defining

LEMMA EmitAluSelects == Selects /\ EmitAlu => Selects'
<1> SUFFICES ASSUME Selects, EmitAlu PROVE Selects'
    OBVIOUS
<1>1. CASE \E r \in Locals \cup (Readable \cap {a0}) : EmitNew(AluRRI(NewVReg(0), r, 0))
    <2>1. PICK r \in Locals \cup {a0} : EmitNew(AluRRI(NewVReg(0), r, 0))
        BY <1>1
    <2> DEFINE inst == AluRRI(NewVReg(0), r, 0)
    <2>2. r \in Locals \cup Fixed
        BY DEF Fixed
    <2>3. inst.kind = "AluRRI" /\ inst.rd = NewVReg(0) /\ inst \in Instructions(Locals \cup Fixed \cup {NewVReg(0)})
        BY <2>2 DEF AluRRI, Instructions
    <2>4. Uses(inst, omit_frame_pointer) = {r}
        BY DEF AluRRI, Uses
    <2>5. EmitNew(inst)
        BY <2>1
    <2> HIDE DEF inst
    <2>6. Plain(inst, omit_frame_pointer)
        BY <2>3, PlainNew DEF Defining
    <2> QED BY <2>2, <2>3, <2>4, <2>5, <2>6, EmitsNew DEF Defining
<1>2. CASE \E r, q \in Locals : r[2] <= q[2] /\ EmitNew(AluRRR(NewVReg(0), r, q))
    <2>1. PICK r \in Locals, q \in Locals : EmitNew(AluRRR(NewVReg(0), r, q))
        BY <1>2
    <2> DEFINE inst == AluRRR(NewVReg(0), r, q)
    <2>3. inst.kind = "AluRRR" /\ inst.rd = NewVReg(0) /\ inst \in Instructions(Locals \cup Fixed \cup {NewVReg(0)})
        BY DEF AluRRR, Instructions
    <2>4. Uses(inst, omit_frame_pointer) = {r, q}
        BY DEF AluRRR, Uses
    <2>5. EmitNew(inst)
        BY <2>1
    <2> HIDE DEF inst
    <2>6. Plain(inst, omit_frame_pointer)
        BY <2>3, PlainNew DEF Defining
    <2> QED BY <2>3, <2>4, <2>5, <2>6, EmitsNew DEF Defining
<1> QED BY <1>1, <1>2 DEF EmitAlu

LEMMA EmitMoveSelects == Selects /\ EmitMove => Selects'
<1> SUFFICES ASSUME Selects, NEW rd \in Locals \ Constants, NEW r \in Locals,
                    Emit(AluRRI(rd, r, 0), <<AluRRI(rd, r, 0)>>),
                    UNCHANGED <<vreg_counter, defined>>
             PROVE  Selects'
    BY DEF EmitMove
<1> DEFINE inst == AluRRI(rd, r, 0)
<1>1. /\ inst.kind = "AluRRI" /\ inst.rd = rd /\ inst \in Instructions(Locals \cup Fixed)
      /\ Uses(inst, omit_frame_pointer) = {r} /\ Defs(inst) = {rd}
    BY DEF AluRRI, Instructions, Uses, Defs, Defining
<1>2. Emit(inst, <<inst>>)
    OBVIOUS
<1> HIDE DEF inst
<1>3. rd \notin Fixed
    BY RegsDiffer DEF Fixed, Locals
<1>4. Plain(inst, omit_frame_pointer)
    BY <1>1, <1>3, BaseIs DEF Plain, Fixed
<1> QED BY <1>1, <1>2, <1>4, EmitsOld

LEMMA LocsAre ==
    /\ ProgramSlot \in Locations(Locals \cup Fixed)
    /\ \A loc \in Locs : /\ loc \in Locations(Locals \cup Fixed)
                         /\ loc = ProgramSlot \/ (loc.kind = "RegOffset" /\ loc.offset = 8)
                         /\ LocUses(loc, omit_frame_pointer) \subseteq Locals \cup Fixed
    /\ LocUses(ProgramSlot, omit_frame_pointer) \subseteq Locals \cup Fixed
<1>1. ProgramSlot \in Locations(Locals \cup Fixed) /\ LocUses(ProgramSlot, omit_frame_pointer) \subseteq Fixed
    BY DEF ProgramSlot, Slot, Locations, LocUses, OnStack, Fixed
<1>2. ASSUME NEW r \in Locals
      PROVE  /\ RegOffset(r, 8) \in Locations(Locals \cup Fixed)
             /\ RegOffset(r, 8).kind = "RegOffset" /\ RegOffset(r, 8).offset = 8
             /\ LocUses(RegOffset(r, 8), omit_frame_pointer) \subseteq Locals
    BY DEF RegOffset, Locations, LocUses, OnStack
<1> QED BY <1>1, <1>2 DEF Locs

LEMMA MoreLocations ==
    ASSUME NEW A, NEW B, A \subseteq B
    PROVE  Locations(A) \subseteq Locations(B)
BY DEF Locations

LEMMA EmitMemorySelects == Selects /\ EmitMemory => Selects'
<1> SUFFICES ASSUME Selects, EmitMemory PROVE Selects'
    OBVIOUS
<1>a. Locations(Locals \cup Fixed) \subseteq Locations(Locals \cup Fixed \cup {NewVReg(0)})
    BY MoreLocations
<1>1. CASE \E loc \in Locs : EmitNew(Load(NewVReg(0), loc))
    <2>1. PICK loc \in Locs : EmitNew(Load(NewVReg(0), loc))
        BY <1>1
    <2> DEFINE inst == Load(NewVReg(0), loc)
    <2>3. inst.kind = "Load" /\ inst.rd = NewVReg(0) /\ inst.loc = loc
          /\ inst \in Instructions(Locals \cup Fixed \cup {NewVReg(0)})
        BY <1>a, LocsAre DEF Load, Instructions
    <2>4. Uses(inst, omit_frame_pointer) = LocUses(loc, omit_frame_pointer)
        BY DEF Load, Uses
    <2>5. EmitNew(inst)
        BY <2>1
    <2> HIDE DEF inst
    <2>6. Plain(inst, omit_frame_pointer)
        BY <2>3, LocsAre, PlainNew DEF Defining
    <2> QED BY <2>3, <2>4, <2>5, <2>6, LocsAre, EmitsNew DEF Defining
<1>2. CASE EmitNew(LoadAddr(NewVReg(0), ProgramSlot))
    <2> DEFINE inst == LoadAddr(NewVReg(0), ProgramSlot)
    <2>3. inst.kind = "LoadAddr" /\ inst.rd = NewVReg(0) /\ inst.loc = ProgramSlot
          /\ inst \in Instructions(Locals \cup Fixed \cup {NewVReg(0)})
        BY <1>a, LocsAre DEF LoadAddr, Instructions
    <2>4. Uses(inst, omit_frame_pointer) = LocUses(ProgramSlot, omit_frame_pointer)
        BY DEF LoadAddr, Uses
    <2>5. EmitNew(inst)
        BY <1>2
    <2> HIDE DEF inst
    <2>6. Plain(inst, omit_frame_pointer)
        BY <2>3, PlainNew DEF Defining
    <2> QED BY <2>3, <2>4, <2>5, <2>6, LocsAre, EmitsNew DEF Defining
<1>3. CASE \E r \in Locals, loc \in Locs : /\ Emit(Store(r, loc), <<Store(r, loc)>>)
                                           /\ UNCHANGED <<vreg_counter, defined>>
    <2>1. PICK r \in Locals, loc \in Locs : /\ Emit(Store(r, loc), <<Store(r, loc)>>)
                                            /\ UNCHANGED <<vreg_counter, defined>>
        BY <1>3
    <2> DEFINE inst == Store(r, loc)
    <2>3. /\ inst.kind = "Store" /\ inst.loc = loc /\ inst \in Instructions(Locals \cup Fixed)
          /\ Defs(inst) = {} /\ Uses(inst, omit_frame_pointer) = {r} \cup LocUses(loc, omit_frame_pointer)
        BY LocsAre DEF Store, Instructions, Defs, Uses, Defining
    <2>5. Emit(inst, <<inst>>)
        BY <2>1
    <2> HIDE DEF inst
    <2>6. Plain(inst, omit_frame_pointer)
        BY <2>3, LocsAre DEF Plain
    <2>7. Uses(inst, omit_frame_pointer) \subseteq Locals \cup Fixed
        BY <2>3, LocsAre
    <2> QED BY <2>1, <2>3, <2>5, <2>6, <2>7, EmitsOld DEF Defining
<1> QED BY <1>1, <1>2, <1>3 DEF EmitMemory

LEMMA EmitCallSelects == Selects /\ EmitCall => Selects'
<1> SUFFICES ASSUME Selects, EmitCall PROVE Selects'
    OBVIOUS
<1>a. a0 \in Fixed /\ zero # a0 /\ fp # a0 /\ sp # a0
    BY RegsDiffer DEF Fixed
<1>1. CASE \E r \in Locals : /\ Emit(MoveTo(r), <<MoveTo(r)>>)
                             /\ Defining1(a0)
                             /\ UNCHANGED vreg_counter
    <2>1. PICK r \in Locals : /\ Emit(MoveTo(r), <<MoveTo(r)>>)
                              /\ Defining1(a0)
                              /\ UNCHANGED vreg_counter
        BY <1>1
    <2> DEFINE inst == MoveTo(r)
    <2>3. /\ inst.kind = "AluRRI" /\ inst.rd = a0 /\ inst \in Instructions(Locals \cup Fixed)
          /\ Uses(inst, omit_frame_pointer) = {r} /\ Defs(inst) = {a0}
        BY <1>a DEF MoveTo, AluRRI, Instructions, Uses, Defs, Defining
    <2>5. Emit(inst, <<inst>>)
        BY <2>1
    <2> HIDE DEF inst
    <2>6. Plain(inst, omit_frame_pointer)
        BY <1>a, <2>3, BaseIs DEF Plain
    <2> QED BY <2>1, <2>3, <2>5, <2>6, EmitsOld
<1>2. CASE \E args \in SUBSET (Readable \cap {a0}) :
             /\ Emit(Call(args), <<Call(args)>>)
             /\ Defining1(a0)
             /\ UNCHANGED vreg_counter
    <2>1. PICK args \in SUBSET {a0} : /\ Emit(Call(args), <<Call(args)>>)
                                      /\ Defining1(a0)
                                      /\ UNCHANGED vreg_counter
        BY <1>2
    <2> DEFINE inst == Call(args)
    <2>3. /\ inst.kind = "Call" /\ inst \in Instructions(Locals \cup Fixed) /\ inst.arg_regs = args
          /\ Uses(inst, omit_frame_pointer) = args /\ Defs(inst) = {a0}
        BY <1>a DEF Call, Instructions, Uses, Defs, RETURN_REGS
    <2>5. Emit(inst, <<inst>>)
        BY <2>1
    <2> HIDE DEF inst
    <2>6. Plain(inst, omit_frame_pointer)
        BY <1>a, <2>3, BaseIs DEF Plain
    <2> QED BY <1>a, <2>1, <2>3, <2>5, <2>6, EmitsOld DEF Defining
<1> QED BY <1>1, <1>2 DEF EmitCall

LEMMA FitsBack ==
    ASSUME NEW x \in Int, Fits(x)
    PROVE  AsI16(Bits(x)) = x
<1>1. -2048 <= x /\ x <= 2047
    BY DEF Fits
<1>0. PICK y \in Int : y = x * 16
    <2>1. x * 16 \in Int
        OBVIOUS
    <2> QED BY <2>1
<1>2. CASE 0 <= x
  <2>1. x % 65536 = x /\ x % 4096 = x
    BY <1>1, <1>2
  <2>2. 0 <= y /\ y < 32768
    BY <1>0, <1>1, <1>2
  <2>3. y % 65536 = y
    BY <2>2
  <2>4. y \div 16 = x
    BY <1>0
  <2> QED
    BY <2>1, <2>2, <2>3, <2>4, <1>0, <1>1 DEF AsI16, Bits
<1>3. CASE x < 0
  <2>1. x % 65536 = x + 65536 /\ (x + 65536) % 4096 = x + 4096
    BY <1>1, <1>3
  <2>2. -32768 <= y /\ y < 0
    BY <1>0, <1>1, <1>3
  <2>3. (y + 65536) % 65536 = y + 65536
    BY <2>2
  <2>4. (x + 4096) * 16 = y + 65536
    BY <1>0
  <2>5. y \div 16 = x
    BY <1>0
  <2>6. y + 65536 >= 32768 /\ (y + 65536) - 65536 = y
    BY <2>2
  <2> QED
    BY <2>1, <2>2, <2>3, <2>4, <2>5, <2>6, <1>1 DEF AsI16, Bits
<1> QED BY <1>2, <1>3

(* A request that is not its own code, in a block that goes on. *)
LEMMA AskedIn ==
    ASSUME NEW R, NEW C, NEW c, NEW d, NEW n, NEW omit, NEW T, NEW K,
           SelIn(R, C, c, d, n, omit, T, K), c < Blocks,
           NEW request, request.kind # "Li", NEW C2, NEW cur2, NEW next2, NEW T2, NEW n2,
           Chosen(With(R, c, request), C2, c, cur2, next2, T2, K, n2, omit),
           \A b \in 1 .. Blocks : b # c => C2[b] = C[b],
           Vs(d[c]) \subseteq cur2, Vs(d[c]) \subseteq CodeRegs(n2) \ T2,
           \A b \in (c + 1) .. Blocks : next2[b] = Nexts(d)[b]
    PROVE  SelIn(With(R, c, request), C2, c, d, n2, omit, T2, K)
<1> DEFINE R2 == With(R, c, request)
<1>1. Chosen(R, C, c, Vs(d[c]), Nexts(d), T, K, n, omit) /\ Names(R, K) /\ DOMAIN d = 1 .. Blocks
    BY DEF SelIn
<1>2. c \in 1 .. Blocks /\ (\E S : Code(R, S))
    BY <1>1, ChosenIs
<1>3. PICK S : Code(R, S)
    BY <1>2
<1>4. \A b \in 1 .. Blocks : b # c => R2[b] = R[b]
    <2>1. Code(R, S \cup {request})
        BY <1>3 DEF Code
    <2> QED BY <1>2, <2>1, WithIs
<1>5. Names(R2, K)
    BY <1>1, <1>2, <1>3, NamesKept
<1>6. \A b \in (c + 1) .. Blocks : Vs(d[b]) \subseteq next2[b]
    <2>1. \A b \in (c + 1) .. Blocks : b \in 1 .. Blocks
        BY <1>2, RegAllocAssumption
    <2> QED BY <2>1 DEF Nexts
<1> HIDE DEF R2
<1>7. EmitTo(R, C, c, R2, C2, cur2, next2, d, n2, T2, K, omit)
    BY <1>1, <1>4, <1>5, <1>6 DEF EmitTo, R2
<1>8. SelIn(R2, C2, c, d, n2, omit, T2, K)
    BY <1>7, EmitIn
<1> QED BY <1>8 DEF R2

(* One instruction, or two through a new register. *)
SpOne(offset) == AluRRI(sp, sp, offset)
SpSum(v) == AluRRR(sp, sp, v)

LEMMA AdjustStands ==
    ASSUME NEW offset \in Int, NEW cur, NEW n, NEW T, NEW K
    PROVE  /\ Stands1(SpAdjust(offset), SpOne(offset), cur, K, n, T)
           /\ \A t \in T : Stands2(SpAdjust(offset), Li(t, offset), SpSum(t), cur, K, n, T)
<1> DEFINE request == SpAdjust(offset)
<1>1. request.kind = "SpAdjust" /\ request.offset = offset
    BY DEF SpAdjust
<1> HIDE DEF request
<1>2. Stands1(request, SpOne(offset), cur, K, n, T)
    BY <1>1 DEF Stands1, Piece, AdjustPiece, SpOne
<1>3. ASSUME NEW t \in T PROVE Stands2(request, Li(t, offset), SpSum(t), cur, K, n, T)
    BY <1>1 DEF Stands2, Piece, AdjustPiece, SpSum
<1> QED BY <1>2, <1>3 DEF request

LEMMA AdjustFit ==
    ASSUME NEW offset \in Int, NEW c, NEW cur, NEW n, NEW K, KnownOk(K, n)
    PROVE  Fit(SpOne(offset), cur, c, K, n, FALSE) /\ ~IsTerminator(SpOne(offset))
<1>1. sp \in CodeRegs(n) /\ sp \in Fixed /\ sp \notin DOMAIN K /\ Base(FALSE) = fp
      /\ zero # sp /\ fp # sp
    BY CodeRegsIn, RegsDiffer DEF Fixed, KnownOk, Base
<1> DEFINE i0 == SpOne(offset)
<1>2. /\ i0.kind = "AluRRI" /\ i0.rd = sp /\ i0 \in Instructions(CodeRegs(n)) /\ Defs(i0) = {sp}
      /\ Uses(i0, FALSE) = {sp}
    BY <1>1 DEF SpOne, AluRRI, Instructions, Defs, Uses, Defining
<1> HIDE DEF i0
<1>3. Fit(i0, cur, c, K, n, FALSE) /\ ~IsTerminator(i0)
    BY <1>1, <1>2 DEF Fit, Wanted, SetsKnown, IsTerminator
<1> QED BY <1>3 DEF i0

AdjustFits2(offset, t, cur, c, K, n) ==
    /\ Fit(Li(t, offset), cur, c, K, n, FALSE) /\ Defs(Li(t, offset)) = {t}
    /\ Fit(SpSum(t), cur \cup {t}, c, K, n, FALSE)
    /\ ~IsTerminator(Li(t, offset)) /\ ~IsTerminator(SpSum(t))

LEMMA AdjustFit2 ==
    ASSUME NEW offset \in Int, NEW c, NEW cur, NEW n, NEW K, KnownOk(K, n),
           NEW t, t \in CodeRegs(n), IsVReg(t), t \notin DOMAIN K
    PROVE  AdjustFits2(offset, t, cur, c, K, n)
<1>1. sp \in CodeRegs(n) /\ sp \in Fixed /\ sp \notin DOMAIN K /\ Base(FALSE) = fp
      /\ zero # sp /\ fp # sp
    BY CodeRegsIn, RegsDiffer DEF Fixed, KnownOk, Base
<1> DEFINE i1 == Li(t, offset)
           i2 == SpSum(t)
<1>2. /\ i1.kind = "Li" /\ i1.rd = t /\ i1 \in Instructions(CodeRegs(n)) /\ Defs(i1) = {t}
      /\ Uses(i1, FALSE) = {}
    BY DEF Li, Instructions, Defs, Uses, Defining
<1>3. /\ i2.kind = "AluRRR" /\ i2.rd = sp /\ i2 \in Instructions(CodeRegs(n)) /\ Defs(i2) = {sp}
      /\ Uses(i2, FALSE) = {sp, t}
    BY <1>1 DEF SpSum, AluRRR, Instructions, Defs, Uses, Defining
<1> HIDE DEF i1, i2
<1>4. t \notin Fixed
    BY RegsDiffer DEF Fixed
<1>5. Fit(i1, cur, c, K, n, FALSE) /\ ~IsTerminator(i1)
    BY <1>1, <1>2, <1>4 DEF Fit, Wanted, SetsKnown, IsTerminator, Fixed
<1>6. Fit(i2, cur \cup {t}, c, K, n, FALSE) /\ ~IsTerminator(i2)
    BY <1>1, <1>3 DEF Fit, Wanted, SetsKnown, IsTerminator
<1> QED BY <1>2, <1>5, <1>6 DEF AdjustFits2, i1, i2

LEMMA NarrowNone ==
    ASSUME NEW next, NEW cur, NEW inst, ~IsTerminator(inst), NEW b \in 1 .. Blocks
    PROVE  Narrow(next, cur, inst)[b] = next[b]
BY DEF Narrow

LEMMA OthersSame ==
    ASSUME NEW A, NEW S, Code(A, S), NEW c \in 1 .. Blocks, NEW x
    PROVE  \A b \in 1 .. Blocks : b # c => With(A, c, x)[b] = A[b]
BY DEF With, Code

LEMMA CodeMore ==
    ASSUME NEW A, NEW S, NEW S2, Code(A, S), S \subseteq S2
    PROVE  Code(A, S2)
<1>1. Seq(S) \subseteq Seq(S2)
    OBVIOUS
<1> QED BY <1>1 DEF Code

LEMMA AdjustOneIn ==
    ASSUME NEW R, NEW C, NEW c, NEW d, NEW n, NEW T, NEW K,
           SelIn(R, C, c, d, n, FALSE, T, K), c < Blocks, NEW offset \in Int
    PROVE  SelIn(With(R, c, SpAdjust(offset)), With(C, c, SpOne(offset)), c, d, n, FALSE, T, K)
<1> DEFINE request == SpAdjust(offset)
           inst == SpOne(offset)
           cur == Vs(d[c])
           next == Nexts(d)
<1>1. Chosen(R, C, c, cur, next, T, K, n, FALSE) /\ cur \subseteq CodeRegs(n) \ T
    BY DEF SelIn
<1>2. /\ n \in Nat /\ KnownOk(K, n) /\ c \in 1 .. Blocks /\ Code(C, Wanted(n, FALSE))
    BY <1>1, ChosenIs
<1>3. Fit(inst, cur, c, K, n, FALSE) /\ ~IsTerminator(inst)
    BY <1>2, AdjustFit
<1>4. Stands1(request, inst, cur, K, n, T)
    BY AdjustStands
<1>5. Leads(request, c) /\ request.kind # "Li"
    BY DEF SpAdjust, Leads
<1> DEFINE C2 == With(C, c, inst)
           cur2 == cur \cup Defs(inst)
           next2 == Narrow(next, cur, inst)
<1> HIDE DEF request, inst, cur, next
<1>6. Chosen(With(R, c, request), C2, c, cur2, next2, T, K, n, FALSE)
    BY <1>1, <1>3, <1>4, <1>5, ChosenOne
<1>7. \A b \in 1 .. Blocks : b # c => C2[b] = C[b]
    BY <1>2, OthersSame
<1>8. \A b \in (c + 1) .. Blocks : next2[b] = Nexts(d)[b]
    <2>1. \A b \in (c + 1) .. Blocks : b \in 1 .. Blocks
        BY <1>2, RegAllocAssumption
    <2> QED BY <1>3, <2>1, NarrowNone DEF next
<1>9. Vs(d[c]) \subseteq cur2 /\ Vs(d[c]) \subseteq CodeRegs(n) \ T
    BY <1>1 DEF cur
<1> HIDE DEF C2, cur2, next2
<1>10. SelIn(With(R, c, request), C2, c, d, n, FALSE, T, K)
    BY <1>5, <1>6, <1>7, <1>8, <1>9, AskedIn
<1> QED BY <1>10 DEF request, C2, inst

LEMMA AdjustTwoIn ==
    ASSUME NEW R, NEW C, NEW c, NEW d, NEW n, NEW T, NEW K,
           SelIn(R, C, c, d, n, FALSE, T, K), c < Blocks, NEW offset \in Int
    PROVE  SelIn(With(R, c, SpAdjust(offset)), With(With(C, c, Li(V(n), offset)), c, SpSum(V(n))),
                 c, d, n + 1, FALSE, T \cup {V(n)}, K)
<1> DEFINE request == SpAdjust(offset)
           t == V(n)
           i1 == Li(t, offset)
           i2 == SpSum(t)
           T2 == T \cup {t}
           cur == Vs(d[c])
           next == Nexts(d)
<1>1. Chosen(R, C, c, cur, next, T, K, n, FALSE) /\ cur \subseteq CodeRegs(n) \ T
    BY DEF SelIn
<1>2. /\ n \in Nat /\ KnownOk(K, n) /\ c \in 1 .. Blocks /\ Code(C, Wanted(n, FALSE))
      /\ T \subseteq CodeRegs(n) /\ (\A r \in T : IsVReg(r))
    BY <1>1, ChosenIs
<1>a. n + 1 \in Nat /\ n <= n + 1
    BY <1>2
<1>3. /\ Wider(T, K, n, T2, K, n + 1) /\ t \in CodeRegs(n + 1) /\ t \notin CodeRegs(n)
      /\ t \notin DOMAIN K /\ IsVReg(t) /\ KnownOk(K, n + 1)
    <2>1. Wider(T, K, n, T2, K, n + 1) /\ t \in CodeRegs(n + 1) /\ t \notin CodeRegs(n) /\ t \notin DOMAIN K
        BY <1>2, WiderBy
    <2> QED BY <2>1, RegsDiffer DEF Wider
<1>4. /\ Fit(i1, cur, c, K, n + 1, FALSE) /\ ~IsTerminator(i1) /\ Defs(i1) = {t}
      /\ Fit(i2, cur \cup {t}, c, K, n + 1, FALSE) /\ ~IsTerminator(i2)
    <2> HIDE DEF t, cur
    <2>1. AdjustFits2(offset, t, cur, c, K, n + 1)
        BY <1>3, AdjustFit2
    <2> QED BY <2>1 DEF AdjustFits2
<1>5. Stands2(request, i1, i2, cur, K, n + 1, T2)
    BY AdjustStands
<1>6. Leads(request, c) /\ request.kind # "Li"
    BY DEF SpAdjust, Leads
<1>7. cur \subseteq CodeRegs(n + 1) \ T2
    BY <1>1, <1>2, <1>3, <1>a, MoreCodeRegs
<1>8. Chosen(R, C, c, cur, next, T2, K, n + 1, FALSE)
    <2> HIDE DEF T2, cur, next
    <2> QED BY <1>1, <1>3, ChosenWider
<1> DEFINE C1 == With(C, c, i1)
           C2 == With(C1, c, i2)
           cur2 == (cur \cup Defs(i1)) \cup Defs(i2)
           next2 == Narrow(Narrow(next, cur, i1), cur \cup Defs(i1), i2)
<1> HIDE DEF request, i1, i2, cur, next, t, T2
<1>9. Chosen(With(R, c, request), C2, c, cur2, next2, T2, K, n + 1, FALSE)
    <2>1. Fit(i2, cur \cup Defs(i1), c, K, n + 1, FALSE)
        BY <1>4
    <2> QED BY <1>4, <1>5, <1>6, <1>8, <2>1, ChosenTwo
<1>10. \A b \in 1 .. Blocks : b # c => C2[b] = C[b]
    <2>1. \A b \in 1 .. Blocks : b # c => C1[b] = C[b]
        BY <1>2, OthersSame
    <2>2. Code(C, Wanted(n, FALSE) \cup {i1})
        <3>1. Wanted(n, FALSE) \subseteq Wanted(n, FALSE) \cup {i1}
            OBVIOUS
        <3> QED BY <1>2, <3>1, CodeMore
    <2>3. Code(C1, Wanted(n, FALSE) \cup {i1})
        <3> DEFINE W == Wanted(n, FALSE) \cup {i1}
        <3>1. i1 \in W /\ Code(C, W)
            BY <2>2
        <3> HIDE DEF W
        <3>2. Code(C1, W)
            BY <1>2, <3>1, WithIs
        <3> QED BY <3>2 DEF W
    <2> HIDE DEF C1
    <2>4. \A b \in 1 .. Blocks : b # c => C2[b] = C1[b]
        BY <1>2, <2>3, OthersSame
    <2> QED BY <2>1, <2>4
<1>11. \A b \in (c + 1) .. Blocks : next2[b] = Nexts(d)[b]
    <2>1. \A b \in (c + 1) .. Blocks : b \in 1 .. Blocks
        BY <1>2, RegAllocAssumption
    <2> QED BY <1>4, <2>1, NarrowNone DEF next
<1>12. Vs(d[c]) \subseteq cur2 /\ Vs(d[c]) \subseteq CodeRegs(n + 1) \ T2
    BY <1>7 DEF cur
<1> HIDE DEF C2, cur2, next2
<1>13. SelIn(With(R, c, request), C2, c, d, n + 1, FALSE, T2, K)
    BY <1>6, <1>9, <1>10, <1>11, <1>12, AskedIn
<1> QED BY <1>13 DEF request, C2, C1, i1, i2, T2, t

LEMMA EmitSpAdjustSelects == Selects /\ EmitSpAdjust => Selects'
<1> SUFFICES ASSUME Selects, NEW offset \in SpOffsets, ~omit_frame_pointer,
                    Emit(SpAdjust(offset), GenSpAdjust(offset)),
                    vreg_counter' = vreg_counter + (IF Fits(offset) THEN 0 ELSE 1),
                    UNCHANGED defined
             PROVE  Selects'
    BY DEF EmitSpAdjust
<1>1. /\ phase = "select" /\ curr_block < Blocks
      /\ requests' = [requests EXCEPT ![curr_block] = Append(@, SpAdjust(offset))]
      /\ code' = [code EXCEPT ![curr_block] = @ \o GenSpAdjust(offset)]
      /\ omit_frame_pointer' = omit_frame_pointer /\ curr_block' = curr_block /\ storage' = storage
    BY DEF Emit
<1>2. storage = 8 /\ \E T, K : Picked(T, K)
    BY <1>1 DEF Selects
<1>3. PICK T, K : Picked(T, K)
    BY <1>2
<1>4. /\ vreg_counter \in Nat /\ curr_block \in 1 .. Blocks
      /\ Code(code, Wanted(vreg_counter, omit_frame_pointer))
    BY <1>3, PickedIs
<1>5. offset \in Int
    BY RegAllocAssumption
<1>6. requests' = With(requests, curr_block, SpAdjust(offset))
    BY <1>1 DEF With
<1>7. code[curr_block] \in Seq(Wanted(vreg_counter, omit_frame_pointer)) /\ code = [b \in 1 .. Blocks |-> code[b]]
    BY <1>4 DEF Code
<1>a. omit_frame_pointer = FALSE
    OBVIOUS
<1>b. SelIn(requests, code, curr_block, defined, vreg_counter, FALSE, T, K)
    BY <1>3, <1>a DEF Picked
<1>8. CASE Fits(offset)
    <2>1. GenSpAdjust(offset) = <<SpOne(offset)>>
        BY <1>5, <1>8, FitsBack DEF GenSpAdjust, SpOne
    <2>2. code[curr_block] \o <<SpOne(offset)>> = Append(code[curr_block], SpOne(offset))
        BY <1>7, AppendIs
    <2>3. code' = With(code, curr_block, SpOne(offset))
        BY <1>1, <2>1, <2>2 DEF With
    <2>4. vreg_counter' = vreg_counter
        BY <1>4, <1>8
    <2>5. SelIn(With(requests, curr_block, SpAdjust(offset)), With(code, curr_block, SpOne(offset)),
                curr_block, defined, vreg_counter, FALSE, T, K)
        BY <1>1, <1>5, <1>b, AdjustOneIn
    <2>6. Picked(T, K)'
        BY <1>1, <1>6, <1>a, <2>3, <2>4, <2>5 DEF Picked
    <2> QED BY <1>1, <1>2, <2>6 DEF Selects
<1>9. CASE ~Fits(offset)
    <2> DEFINE v == V(vreg_counter)
    <2>1. GenSpAdjust(offset) = <<Li(v, offset), SpSum(v)>>
        BY <1>4, <1>9 DEF GenSpAdjust, SpSum, NewVReg
    <2>2. code[curr_block] \o <<Li(v, offset), SpSum(v)>>
            = Append(Append(code[curr_block], Li(v, offset)), SpSum(v))
        BY <1>7, AppendIs
    <2> DEFINE s1 == Append(code[curr_block], Li(v, offset))
               s2 == Append(s1, SpSum(v))
    <2>3. code' = With(With(code, curr_block, Li(v, offset)), curr_block, SpSum(v))
        <3>1. code' = [code EXCEPT ![curr_block] = s2]
            BY <1>1, <2>1, <2>2
        <3>2. With(code, curr_block, Li(v, offset)) = [code EXCEPT ![curr_block] = s1]
            BY DEF With
        <3> HIDE DEF s1
        <3>3. With(With(code, curr_block, Li(v, offset)), curr_block, SpSum(v))
                = [[code EXCEPT ![curr_block] = s1] EXCEPT ![curr_block] = s2]
            BY <1>4, <1>7, <3>2 DEF With
        <3> HIDE DEF s2
        <3> QED BY <1>4, <1>7, <3>1, <3>3
    <2>4. vreg_counter' = vreg_counter + 1
        BY <1>4, <1>9
    <2> PICK T2 : T2 = T \cup {v}
        OBVIOUS
    <2>5. SelIn(With(requests, curr_block, SpAdjust(offset)),
                With(With(code, curr_block, Li(V(vreg_counter), offset)), curr_block, SpSum(V(vreg_counter))),
                curr_block, defined, vreg_counter + 1, FALSE, T \cup {V(vreg_counter)}, K)
        BY <1>1, <1>5, <1>b, AdjustTwoIn
    <2>7. SelIn(requests', code', curr_block', defined', vreg_counter', omit_frame_pointer', T2, K)
        BY <1>1, <1>a, <1>6, <2>3, <2>4, <2>5
    <2>6. Picked(T2, K)'
        BY <2>7 DEF Picked
    <2> QED BY <1>1, <1>2, <2>6 DEF Selects
<1> QED BY <1>8, <1>9

-----------------------------------------------------------------------------
(* The end of a block. *)

(* What the code and the requests are before the jump to the next block,   *)
(* and what is defined after it.                                           *)
JumpTo(R, C, c, cur, R1, C1, next1, d2, T, K, n, omit) ==
    /\ Chosen(R1, C1, c, cur, next1, T, K, n, omit) /\ Names(R1, K)
    /\ \A b \in 1 .. Blocks : b # c => R1[b] = R[b] /\ C1[b] = C[b]
    /\ DOMAIN d2 = 1 .. Blocks /\ Vs(d2[c + 1]) \subseteq next1[c + 1] \cap cur
    /\ \A b \in (c + 2) .. Blocks : Vs(d2[b]) \subseteq next1[b]

LEMMA JumpFit ==
    ASSUME NEW c, NEW cur, NEW n, NEW K, NEW omit, NEW dst \in Int, dst \in (c + 1) .. Blocks
    PROVE  /\ Fit(J(dst), cur, c, K, n, omit) /\ Defs(J(dst)) = {} /\ Leads(J(dst), c)
           /\ J(dst).kind = "J" /\ J(dst).block = dst
<1> DEFINE inst == J(dst)
<1>1. /\ inst.kind = "J" /\ inst.block = dst /\ inst \in Instructions(CodeRegs(n)) /\ Defs(inst) = {}
      /\ Uses(inst, omit) = {}
    BY DEF J, Instructions, Defs, Uses, Defining
<1> HIDE DEF inst
<1>2. inst \in Wanted(n, omit)
    BY <1>1 DEF Wanted
<1>3. Fit(inst, cur, c, K, n, omit) /\ Leads(inst, c)
    BY <1>1, <1>2 DEF Fit, SetsKnown, IsTerminator, Leads, Defining
<1> QED BY <1>1, <1>3 DEF inst

LEMMA JumpStands ==
    ASSUME NEW dst \in Int, NEW cur, NEW n, NEW T, NEW K
    PROVE  Stands1(J(dst), J(dst), cur, K, n, T)
<1> DEFINE inst == J(dst)
<1>1. inst.kind = "J" /\ inst \in Instructions(CodeRegs(n) \ T)
    BY DEF J, Instructions
<1> HIDE DEF inst
<1>2. Stands1(inst, inst, cur, K, n, T)
    BY <1>1, PlainStands
<1> QED BY <1>2 DEF inst

(* What With appends. *)
LEMMA WithLast ==
    ASSUME NEW S, NEW A, Code(A, S), NEW c \in 1 .. Blocks, NEW x
    PROVE  /\ \E Q : Code(With(A, c, x), Q)
           /\ Len(With(A, c, x)[c]) > 0 /\ With(A, c, x)[c][Len(With(A, c, x)[c])] = x
<1>1. PICK Q : Q = S \cup {x}
    OBVIOUS
<1>2. Code(A, Q) /\ x \in Q
    <2>1. S \subseteq Q
        BY <1>1
    <2> QED BY <1>1, <2>1, CodeMore
<1>3. /\ Code(With(A, c, x), Q) /\ Len(A[c]) \in Nat
      /\ Len(With(A, c, x)[c]) = Len(A[c]) + 1 /\ With(A, c, x)[c][Len(A[c]) + 1] = x
    BY <1>2, WithIs
<1> QED BY <1>3

LEMMA JumpIn ==
    ASSUME NEW R, NEW C, NEW c, NEW d, NEW n, NEW omit, NEW T, NEW K,
           SelIn(R, C, c, d, n, omit, T, K), c < Blocks, NEW R1, NEW C1, NEW next1, NEW d2,
           JumpTo(R, C, c, Vs(d[c]), R1, C1, next1, d2, T, K, n, omit)
    PROVE  SelIn(With(R1, c, J(c + 1)), With(C1, c, J(c + 1)), c + 1, d2, n, omit, T, K)
<1> DEFINE j == J(c + 1)
           cur == Vs(d[c])
           R2 == With(R1, c, j)
           C2 == With(C1, c, j)
           next2 == Narrow(next1, cur, j)
           curz == Vs(d2[c + 1])
           nextz == Nexts(d2)
<1>a. /\ Chosen(R1, C1, c, cur, next1, T, K, n, omit) /\ Names(R1, K)
      /\ (\A b \in 1 .. Blocks : b # c => R1[b] = R[b] /\ C1[b] = C[b])
      /\ DOMAIN d2 = 1 .. Blocks /\ curz \subseteq next1[c + 1] \cap cur
      /\ (\A b \in (c + 2) .. Blocks : Vs(d2[b]) \subseteq next1[b])
    BY DEF JumpTo
<1>b. /\ cur \subseteq CodeRegs(n) \ T /\ Ended(R, c) /\ Ended(C, c)
      /\ R[Blocks] = <<>> /\ C[Blocks] = <<>>
    BY DEF SelIn
<1>1. /\ c \in 1 .. Blocks /\ Code(C1, Wanted(n, omit)) /\ (\E S : Code(R1, S))
    BY <1>a, ChosenIs
<1>2. c + 1 \in (c + 1) .. Blocks /\ c + 1 \in Int /\ c + 1 \in 1 .. Blocks
    BY <1>1, RegAllocAssumption
<1>3. /\ Fit(j, cur, c, K, n, omit) /\ Defs(j) = {} /\ Leads(j, c) /\ j.kind = "J" /\ j.block = c + 1
    <2> HIDE DEF cur
    <2> QED BY <1>2, JumpFit
<1>4. Stands1(j, j, cur, K, n, T)
    BY <1>2, JumpStands
<1> HIDE DEF j, cur
<1>5. Chosen(R2, C2, c, cur \cup Defs(j), next2, T, K, n, omit)
    BY <1>a, <1>3, <1>4, ChosenOne
<1>6. PICK S : Code(R1, S)
    BY <1>1
<1>7. /\ \A b \in 1 .. Blocks : b # c => R2[b] = R[b] /\ C2[b] = C[b]
    <2>1. \A b \in 1 .. Blocks : b # c => R2[b] = R1[b]
        BY <1>1, <1>6, OthersSame
    <2>2. \A b \in 1 .. Blocks : b # c => C2[b] = C1[b]
        BY <1>1, OthersSame
    <2> QED BY <1>a, <2>1, <2>2
<1>8. Len(R2[c]) > 0 /\ R2[c][Len(R2[c])] = j
    BY <1>1, <1>6, WithLast
<1>9. Len(C2[c]) > 0 /\ C2[c][Len(C2[c])] = j
    BY <1>1, WithLast
<1>10. Names(R2, K)
    BY <1>a, <1>1, <1>3, <1>6, NamesKept
<1> HIDE DEF R2, C2
<1>11. next2[c + 1] = next1[c + 1] \cap cur /\ \A b \in (c + 2) .. Blocks : next2[b] = next1[b]
    <2>1. IsTerminator(j)
        BY <1>3 DEF IsTerminator
    <2>2. \A b \in (c + 2) .. Blocks : b \in 1 .. Blocks /\ b # c + 1
        BY <1>1, RegAllocAssumption
    <2> QED BY <1>2, <1>3, <2>1, <2>2 DEF Narrow
<1> HIDE DEF next2
<1>12. Chosen(R2, C2, c + 1, next2[c + 1], next2, T, K, n, omit)
    BY <1>5, ChosenOn
<1>13. /\ curz \subseteq next2[c + 1]
       /\ \A b \in ((c + 1) + 1) .. Blocks : nextz[b] \subseteq next2[b]
    <2>1. \A b \in ((c + 1) + 1) .. Blocks : b \in 1 .. Blocks /\ b \in (c + 2) .. Blocks
        BY <1>1, RegAllocAssumption
    <2> QED BY <1>a, <1>11, <2>1 DEF Nexts
<1>14. Chosen(R2, C2, c + 1, curz, nextz, T, K, n, omit)
    <2> DEFINE a == c + 1
               nx == next2[a]
    <2>1. Chosen(R2, C2, a, nx, next2, T, K, n, omit) /\ curz \subseteq nx
          /\ \A b \in (a + 1) .. Blocks : nextz[b] \subseteq next2[b]
        BY <1>12, <1>13
    <2> HIDE DEF a, curz, nextz, nx
    <2>2. Chosen(R2, C2, a, curz, nextz, T, K, n, omit)
        BY <2>1, ChosenLess
    <2> QED BY <2>2 DEF a
<1>15. Ended(R2, c + 1) /\ Ended(C2, c + 1)
    <2>1. \A b \in 1 .. Blocks : b < c + 1 => b < c \/ b = c
        BY <1>1, RegAllocAssumption
    <2>2. \A b \in 1 .. Blocks : b < c => b # c
        BY <1>1, RegAllocAssumption
    <2>3. \A b \in 1 .. Blocks : b < c => R2[b] = R[b] /\ C2[b] = C[b]
        BY <1>7, <2>2
    <2>4. ASSUME NEW b \in 1 .. Blocks, b < c + 1
          PROVE  /\ Len(R2[b]) > 0 /\ R2[b][Len(R2[b])].kind = "J"
                 /\ Len(C2[b]) > 0 /\ C2[b][Len(C2[b])].kind = "J"
        <3>1. CASE b < c
            BY <1>b, <2>3, <3>1 DEF Ended
        <3>2. CASE b = c
            BY <1>3, <1>8, <1>9, <3>2
        <3> QED BY <2>1, <2>4, <3>1, <3>2
    <2> QED BY <2>4 DEF Ended
<1>16. R2[Blocks] = <<>> /\ C2[Blocks] = <<>>
    <2>1. Blocks \in 1 .. Blocks /\ Blocks # c
        BY <1>1, RegAllocAssumption
    <2> QED BY <1>7, <1>b, <2>1
<1>17. DOMAIN d2 = 1 .. Blocks /\ Vs(d2[c + 1]) \subseteq CodeRegs(n) \ T
    BY <1>a, <1>b
<1>18. SelIn(R2, C2, c + 1, d2, n, omit, T, K)
    BY <1>14, <1>15, <1>16, <1>17, <1>10, Zenon DEF SelIn
<1> QED BY <1>18 DEF R2, C2, j

JumpDefined(d2, d, c, dst) ==
    /\ DOMAIN d2 = 1 .. Blocks
    /\ \A b \in 1 .. Blocks : Vs(d2[b]) \subseteq Vs(d[b]) /\ (b \in {c + 1, dst} => Vs(d2[b]) \subseteq Vs(d[c]))

LEMMA JumpOnlyIn ==
    ASSUME NEW R, NEW C, NEW c, NEW d, NEW n, NEW omit, NEW T, NEW K,
           SelIn(R, C, c, d, n, omit, T, K), c < Blocks, NEW d2, NEW dst, JumpDefined(d2, d, c, dst)
    PROVE  SelIn(With(R, c, J(c + 1)), With(C, c, J(c + 1)), c + 1, d2, n, omit, T, K)
<1>1. Chosen(R, C, c, Vs(d[c]), Nexts(d), T, K, n, omit) /\ Names(R, K)
    BY DEF SelIn
<1>2. c \in 1 .. Blocks
    BY <1>1, ChosenIs
<1>3. c + 1 \in 1 .. Blocks /\ \A b \in (c + 2) .. Blocks : b \in 1 .. Blocks
    BY <1>2, RegAllocAssumption
<1>4. \A b \in 1 .. Blocks : Nexts(d)[b] = Vs(d[b])
    BY DEF Nexts
<1>5. JumpTo(R, C, c, Vs(d[c]), R, C, Nexts(d), d2, T, K, n, omit)
    BY <1>1, <1>3, <1>4 DEF JumpTo, JumpDefined
<1> QED BY <1>5, JumpIn

(* The branch before the jump. *)
CondTo(R, C, c, cur, next, C1, request, dst, T, K, n, omit) ==
    /\ \E next1 : /\ Chosen(With(R, c, request), C1, c, cur, next1, T, K, n, omit)
                  /\ \A b \in (c + 1) .. Blocks :
                        (IF b = dst THEN next[b] \cap cur ELSE next[b]) \subseteq next1[b]
    /\ \A b \in 1 .. Blocks : b # c => C1[b] = C[b]

LEMMA CondIn ==
    ASSUME NEW R, NEW C, NEW c, NEW d, NEW n, NEW omit, NEW T, NEW K,
           SelIn(R, C, c, d, n, omit, T, K), c < Blocks, NEW C1, NEW request, request.kind = "CondBr",
           NEW dst, CondTo(R, C, c, Vs(d[c]), Nexts(d), C1, request, dst, T, K, n, omit),
           NEW d2, JumpDefined(d2, d, c, dst)
    PROVE  SelIn(With(With(R, c, request), c, J(c + 1)), With(C1, c, J(c + 1)), c + 1, d2, n, omit, T, K)
<1> DEFINE R1 == With(R, c, request)
           cur == Vs(d[c])
<1>1. Chosen(R, C, c, Vs(d[c]), Nexts(d), T, K, n, omit) /\ Names(R, K)
    BY DEF SelIn
<1>2. c \in 1 .. Blocks /\ (\E S : Code(R, S))
    BY <1>1, ChosenIs
<1>3. c + 1 \in 1 .. Blocks /\ c + 1 \in (c + 1) .. Blocks
      /\ \A b \in (c + 2) .. Blocks : b \in 1 .. Blocks /\ b \in (c + 1) .. Blocks
    BY <1>2, RegAllocAssumption
<1>4. \A b \in 1 .. Blocks : Nexts(d)[b] = Vs(d[b])
    BY DEF Nexts
<1>5. PICK next1 : /\ Chosen(R1, C1, c, cur, next1, T, K, n, omit)
                   /\ \A b \in (c + 1) .. Blocks :
                        (IF b = dst THEN Nexts(d)[b] \cap cur ELSE Nexts(d)[b]) \subseteq next1[b]
    BY DEF CondTo
<1>6. PICK S : Code(R, S)
    BY <1>2
<1>7. \A b \in 1 .. Blocks : b # c => R1[b] = R[b] /\ C1[b] = C[b]
    <2>1. \A b \in 1 .. Blocks : b # c => R1[b] = R[b]
        BY <1>2, <1>6, OthersSame
    <2> QED BY <2>1 DEF CondTo
<1>8. Names(R1, K)
    BY <1>1, <1>2, <1>6, NamesKept
<1> HIDE DEF R1
<1>9. \A b \in (c + 1) .. Blocks : Vs(d2[b]) \subseteq next1[b]
    <2>1. \A b \in (c + 1) .. Blocks : b \in 1 .. Blocks
        BY <1>2, RegAllocAssumption
    <2> QED BY <1>4, <1>5, <2>1 DEF JumpDefined
<1>10. Vs(d2[c + 1]) \subseteq cur /\ DOMAIN d2 = 1 .. Blocks
    BY <1>3 DEF JumpDefined
<1>11. JumpTo(R, C, c, cur, R1, C1, next1, d2, T, K, n, omit)
    BY <1>3, <1>5, <1>7, <1>8, <1>9, <1>10 DEF JumpTo
<1>12. SelIn(With(R1, c, J(c + 1)), With(C1, c, J(c + 1)), c + 1, d2, n, omit, T, K)
    BY <1>11, JumpIn
<1> QED BY <1>12 DEF R1

(* One instruction for the branch. *)
LEMMA CondOne ==
    ASSUME NEW R, NEW C, NEW c, NEW cur, NEW next, NEW T, NEW K, NEW n, NEW omit,
           Chosen(R, C, c, cur, next, T, K, n, omit), NEW dst, NEW request, NEW inst,
           inst.block = dst, Fit(inst, cur, c, K, n, omit), Defs(inst) = {},
           Stands1(request, inst, cur, K, n, T), Leads(request, c)
    PROVE  CondTo(R, C, c, cur, next, With(C, c, inst), request, dst, T, K, n, omit)
<1> DEFINE next1 == Narrow(next, cur, inst)
           C1 == With(C, c, inst)
           cur1 == cur \cup Defs(inst)
<1>1. c \in 1 .. Blocks /\ Code(C, Wanted(n, omit))
    BY ChosenIs
<1>2. Chosen(With(R, c, request), C1, c, cur1, next1, T, K, n, omit)
    BY ChosenOne
<1>3. cur1 = cur
    OBVIOUS
<1>4. \A b \in 1 .. Blocks : b # c => C1[b] = C[b]
    BY <1>1, OthersSame
<1>5. \A b \in (c + 1) .. Blocks : (IF b = dst THEN next[b] \cap cur ELSE next[b]) \subseteq next1[b]
    <2>1. \A b \in (c + 1) .. Blocks : b \in 1 .. Blocks
        BY <1>1, RegAllocAssumption
    <2> QED BY <2>1 DEF Narrow
<1> HIDE DEF next1, C1, cur1
<1>6. CondTo(R, C, c, cur, next, C1, request, dst, T, K, n, omit)
    BY <1>2, <1>3, <1>4, <1>5 DEF CondTo
<1> QED BY <1>6 DEF C1

(* None. *)
LEMMA CondNone ==
    ASSUME NEW R, NEW C, NEW c, NEW cur, NEW next, NEW T, NEW K, NEW n, NEW omit,
           Chosen(R, C, c, cur, next, T, K, n, omit), NEW dst, NEW request,
           Stands0(request, cur, K, n, T), Leads(request, c)
    PROVE  CondTo(R, C, c, cur, next, C, request, dst, T, K, n, omit)
<1>1. Chosen(With(R, c, request), C, c, cur, next, T, K, n, omit)
    BY ChosenNone
<1>2. \A b \in (c + 1) .. Blocks : (IF b = dst THEN next[b] \cap cur ELSE next[b]) \subseteq next[b]
    OBVIOUS
<1> QED BY <1>1, <1>2 DEF CondTo

(* A branch on a register. *)
LEMMA BneFit ==
    ASSUME NEW c, NEW cur, NEW n, NEW K, NEW omit, NEW dst \in Int, dst \in (c + 1) .. Blocks,
           NEW T, NEW r, r \in cur, r \in CodeRegs(n) \ T
    PROVE  /\ Fit(Bne(r, zero, dst), cur, c, K, n, omit) /\ Defs(Bne(r, zero, dst)) = {}
           /\ Bne(r, zero, dst).block = dst
           /\ Stands1(CondBr(InReg(r), dst), Bne(r, zero, dst), cur, K, n, T)
<1> DEFINE inst == Bne(r, zero, dst)
           request == CondBr(InReg(r), dst)
<1>0. zero \in CodeRegs(n) /\ zero \in Fixed
    BY CodeRegsIn DEF Fixed
<1>1. /\ inst.kind = "Br" /\ inst.block = dst /\ inst \in Instructions(CodeRegs(n)) /\ Defs(inst) = {}
      /\ Uses(inst, omit) = {r, zero}
    BY <1>0 DEF Bne, Instructions, Defs, Uses, Defining
<1>2. request.kind = "CondBr" /\ request.cond.kind = "Reg" /\ request.cond.reg = r /\ request.block = dst
    BY DEF CondBr, InReg
<1>3. inst = Bne(request.cond.reg, zero, request.block)
    BY <1>2
<1> HIDE DEF inst, request
<1>4. inst \in Wanted(n, omit)
    BY <1>1 DEF Wanted
<1>5. Fit(inst, cur, c, K, n, omit)
    BY <1>0, <1>1, <1>4 DEF Fit, SetsKnown, IsTerminator, Defining
<1>6. Stands1(request, inst, cur, K, n, T)
    BY <1>2, <1>3 DEF Stands1, Piece, BranchPiece
<1> QED BY <1>1, <1>5, <1>6 DEF inst, request

(* On an immediate. *)
LEMMA ImmStands ==
    ASSUME NEW cur, NEW n, NEW T, NEW K, NEW r, NEW v, NEW dst,
           r \in cur, r \in CodeRegs(n) \ T, r \in DOMAIN K, K[r] = Number(v)
    PROVE  /\ v = 1 => Stands1(CondBr(Imm(r, v), dst), J(dst), cur, K, n, T)
           /\ v = 0 => Stands0(CondBr(Imm(r, v), dst), cur, K, n, T)
<1> DEFINE request == CondBr(Imm(r, v), dst)
<1>1. /\ request.kind = "CondBr" /\ request.cond.kind = "Imm" /\ request.cond.reg = r
      /\ request.cond.imm = v /\ request.block = dst
    BY DEF CondBr, Imm
<1> HIDE DEF request
<1>2. ASSUME v = 1 PROVE Stands1(request, J(dst), cur, K, n, T)
    BY <1>1, <1>2 DEF Stands1, Piece, DecidedPiece
<1>3. ASSUME v = 0 PROVE Stands0(request, cur, K, n, T)
    BY <1>1, <1>3 DEF Stands0, Piece, DecidedPiece
<1> QED BY <1>2, <1>3 DEF request

LEMMA UndefStands ==
    ASSUME NEW cur, NEW n, NEW T, NEW K, NEW dst
    PROVE  Stands0(CondBr(Undef, dst), cur, K, n, T)
BY DEF Stands0, Piece, DecidedPiece, CondBr, Undef

LEMMA EndDefined ==
    ASSUME NEW T, NEW K, Picked(T, K), NEW dst, NEW targets, targets = {curr_block + 1, dst},
           defined' = [b \in 1 .. Blocks |->
                        IF b \in targets THEN defined[b] \cap Readable ELSE defined[b]]
    PROVE  JumpDefined(defined', defined, curr_block, dst)
BY DEF JumpDefined, Readable, Vs

LEMMA JumpSelects == Selects /\ Jump => Selects'
<1> SUFFICES ASSUME Selects, Jump PROVE Selects'
    OBVIOUS
<1> DEFINE c == curr_block
<1>1. /\ phase = "select" /\ c < Blocks
      /\ requests' = [requests EXCEPT ![c] = @ \o <<J(c + 1)>>]
      /\ code' = [code EXCEPT ![c] = @ \o <<J(c + 1)>>]
      /\ defined' = [b \in 1 .. Blocks |->
                        IF b \in {c + 1} THEN defined[b] \cap Readable ELSE defined[b]]
      /\ curr_block' = c + 1 /\ omit_frame_pointer' = omit_frame_pointer
      /\ vreg_counter' = vreg_counter /\ storage' = storage
    BY DEF Jump, EndBlock
<1>2. storage = 8 /\ \E T, K : Picked(T, K)
    BY <1>1 DEF Selects
<1>3. PICK T, K : Picked(T, K)
    BY <1>2
<1>4. /\ c \in 1 .. Blocks /\ Code(code, Wanted(vreg_counter, omit_frame_pointer))
      /\ \E S : Code(requests, S)
    BY <1>3, PickedIs
<1>5. PICK S : Code(requests, S)
    BY <1>4
<1>6. requests' = With(requests, c, J(c + 1))
    <2>1. requests[c] \in Seq(S)
        BY <1>4, <1>5 DEF Code
    <2>2. requests[c] \o <<J(c + 1)>> = Append(requests[c], J(c + 1))
        BY <2>1, AppendIs
    <2> QED BY <1>1, <2>2 DEF With
<1>7. code' = With(code, c, J(c + 1))
    <2>1. code[c] \in Seq(Wanted(vreg_counter, omit_frame_pointer))
        BY <1>4 DEF Code
    <2>2. code[c] \o <<J(c + 1)>> = Append(code[c], J(c + 1))
        BY <2>1, AppendIs
    <2> QED BY <1>1, <2>2 DEF With
<1>8. JumpDefined(defined', defined, c, c + 1)
    <2>1. {c + 1} = {c + 1, c + 1}
        OBVIOUS
    <2> QED BY <1>1, <1>3, <2>1, EndDefined
<1>9. SelIn(requests, code, c, defined, vreg_counter, omit_frame_pointer, T, K)
    BY <1>3 DEF Picked
<1>10. SelIn(With(requests, c, J(c + 1)), With(code, c, J(c + 1)), c + 1, defined', vreg_counter,
             omit_frame_pointer, T, K)
    BY <1>1, <1>8, <1>9, JumpOnlyIn
<1>11. Picked(T, K)'
    BY <1>1, <1>6, <1>7, <1>10 DEF Picked
<1> QED BY <1>1, <1>2, <1>11 DEF Selects

LEMMA CondBrIs ==
    ASSUME NEW cond, NEW dst
    PROVE  CondBr(cond, dst).kind = "CondBr" /\ CondBr(cond, dst).block = dst
BY DEF CondBr

(* The code of a branch. *)
LEMMA BranchChosen ==
    ASSUME NEW T, NEW K, Picked(T, K), curr_block < Blocks, NEW cond \in Conditions,
           NEW dst \in (curr_block + 2) .. Blocks
    PROVE  \E C1 : /\ CondTo(requests, code, curr_block, Vs(defined[curr_block]), Nexts(defined), C1,
                             CondBr(cond, dst), dst, T, K, vreg_counter, omit_frame_pointer)
                   /\ C1 = [code EXCEPT ![curr_block] = @ \o GenCondBr(cond, dst)]
                   /\ \E S : C1 \in [1 .. Blocks -> Seq(S)]
<1> DEFINE c == curr_block
           n == vreg_counter
           omit == omit_frame_pointer
           cur == Vs(defined[c])
           next == Nexts(defined)
           W == Wanted(n, omit)
<1>1. /\ n \in Nat /\ c \in 1 .. Blocks /\ Code(code, W) /\ Locals = cur
      /\ Locals \subseteq CodeRegs(n) \ T
    BY PickedIs
<1>2. Chosen(requests, code, c, cur, next, T, K, n, omit)
    BY DEF Picked, SelIn
<1>3. dst \in Int /\ dst \in (c + 1) .. Blocks
    BY <1>1, RegAllocAssumption
<1>4. Leads(CondBr(cond, dst), c)
    BY <1>3, CondBrIs DEF Leads
<1>5. code[c] \in Seq(W) /\ code = [b \in 1 .. Blocks |-> code[b]]
    BY <1>1 DEF Code
<1>6. code = [code EXCEPT ![c] = @ \o <<>>] /\ code \in [1 .. Blocks -> Seq(W)]
    <2>1. code[c] \o <<>> = code[c]
        BY <1>5
    <2> QED BY <1>1, <2>1 DEF Code
<1>7. ASSUME NEW inst, inst.block = dst, Fit(inst, cur, c, K, n, omit), Defs(inst) = {},
             Stands1(CondBr(cond, dst), inst, cur, K, n, T), GenCondBr(cond, dst) = <<inst>>
      PROVE  \E C1 : /\ CondTo(requests, code, c, cur, next, C1, CondBr(cond, dst), dst, T, K, n, omit)
                     /\ C1 = [code EXCEPT ![c] = @ \o GenCondBr(cond, dst)]
                     /\ \E S : C1 \in [1 .. Blocks -> Seq(S)]
    <2> DEFINE request == CondBr(cond, dst)
    <2>1. request.kind = "CondBr" /\ Leads(request, c)
        BY <1>4, CondBrIs
    <2> HIDE DEF request, c, cur, next, n, omit
    <2>2. CondTo(requests, code, c, cur, next, With(code, c, inst), request, dst, T, K, n, omit)
        BY <1>2, <1>7, <2>1, CondOne DEF request
    <2>3. With(code, c, inst) = [code EXCEPT ![c] = @ \o GenCondBr(cond, dst)]
        <3>1. code[c] \o <<inst>> = Append(code[c], inst)
            BY <1>5, AppendIs
        <3> QED BY <1>7, <3>1 DEF With
    <2>4. \E S : With(code, c, inst) \in [1 .. Blocks -> Seq(S)]
        BY <1>1, WithLast DEF Code
    <2> QED BY <2>2, <2>3, <2>4 DEF request
<1>8. ASSUME Stands0(CondBr(cond, dst), cur, K, n, T), GenCondBr(cond, dst) = <<>>
      PROVE  \E C1 : /\ CondTo(requests, code, c, cur, next, C1, CondBr(cond, dst), dst, T, K, n, omit)
                     /\ C1 = [code EXCEPT ![c] = @ \o GenCondBr(cond, dst)]
                     /\ \E S : C1 \in [1 .. Blocks -> Seq(S)]
    <2> HIDE DEF c, cur, next, n, omit, W
    <2>1. CondTo(requests, code, c, cur, next, code, CondBr(cond, dst), dst, T, K, n, omit)
        BY <1>2, <1>4, <1>8, CondNone
    <2> QED BY <1>6, <1>8, <2>1
<1>9. CASE \E r \in Locals : cond = InReg(r)
    <2>1. PICK r \in Locals : cond = InReg(r)
        BY <1>9
    <2>2. r \in cur /\ r \in CodeRegs(n) \ T
        BY <1>1
    <2> DEFINE inst == Bne(r, zero, dst)
    <2>3. GenCondBr(cond, dst) = <<inst>>
        BY <2>1 DEF GenCondBr, InReg
    <2> HIDE DEF c, cur, next, n, omit
    <2>4. /\ Fit(inst, cur, c, K, n, omit) /\ Defs(inst) = {} /\ inst.block = dst
          /\ Stands1(CondBr(InReg(r), dst), inst, cur, K, n, T)
        BY <1>3, <2>2, BneFit
    <2> HIDE DEF inst
    <2> QED BY <1>7, <2>1, <2>3, <2>4 DEF c, cur, next, n, omit
<1>10. CASE \E r \in Constants : cond = Imm(r, Asked[ImmOf(r)].imm) /\ Asked[ImmOf(r)].imm \in {0, 1}
    <2>1. PICK r \in Constants : cond = Imm(r, Asked[ImmOf(r)].imm) /\ Asked[ImmOf(r)].imm \in {0, 1}
        BY <1>10
    <2> PICK v : v = Asked[ImmOf(r)].imm
        OBVIOUS
    <2>2. r \in Locals
        BY DEF Constants
    <2>3. r \in cur /\ r \in CodeRegs(n) \ T
        BY <1>1, <2>2
    <2>4. r \in DOMAIN K /\ K[r] = Number(v)
        BY ImmIs
    <2>5. cond = Imm(r, v) /\ v \in {0, 1}
        BY <2>1
    <2>6. cond.kind = "Imm" /\ cond.imm = v
        BY <2>5 DEF Imm
    <2>7. /\ v = 1 => Stands1(CondBr(cond, dst), J(dst), cur, K, n, T)
          /\ v = 0 => Stands0(CondBr(cond, dst), cur, K, n, T)
        <3> HIDE DEF cur, n
        <3> QED BY <2>3, <2>4, <2>5, ImmStands
    <2>8. CASE v = 1
        <3>1. GenCondBr(cond, dst) = <<J(dst)>>
            BY <2>6, <2>8 DEF GenCondBr
        <3>2. Fit(J(dst), cur, c, K, n, omit) /\ Defs(J(dst)) = {} /\ J(dst).block = dst
            <4> HIDE DEF c, cur, n, omit
            <4> QED BY <1>3, JumpFit
        <3> HIDE DEF c, cur, next, n, omit
        <3> QED BY <1>7, <2>7, <2>8, <3>1, <3>2 DEF c, cur, next, n, omit
    <2>9. CASE v = 0
        <3>1. GenCondBr(cond, dst) = <<>>
            BY <2>6, <2>9 DEF GenCondBr
        <3> QED BY <1>8, <2>7, <2>9, <3>1
    <2> QED BY <2>5, <2>8, <2>9
<1>11. CASE cond = Undef
    <2>1. GenCondBr(cond, dst) = <<>>
        BY <1>11 DEF GenCondBr, Undef
    <2>2. Stands0(CondBr(cond, dst), cur, K, n, T)
        BY <1>11, UndefStands
    <2> QED BY <1>8, <2>1, <2>2
<1> QED BY <1>9, <1>10, <1>11 DEF Conditions

LEMMA AppendTwice ==
    ASSUME NEW S, NEW s \in Seq(S), NEW Q, NEW g \in Seq(Q), NEW x
    PROVE  s \o (g \o <<x>>) = Append(s \o g, x)
<1>1. s \in Seq(S \cup Q \cup {x}) /\ g \in Seq(S \cup Q \cup {x})
    OBVIOUS
<1> QED BY <1>1

(* Instructions at the end of a block. *)
Longer(A, c, g) == [A EXCEPT ![c] = @ \o g]

LEMMA WithTwice ==
    ASSUME NEW S, NEW A, Code(A, S), NEW c \in 1 .. Blocks, NEW x, NEW y
    PROVE  With(With(A, c, x), c, y) = Longer(A, c, <<x, y>>)
<1> DEFINE s1 == Append(A[c], x)
           s2 == Append(s1, y)
<1>1. A[c] \in Seq(S) /\ A = [b \in 1 .. Blocks |-> A[b]]
    BY DEF Code
<1>2. A[c] \o <<x, y>> = s2
    BY <1>1, AppendIs
<1>3. With(A, c, x) = [A EXCEPT ![c] = s1]
    BY DEF With
<1> HIDE DEF s1
<1>4. With(With(A, c, x), c, y) = [[A EXCEPT ![c] = s1] EXCEPT ![c] = s2]
    BY <1>1, <1>3 DEF With
<1> HIDE DEF s2
<1> QED BY <1>1, <1>2, <1>4 DEF Longer

LEMMA WithSeq ==
    ASSUME NEW S, NEW A, Code(A, S), NEW c \in 1 .. Blocks, NEW Q, NEW g \in Seq(Q), NEW x
    PROVE  With(Longer(A, c, g), c, x) = Longer(A, c, g \o <<x>>)
<1> DEFINE s1 == A[c] \o g
           s2 == Append(s1, x)
<1>1. A[c] \in Seq(S) /\ A = [b \in 1 .. Blocks |-> A[b]]
    BY DEF Code
<1>2. A[c] \o (g \o <<x>>) = s2
    BY <1>1, AppendTwice
<1>3. With([A EXCEPT ![c] = s1], c, x) = [[A EXCEPT ![c] = s1] EXCEPT ![c] = s2]
    <2> HIDE DEF s1
    <2> QED BY <1>1 DEF With
<1> HIDE DEF s1, s2
<1>4. [[A EXCEPT ![c] = s1] EXCEPT ![c] = s2] = [A EXCEPT ![c] = s2]
    BY <1>1
<1> QED BY <1>2, <1>3, <1>4 DEF s1, Longer

LEMMA GenCondBrSeq ==
    ASSUME NEW cond \in Conditions, NEW dst
    PROVE  \E Q : GenCondBr(cond, dst) \in Seq(Q)
<1>1. CASE cond.kind = "Reg"
    <2>1. GenCondBr(cond, dst) = <<Bne(cond.reg, zero, dst)>>
        BY <1>1 DEF GenCondBr
    <2>2. <<Bne(cond.reg, zero, dst)>> \in Seq({Bne(cond.reg, zero, dst)})
        OBVIOUS
    <2> QED BY <2>1, <2>2
<1>2. CASE cond.kind = "Imm"
    <2>1. GenCondBr(cond, dst) = IF cond.imm % 2 = 1 THEN <<J(dst)>> ELSE <<>>
        BY <1>2 DEF GenCondBr
    <2>2. <<J(dst)>> \in Seq({J(dst)}) /\ <<>> \in Seq({J(dst)})
        OBVIOUS
    <2> QED BY <2>1, <2>2
<1>3. CASE cond.kind = "Undef"
    <2>1. GenCondBr(cond, dst) = <<>>
        BY <1>3 DEF GenCondBr
    <2>2. <<>> \in Seq({1})
        OBVIOUS
    <2> QED BY <2>1, <2>2
<1> QED BY <1>1, <1>2, <1>3 DEF Conditions, InReg, Imm, Undef

LEMMA CondBranchSelects == Selects /\ CondBranch => Selects'
<1> SUFFICES ASSUME Selects, NEW cond \in Conditions, NEW dst \in (curr_block + 2) .. Blocks,
                    EndBlock(<<CondBr(cond, dst), J(curr_block + 1)>>,
                             GenCondBr(cond, dst) \o <<J(curr_block + 1)>>,
                             {dst, curr_block + 1})
             PROVE  Selects'
    BY DEF CondBranch
<1> DEFINE c == curr_block
           request == CondBr(cond, dst)
           g == GenCondBr(cond, dst)
<1>1. /\ phase = "select" /\ c < Blocks
      /\ requests' = Longer(requests, c, <<request, J(c + 1)>>)
      /\ code' = Longer(code, c, g \o <<J(c + 1)>>)
      /\ defined' = [b \in 1 .. Blocks |->
                        IF b \in {dst, c + 1} THEN defined[b] \cap Readable ELSE defined[b]]
      /\ curr_block' = c + 1 /\ omit_frame_pointer' = omit_frame_pointer
      /\ vreg_counter' = vreg_counter /\ storage' = storage
    BY DEF EndBlock, Longer
<1>2. storage = 8 /\ \E T, K : Picked(T, K)
    BY <1>1 DEF Selects
<1>3. PICK T, K : Picked(T, K)
    BY <1>2
<1>4. /\ c \in 1 .. Blocks /\ Code(code, Wanted(vreg_counter, omit_frame_pointer))
      /\ \E S : Code(requests, S)
    BY <1>3, PickedIs
<1>5. PICK S : Code(requests, S)
    BY <1>4
<1>6. requests' = With(With(requests, c, request), c, J(c + 1))
    <2> DEFINE j == J(c + 1)
    <2>0. requests' = Longer(requests, c, <<request, j>>)
        BY <1>1
    <2> HIDE DEF request, c, j
    <2>1. With(With(requests, c, request), c, j) = Longer(requests, c, <<request, j>>)
        BY <1>4, <1>5, WithTwice
    <2>2. requests' = With(With(requests, c, request), c, j)
        BY <2>0, <2>1
    <2> QED BY <2>2 DEF j
<1>7. PICK C1 : /\ CondTo(requests, code, c, Vs(defined[c]), Nexts(defined), C1, request, dst, T, K,
                          vreg_counter, omit_frame_pointer)
                /\ C1 = Longer(code, c, g)
    <2>1. curr_block < Blocks
        BY <1>1
    <2>2. \E C1 : /\ CondTo(requests, code, curr_block, Vs(defined[curr_block]), Nexts(defined), C1,
                             CondBr(cond, dst), dst, T, K, vreg_counter, omit_frame_pointer)
                  /\ C1 = [code EXCEPT ![curr_block] = @ \o GenCondBr(cond, dst)]
                  /\ \E Q : C1 \in [1 .. Blocks -> Seq(Q)]
        BY <1>3, <2>1, BranchChosen
    <2>3. PICK C1 : /\ CondTo(requests, code, curr_block, Vs(defined[curr_block]), Nexts(defined), C1,
                             CondBr(cond, dst), dst, T, K, vreg_counter, omit_frame_pointer)
                    /\ C1 = [code EXCEPT ![curr_block] = @ \o GenCondBr(cond, dst)]
        BY <2>2
    <2>4. C1 = Longer(code, curr_block, GenCondBr(cond, dst))
        BY <2>3 DEF Longer
    <2> QED BY <2>3, <2>4
<1>8. code' = With(C1, c, J(c + 1))
    <2>1. PICK Q : g \in Seq(Q)
        BY GenCondBrSeq
    <2> DEFINE j == J(c + 1)
               W == Wanted(vreg_counter, omit_frame_pointer)
    <2>a. code' = Longer(code, c, g \o <<j>>) /\ C1 = Longer(code, c, g) /\ c \in 1 .. Blocks /\ Code(code, W)
        BY <1>1, <1>4, <1>7
    <2> HIDE DEF g, c, j, W
    <2>2. With(Longer(code, c, g), c, j) = Longer(code, c, g \o <<j>>)
        BY <2>a, <2>1, WithSeq
    <2>3. code' = With(C1, c, j)
        BY <2>a, <2>2
    <2> QED BY <2>3 DEF j
<1>9. JumpDefined(defined', defined, c, dst)
    <2>1. {dst, c + 1} = {c + 1, dst}
        OBVIOUS
    <2> QED BY <1>1, <1>3, <2>1, EndDefined
<1>10. SelIn(requests, code, c, defined, vreg_counter, omit_frame_pointer, T, K)
    BY <1>3 DEF Picked
<1>11. request.kind = "CondBr"
    BY CondBrIs
<1>12. SelIn(With(With(requests, c, request), c, J(c + 1)), With(C1, c, J(c + 1)), c + 1, defined',
             vreg_counter, omit_frame_pointer, T, K)
    <2> HIDE DEF request, c, g
    <2> QED BY <1>1, <1>7, <1>9, <1>10, <1>11, CondIn
<1>13. Picked(T, K)'
    BY <1>1, <1>6, <1>8, <1>12 DEF Picked
<1> QED BY <1>1, <1>2, <1>13 DEF Selects

-----------------------------------------------------------------------------
(* The start. *)

LEMMA InitSelects == Init => Selects
<1> SUFFICES ASSUME Init PROVE Selects
    OBVIOUS
<1>1. /\ code = Opening /\ requests = Opening /\ curr_block = 1 /\ vreg_counter = 1 /\ storage = 8
      /\ defined = [b \in 1 .. Blocks |->
                      {a0} \cup {V(n) : n \in 0 .. (IF b = 1 THEN 0 ELSE MaxVRegs - 1)}]
    BY DEF Init
<1> DEFINE A == [b \in 1 .. Blocks |-> <<>>]
           inst == AluRRI(V(0), a0, 0)
           K == [r \in {zero} |-> Number(0)]
           E == [b \in 1 .. Blocks |-> [i \in Nat |-> IF b = 1 THEN {} ELSE Vs(defined[b])]]
           cut == [b \in 1 .. Blocks |-> [i \in Nat |-> 0]]
           omit == omit_frame_pointer
           next == [b \in 1 .. Blocks |-> Vs(defined[b])]
<1>2. \A b \in 1 .. Blocks : A[b] = <<>> /\ Len(A[b]) = 0
    OBVIOUS
<1>3. Code(A, Wanted(1, omit)) /\ \E S : Code(A, S)
    BY DEF Code
<1>4. KnownOk(K, 1)
    BY DEF KnownOk
<1> HIDE DEF A, K
<1>5. Body(A, E, K, 1, omit)
    <2>1. \A b \in 1 .. Blocks : \A i \in 1 .. Len(A[b]) : FALSE
        BY <1>2
    <2>2. E[1][0] = {}
        BY RegAllocAssumption
    <2> HIDE DEF E
    <2>3. Flow(A, E, omit)
        BY <2>1, <2>2 DEF Flow
    <2>4. Forward(A)
        BY <2>1 DEF Forward
    <2> QED BY <1>3, <1>4, <2>1, <2>3, <2>4 DEF Body
<1>6. Half(A, A, E, cut, {}, K, 1, omit, 1, Len(A[1]))
    <2>1. 1 \in 1 .. Blocks /\ \A b \in (1 + 1) .. Blocks : b \in 1 .. Blocks
        BY RegAllocAssumption
    <2>2. \A b \in 1 .. Blocks : \A i \in Nat : cut[b][i] = 0
        OBVIOUS
    <2> HIDE DEF E, cut
    <2>3. \A b \in 1 .. Blocks : \A i \in 1 .. Len(A[b]) : FALSE
        BY <1>2
    <2>4. \A b \in 1 .. Blocks :
             /\ \A i \in 0 .. Len(A[b]) : cut[b][i] \in 0 .. Len(A[b])
             /\ cut[b][0] = 0 /\ cut[b][Len(A[b])] = IF b = 1 THEN Len(A[1]) ELSE Len(A[b])
             /\ b = 1 => \A i \in 0 .. Len(A[b]) : cut[b][i] <= Len(A[1])
        BY <1>2, <2>1, <2>2
    <2>5. Len(A[1]) \in 0 .. Len(A[1]) /\ \A b \in (1 + 1) .. Blocks : A[b] = <<>>
        BY <1>2, <2>1
    <2> QED BY <1>3, <1>5, <2>1, <2>3, <2>4, <2>5 DEF Half
<1>7. Chosen(A, A, 1, {}, next, {}, K, 1, omit)
    <2>1. {} \subseteq E[1][Len(A[1])]
        OBVIOUS
    <2>2. \A b \in (1 + 1) .. Blocks : next[b] \subseteq E[b][0]
        BY RegAllocAssumption
    <2> HIDE DEF E, cut, next
    <2> QED BY <1>6, <2>1, <2>2 DEF Chosen
<1>8. /\ inst.kind = "AluRRI" /\ inst.rd = V(0) /\ inst \in Instructions(CodeRegs(1) \ {})
      /\ Defs(inst) = {V(0)} /\ Uses(inst, omit) = {a0}
    <2>1. V(0) \in CodeRegs(1) /\ a0 \in CodeRegs(1)
        <3>1. 0 \in 0 .. (1 - 1)
            OBVIOUS
        <3> QED BY <3>1, CodeRegsIn DEF CodeRegs
    <2> QED BY <2>1 DEF AluRRI, Instructions, Defs, Uses, Defining
<1> HIDE DEF inst
<1>9. Fit(inst, {}, 1, K, 1, omit) /\ Stands1(inst, inst, {}, K, 1, {}) /\ Leads(inst, 1)
    <2>1. V(0) \notin Fixed /\ a0 \in Fixed
        BY RegsDiffer DEF Fixed
    <2>2. inst \in Wanted(1, omit)
        <3>1. CodeRegs(1) \ {} = CodeRegs(1)
            OBVIOUS
        <3> QED BY <1>8, <2>1, <3>1, BaseIs DEF Wanted, Fixed
    <2>3. V(0) \notin DOMAIN K
        BY RegsDiffer DEF K
    <2>4. Fit(inst, {}, 1, K, 1, omit)
        BY <1>8, <2>1, <2>2, <2>3 DEF Fit, SetsKnown, IsTerminator
    <2>5. Stands1(inst, inst, {}, K, 1, {}) /\ Leads(inst, 1)
        BY <1>8, PlainStands DEF Leads
    <2> QED BY <2>4, <2>5
<1> DEFINE next2 == Narrow(next, {}, inst)
           cur2 == {} \cup Defs(inst)
           A2 == With(A, 1, inst)
<1>10. Chosen(A2, A2, 1, cur2, next2, {}, K, 1, omit)
    <2> HIDE DEF next
    <2> QED BY <1>7, <1>9, ChosenOne
<1>11. A2 = Opening
    <2>1. A[1] = <<>> /\ 1 \in 1 .. Blocks
        BY <1>2, RegAllocAssumption
    <2>2. Append(<<>>, inst) = <<inst>>
        OBVIOUS
    <2>3. A2 = [A EXCEPT ![1] = <<inst>>]
        BY <2>1, <2>2 DEF With
    <2>4. Opening = [b \in 1 .. Blocks |-> IF b = 1 THEN <<inst>> ELSE <<>>]
        BY DEF Opening, inst
    <2> DEFINE x == <<inst>>
    <2> HIDE DEF x, A2
    <2>5. A2 = [[b \in 1 .. Blocks |-> <<>>] EXCEPT ![1] = x]
        BY <2>3 DEF A, x
    <2>6. Opening = [b \in 1 .. Blocks |-> IF b = 1 THEN x ELSE <<>>]
        BY <2>4 DEF x
    <2>7. [[b \in 1 .. Blocks |-> <<>>] EXCEPT ![1] = x] = [b \in 1 .. Blocks |-> IF b = 1 THEN x ELSE <<>>]
        BY <2>1
    <2> QED BY <2>5, <2>6, <2>7
<1>12. /\ Vs(defined[1]) \subseteq cur2
       /\ \A b \in (1 + 1) .. Blocks : Nexts(defined)[b] \subseteq next2[b]
    <2>1. \A b \in (1 + 1) .. Blocks : b \in 1 .. Blocks
        BY RegAllocAssumption
    <2>2. ~IsTerminator(inst)
        BY <1>8 DEF IsTerminator
    <2>3. defined[1] = {a0} \cup {V(n) : n \in 0 .. 0}
        BY <1>1, RegAllocAssumption
    <2>4. Vs(defined[1]) \subseteq {V(0)}
        BY <2>3, RegsDiffer DEF Vs
    <2> QED BY <1>8, <2>1, <2>2, <2>4 DEF Narrow, Nexts
<1> DEFINE curz == Vs(defined[1])
           nextz == Nexts(defined)
<1>13. Chosen(A2, A2, 1, curz, nextz, {}, K, 1, omit)
    <2> HIDE DEF A2, curz, nextz, next2, cur2
    <2> QED BY <1>10, <1>12, ChosenLess DEF curz, nextz
<1>14. SelIn(Opening, Opening, 1, defined, 1, omit, {}, K)
    <2>1. Ended(Opening, 1)
        BY DEF Ended
    <2>2. Opening[Blocks] = <<>>
        BY RegAllocAssumption DEF Opening
    <2>3. Names(Opening, K)
        <3>1. \A b \in 1 .. Blocks : \A i \in 1 .. Len(Opening[b]) : Opening[b][i].kind # "Li"
            BY <1>8 DEF Opening, inst
        <3>2. \A r \in DOMAIN K : ~IsVReg(r)
            BY RegsDiffer DEF K
        <3> QED BY <3>1, <3>2 DEF Names
    <2>4. DOMAIN defined = 1 .. Blocks
        BY <1>1
    <2>5. curz \subseteq CodeRegs(1) \ {}
        <3>1. V(0) \in CodeRegs(1)
            <4>1. 0 \in 0 .. (1 - 1)
                OBVIOUS
            <4> QED BY <4>1 DEF CodeRegs
        <3> QED BY <1>8, <1>12, <3>1
    <2> HIDE DEF A2
    <2>6. Chosen(Opening, Opening, 1, Vs(defined[1]), Nexts(defined), {}, K, 1, omit)
        BY <1>11, <1>13
    <2> QED BY <2>1, <2>2, <2>3, <2>4, <2>5, <2>6 DEF SelIn
<1>15. Picked({}, K)
    BY <1>1, <1>14 DEF Picked
<1> QED BY <1>1, <1>15 DEF Selects

-----------------------------------------------------------------------------
(* Instruction selection is over. *)

SelectedOk(R, C, n, omit) ==
    /\ n \in Nat /\ Code(C, Wanted(n, omit)) /\ CodeOk(C, n, omit)
    /\ Len(FlattenSeq(R)) \in Nat /\ Len(FlattenSeq(C)) \in Nat
    /\ \A l : l \in Nat /\ n <= l => Equal(R, C, omit, l)

LEMMA ChosenEnds ==
    ASSUME NEW R, NEW C, NEW cur, NEW next, NEW T, NEW K, NEW n, NEW omit,
           Chosen(R, C, Blocks, cur, next, T, K, n, omit), Closed(R), Closed(C), Ends(C)
    PROVE  SelectedOk(R, C, n, omit)
<1>0. Blocks \in 1 .. Blocks
    BY RegAllocAssumption
<1>1. PICK E, cut : Half(R, C, E, cut, T, K, n, omit, Blocks, Len(C[Blocks]))
    BY DEF Chosen
<1>2. Body(C, E, K, n, omit)
    BY <1>1 DEF Half
<1>3. Pieces(R, C, E, cut, T, K, n)
    <2>1. CutOk(R, C, cut)
        BY <1>1 DEF Half, CutOk
    <2> QED BY <1>1, <2>1 DEF Half, Pieces
<1>4. \A l : l \in Nat /\ n <= l => Equal(R, C, omit, l)
    BY <1>2, <1>3, SelectEqual
<1>5. Len(FlattenSeq(R)) \in Nat /\ Len(FlattenSeq(C)) \in Nat
    <2>1. n \in Nat /\ n <= n
        BY <1>2 DEF Body
    <2> QED BY <1>2, <1>3, <2>1, SelectEqual
<1>6. CodeOk(C, n, omit)
    <2>1. /\ Code(C, Wanted(n, omit)) /\ Forward(C) /\ Flow(C, E, omit)
        BY <1>2 DEF Body
    <2>2. Wanted(n, omit) \subseteq Instructions(CodeRegs(n))
        BY DEF Wanted
    <2>3. Code(C, Instructions(CodeRegs(n)))
        BY <2>1, <2>2, CodeMore
    <2>4. ASSUME NEW b \in 1 .. Blocks, NEW i \in 1 .. Len(C[b])
          PROVE  C[b][i] \in Wanted(n, omit)
        <3>1. C[b] \in Seq(Wanted(n, omit))
            BY <2>1 DEF Code
        <3> QED BY <3>1
    <2>5. ArgsFixed(C)
        BY <2>4 DEF ArgsFixed, Wanted
    <2>6. Shaped(C)
        BY <2>1 DEF Shaped, Closed, Forward
    <2> QED BY <2>1, <2>3, <2>5, <2>6 DEF CodeOk
<1> QED BY <1>2, <1>4, <1>5, <1>6 DEF SelectedOk, Body

LEMMA ReturnIn ==
    ASSUME NEW R, NEW C, NEW d, NEW n, NEW omit, NEW T, NEW K,
           SelIn(R, C, Blocks, d, n, omit, T, K), NEW r, r \in Vs(d[Blocks])
    PROVE  SelectedOk(With(R, Blocks, MoveTo(r)), With(C, Blocks, MoveTo(r)), n, omit)
<1> DEFINE c == Blocks
           cur == Vs(d[c])
           inst == MoveTo(r)
           R2 == With(R, c, inst)
           C2 == With(C, c, inst)
           next2 == Narrow(Nexts(d), cur, inst)
           cur2 == cur \cup Defs(inst)
<1>1. /\ Chosen(R, C, c, cur, Nexts(d), T, K, n, omit) /\ cur \subseteq CodeRegs(n) \ T
      /\ Ended(R, c) /\ Ended(C, c)
    BY DEF SelIn
<1>2. /\ n \in Nat /\ KnownOk(K, n) /\ c \in 1 .. Blocks /\ Code(C, Wanted(n, omit))
      /\ (\E S : Code(R, S)) /\ \A t \in T : IsVReg(t)
    BY <1>1, ChosenIs
<1>3. /\ inst.kind = "AluRRI" /\ inst.rd = a0 /\ inst \in Instructions(CodeRegs(n) \ T)
      /\ Defs(inst) = {a0} /\ Uses(inst, omit) = {r}
    <2>1. a0 \in CodeRegs(n) \ T /\ r \in CodeRegs(n) \ T
        <3>1. a0 \in CodeRegs(n) /\ ~IsVReg(a0)
            BY CodeRegsIn, RegsDiffer
        <3> QED BY <1>1, <1>2, <3>1
    <2> QED BY <2>1 DEF MoveTo, AluRRI, Instructions, Defs, Uses, Defining
<1> HIDE DEF inst
<1>4. Fit(inst, cur, c, K, n, omit) /\ Stands1(inst, inst, cur, K, n, T) /\ Leads(inst, c)
    <2>1. inst \in Instructions(CodeRegs(n))
        <3>1. CodeRegs(n) \ T \subseteq CodeRegs(n)
            OBVIOUS
        <3> QED BY <1>3, <3>1, MoreInsts
    <2>2. a0 # zero /\ a0 # sp /\ a0 # fp /\ ~IsVReg(a0)
        BY RegsDiffer
    <2>3. inst \in Wanted(n, omit)
        BY <1>3, <2>1, <2>2 DEF Wanted, Base
    <2>4. a0 \notin DOMAIN K
        BY <1>2, <2>2 DEF KnownOk
    <2>5. Fit(inst, cur, c, K, n, omit)
        BY <1>3, <2>3, <2>4 DEF Fit, SetsKnown, IsTerminator
    <2>6. Stands1(inst, inst, cur, K, n, T) /\ Leads(inst, c)
        BY <1>3, PlainStands DEF Leads
    <2> QED BY <2>5, <2>6
<1>5. Chosen(R2, C2, c, cur2, next2, T, K, n, omit)
    <2> HIDE DEF cur, c
    <2> QED BY <1>1, <1>4, ChosenOne
<1>6. PICK S : Code(R, S)
    BY <1>2
<1>7. Len(R2[c]) > 0
    BY <1>2, <1>6, WithLast
<1>8. Len(C2[c]) > 0 /\ C2[c][Len(C2[c])] = inst
    BY <1>2, WithLast
<1>9. \A b \in 1 .. Blocks : b # c => R2[b] = R[b] /\ C2[b] = C[b]
    <2>1. \A b \in 1 .. Blocks : b # c => R2[b] = R[b]
        BY <1>2, <1>6, OthersSame
    <2>2. \A b \in 1 .. Blocks : b # c => C2[b] = C[b]
        BY <1>2, OthersSame
    <2> QED BY <2>1, <2>2
<1> HIDE DEF R2, C2, cur2, next2
<1>10. Closed(R2) /\ Closed(C2)
    <2>1. \A b \in 1 .. Blocks : (b # c => b < c) /\ (b < Blocks => b # c)
        BY <1>2, RegAllocAssumption
    <2>2. ASSUME NEW b \in 1 .. Blocks, b # c
          PROVE  /\ Len(R2[b]) > 0 /\ R2[b][Len(R2[b])].kind = "J"
                 /\ Len(C2[b]) > 0 /\ C2[b][Len(C2[b])].kind = "J"
        <3>1. b < c /\ R2[b] = R[b] /\ C2[b] = C[b]
            BY <1>9, <2>1, <2>2
        <3> QED BY <1>1, <3>1 DEF Ended
    <2> QED BY <1>7, <1>8, <2>1, <2>2 DEF Closed
<1>11. Ends(C2)
    BY <1>3, <1>8 DEF Ends
<1>12. SelectedOk(R2, C2, n, omit)
    BY <1>5, <1>10, <1>11, ChosenEnds
<1> QED BY <1>12 DEF R2, C2, inst

Selected == phase = "selected" => storage = 8 /\ SelectedOk(requests, code, vreg_counter, omit_frame_pointer)

LEMMA ReturnSelected == Selects /\ Return => Selected'
<1> SUFFICES ASSUME Selects, Return PROVE Selected'
    OBVIOUS
<1> DEFINE c == Blocks
<1>1. PICK r \in Locals : /\ requests' = [requests EXCEPT ![curr_block] = <<MoveTo(r)>>]
                          /\ code' = [code EXCEPT ![curr_block] = <<MoveTo(r)>>]
    BY DEF Return
<1>2. /\ phase = "select" /\ curr_block = c /\ omit_frame_pointer' = omit_frame_pointer
      /\ vreg_counter' = vreg_counter /\ storage' = storage
    BY DEF Return
<1>3. storage = 8 /\ \E T, K : Picked(T, K)
    BY <1>2 DEF Selects
<1>4. PICK T, K : Picked(T, K)
    BY <1>3
<1>5. SelIn(requests, code, Blocks, defined, vreg_counter, omit_frame_pointer, T, K)
    BY <1>2, <1>4 DEF Picked
<1>6. r \in Vs(defined[Blocks])
    BY <1>2, <1>4, PickedIs
<1>7. SelectedOk(With(requests, Blocks, MoveTo(r)), With(code, Blocks, MoveTo(r)), vreg_counter,
                 omit_frame_pointer)
    BY <1>5, <1>6, ReturnIn
<1>8. requests' = With(requests, Blocks, MoveTo(r)) /\ code' = With(code, Blocks, MoveTo(r))
    <2>1. requests[Blocks] = <<>> /\ code[Blocks] = <<>>
        BY <1>5 DEF SelIn
    <2> DEFINE inst == MoveTo(r)
    <2>2. /\ requests' = [requests EXCEPT ![Blocks] = <<inst>>]
          /\ code' = [code EXCEPT ![Blocks] = <<inst>>]
        BY <1>1, <1>2
    <2> HIDE DEF inst
    <2>3. Append(<<>>, inst) = <<inst>>
        OBVIOUS
    <2>4. requests' = With(requests, Blocks, inst) /\ code' = With(code, Blocks, inst)
        BY <2>1, <2>2, <2>3 DEF With
    <2> QED BY <2>4 DEF inst
<1> QED BY <1>2, <1>3, <1>7, <1>8 DEF Selected

-----------------------------------------------------------------------------
(* Spilling: the register v lives in the cell of the new slot, and next to *)
(* an instruction that reports it in the register t.                       *)

SpillSlot == Slot(-16)
Cell(omit) == <<"frame", <<"entry", Base(omit)>>, SpillSlot>>

(* The register slots are indexed with is never written. *)
Home(omit) == [r \in {Base(omit)} |-> <<"entry", Base(omit)>>]

Moved(v, t, l) == [r \in CodeRegs(l) |-> IF r = v THEN t ELSE r]

(* t is a new register. *)
Beside(W, v, t, n, l, omit) ==
    /\ n \in Nat /\ l \in Nat /\ n <= l
    /\ W \subseteq CodeRegs(n) /\ Base(omit) \in W
    /\ IsVReg(v) /\ v \in CodeRegs(n) /\ IsVReg(t) /\ t \in CodeRegs(l) /\ t \notin CodeRegs(n)

LEMMA BesideIs ==
    ASSUME NEW W, NEW v, NEW t, NEW n, NEW l, NEW omit, Beside(W, v, t, n, l, omit)
    PROVE  /\ W \subseteq CodeRegs(l) /\ CodeRegs(l) \subseteq RegsOf(l) \ {t0}
           /\ Base(omit) \in W /\ Base(omit) \in CodeRegs(l)
           /\ t \in CodeRegs(l) /\ t \in RegsOf(l)
           /\ v # t /\ t \notin W /\ Base(omit) # v /\ Base(omit) # t /\ v \in CodeRegs(l)
           /\ \A r \in CodeRegs(l) : Same(l)[r] = r /\ (r # v => Moved(v, t, l)[r] = r)
           /\ Moved(v, t, l)[v] = t /\ Renaming(Moved(v, t, l), l)
<1>1. CodeRegs(n) \subseteq CodeRegs(l)
    BY MoreCodeRegs DEF Beside
<1>2. CodeRegs(l) \subseteq RegsOf(l) \ {t0} /\ Fixed \subseteq CodeRegs(l)
    BY CodeRegsIn DEF Fixed
<1>3. Base(omit) # v /\ Base(omit) # t /\ v # sp /\ v # fp /\ v # zero /\ v # a0
    BY RegsDiffer DEF Base, Beside
<1>4. Renaming(Moved(v, t, l), l)
    <2>1. Moved(v, t, l) \in [CodeRegs(l) -> RegsOf(l) \ {t0}]
        BY <1>2 DEF Moved, Beside
    <2> QED BY <1>2, <1>3, <2>1 DEF Renaming, Moved, Fixed
<1> QED BY <1>1, <1>2, <1>3, <1>4 DEF Beside, Same, Moved

(* The address of the slot. *)
LEMMA CellIs ==
    ASSUME NEW k, NEW omit, k.regs[Base(omit)] = <<"entry", Base(omit)>>
    PROVE  Address(k, SpillSlot, omit) = Cell(omit) /\ OnStack(SpillSlot)
BY DEF Address, SpillSlot, Slot, OnStack, Cell, Base

LEMMA HomeIs ==
    ASSUME NEW W, NEW h, NEW omit, NEW S, NEW X, NEW m, NEW k, NEW l,
           Related(W, h, Home(omit), S, X, m, k, l), Base(omit) \in W \ S, h[Base(omit)] = Base(omit)
    PROVE  k.regs[Base(omit)] = <<"entry", Base(omit)>> /\ m.regs[Base(omit)] = <<"entry", Base(omit)>>
<1>1. m.regs[Base(omit)] = <<"entry", Base(omit)>>
    BY DEF Related, Home
<1>2. k.regs[h[Base(omit)]] = m.regs[Base(omit)]
    BY DEF Related
<1> QED BY <1>1, <1>2

(* gen_spill_load. *)
LEMMA RefillDone ==
    ASSUME NEW W, NEW v, NEW t, NEW n, NEW l, NEW omit, Beside(W, v, t, n, l, omit), v \in W, NEW m, NEW k,
           Related(W, Same(l), Home(omit), {v}, {Cell(omit)}, m, k, l),
           NEW f, f = Effect(Load(t, SpillSlot), k, omit)
    PROVE  /\ Related(W, Moved(v, t, l), Home(omit), {}, {Cell(omit)}, m, f, l)
           /\ Related(W, Same(l), Home(omit), {v}, {Cell(omit)}, m, f, l)
           /\ OneOn(k, f)
<1> DEFINE x == Cell(omit)
           K == Home(omit)
           i1 == Load(t, SpillSlot)
           a == ScratchedIn(k, SpillSlot)
           val == Contents(k, x)
           regs == [a EXCEPT ![t] = val]
<1>1. /\ W \subseteq CodeRegs(l) /\ CodeRegs(l) \subseteq RegsOf(l) \ {t0}
      /\ v # t /\ t \notin W /\ Base(omit) # v /\ Base(omit) \in CodeRegs(l)
      /\ \A r \in CodeRegs(l) : Same(l)[r] = r /\ (r # v => Moved(v, t, l)[r] = r)
      /\ Moved(v, t, l)[v] = t /\ t \in RegsOf(l) /\ t \in CodeRegs(l)
      /\ Base(omit) \in W
    BY BesideIs
<1>2. Mach(m, l) /\ Mach(k, l) /\ Unseen({x}, m, k)
    BY DEF Related
<1>3. /\ \A r \in W : r # v => k.regs[r] = m.regs[r]
      /\ val = m.regs[v] /\ \A r \in W \cap DOMAIN K : m.regs[r] = K[r]
    BY <1>1 DEF Related
<1>4. Address(k, SpillSlot, omit) = x
    <2>1. k.regs[Base(omit)] = <<"entry", Base(omit)>>
        BY <1>1, HomeIs
    <2> QED BY <2>1, CellIs
<1>5. f = Went(k, regs, k.mem, k.seen)
    <2>1. i1.kind = "Load" /\ i1.rd = t /\ i1.loc = SpillSlot
        BY DEF Load
    <2>2. Effect(i1, k, omit) = Went(k, [ScratchedIn(k, i1.loc)
                          EXCEPT ![i1.rd] = Contents(k, Address(k, i1.loc, omit))], k.mem, k.seen)
        BY <1>2, <2>1, EffectLoad
    <2> QED BY <1>4, <2>1, <2>2
<1>6. a = [q \in RegsOf(l) |-> a[q]] /\ \A q \in RegsOf(l) \ {t0} : a[q] = k.regs[q]
    BY <1>2, ScratchedIs
<1> HIDE DEF a, val, x, K
<1>7. /\ regs = [q \in RegsOf(l) |-> regs[q]] /\ regs[t] = val
      /\ \A q \in RegsOf(l) \ {t} : regs[q] = a[q]
    BY <1>1, <1>6, SetIs
<1> HIDE DEF regs
<1>8. /\ Mach(f, l) /\ f.regs = regs /\ f.mem = k.mem /\ f.seen = k.seen
      /\ f.asked = k.asked /\ f.pc = k.pc + 1
    <2>1. k.mem = [b \in DOMAIN k.mem |-> k.mem[b]]
        BY <1>2 DEF Mach
    <2> QED BY <1>2, <1>5, <1>7, <2>1, WentMach
<1>9. \A r \in CodeRegs(l) : r # t => f.regs[r] = k.regs[r]
    BY <1>1, <1>6, <1>7, <1>8
<1>10. Unseen({x}, m, f)
    BY <1>2, <1>8 DEF Unseen, SameMem
<1>11. Contents(f, x) = val
    BY <1>8 DEF Contents, val
<1>12. \A r \in W : r # v => f.regs[r] = m.regs[r]
    BY <1>1, <1>3, <1>9
<1>13. Related(W, Moved(v, t, l), K, {}, {x}, m, f, l)
    <2>1. \A r \in W \ {} : f.regs[Moved(v, t, l)[r]] = m.regs[r]
        BY <1>1, <1>3, <1>7, <1>8, <1>12
    <2> QED BY <1>2, <1>3, <1>8, <1>10, <2>1 DEF Related
<1>14. Related(W, Same(l), K, {v}, {x}, m, f, l)
    <2>1. \A r \in W \ {v} : f.regs[Same(l)[r]] = m.regs[r]
        BY <1>1, <1>12
    <2>2. \A r \in W \cap {v} : \A y \in {x} : Contents(f, y) = m.regs[r]
        BY <1>3, <1>11
    <2> QED BY <1>2, <1>3, <1>8, <1>10, <2>1, <2>2 DEF Related
<1> QED BY <1>8, <1>13, <1>14 DEF OneOn, x, K

(* gen_spill_store. *)
LEMMA StowDone ==
    ASSUME NEW W, NEW v, NEW t, NEW n, NEW l, NEW omit, Beside(W, v, t, n, l, omit), NEW m, NEW k,
           Related(W, Moved(v, t, l), Home(omit), {}, {Cell(omit)}, m, k, l),
           NEW f, f = Effect(Store(t, SpillSlot), k, omit)
    PROVE  Related(W, Same(l), Home(omit), {v}, {Cell(omit)}, m, f, l) /\ OneOn(k, f)
<1> DEFINE x == Cell(omit)
           K == Home(omit)
           i1 == Store(t, SpillSlot)
           a == ScratchedIn(k, SpillSlot)
           val == a[t]
           mem == [b \in DOMAIN k.mem \cup {x} |-> IF b = x THEN val ELSE k.mem[b]]
<1>1. /\ W \subseteq CodeRegs(l) /\ CodeRegs(l) \subseteq RegsOf(l) \ {t0}
      /\ v # t /\ t \notin W /\ Base(omit) # v /\ Base(omit) \in CodeRegs(l)
      /\ \A r \in CodeRegs(l) : Same(l)[r] = r /\ (r # v => Moved(v, t, l)[r] = r)
      /\ Moved(v, t, l)[v] = t /\ t \in RegsOf(l) /\ t \in CodeRegs(l)
      /\ Base(omit) \in W
    BY BesideIs
<1>2. Mach(m, l) /\ Mach(k, l) /\ Unseen({x}, m, k)
    BY DEF Related
<1>3. /\ \A r \in W : r # v => k.regs[r] = m.regs[r]
      /\ v \in W => k.regs[t] = m.regs[v]
      /\ \A r \in W \cap DOMAIN K : m.regs[r] = K[r]
    BY <1>1 DEF Related
<1>4. Address(k, SpillSlot, omit) = x /\ OnStack(SpillSlot)
    <2>1. k.regs[Base(omit)] = <<"entry", Base(omit)>>
        <3>1. Base(omit) \in W \ {} /\ Moved(v, t, l)[Base(omit)] = Base(omit)
            BY <1>1
        <3> QED BY <3>1, HomeIs
    <2> QED BY <2>1, CellIs
<1>5. f = Went(k, a, mem, k.seen)
    <2>1. i1.kind = "Store" /\ i1.src = t /\ i1.loc = SpillSlot
        BY DEF Store
    <2>2. LET address == Address(k, i1.loc, omit)
              w == ScratchedIn(k, i1.loc)[i1.src]
          IN Effect(i1, k, omit)
               = Went(k, ScratchedIn(k, i1.loc),
                      [b \in DOMAIN k.mem \cup {address} |-> IF b = address THEN w ELSE k.mem[b]],
                      IF OnStack(i1.loc) THEN k.seen
                      ELSE Append(k.seen, <<"store", address, w>>))
        BY <1>2, <2>1, EffectStore
    <2> QED BY <1>4, <2>1, <2>2
<1>6. a = [q \in RegsOf(l) |-> a[q]] /\ \A q \in RegsOf(l) \ {t0} : a[q] = k.regs[q]
    BY <1>2, ScratchedIs
<1> HIDE DEF a, x, K
<1>7. val = k.regs[t]
    BY <1>1, <1>6
<1> HIDE DEF val
<1>a. DOMAIN mem = DOMAIN k.mem \cup {x} /\ mem[x] = val
      /\ \A b \in DOMAIN k.mem : b # x => mem[b] = k.mem[b]
    OBVIOUS
<1>b. mem = [b \in DOMAIN mem |-> mem[b]]
    OBVIOUS
<1> HIDE DEF mem
<1>8. /\ Mach(f, l) /\ f.regs = a /\ f.mem = mem /\ f.seen = k.seen
      /\ f.asked = k.asked /\ f.pc = k.pc + 1
    BY <1>2, <1>5, <1>6, <1>b, WentMach
<1>9. \A r \in CodeRegs(l) : f.regs[r] = k.regs[r]
    BY <1>1, <1>6, <1>8
<1>10. Unseen({x}, m, f)
    BY <1>2, <1>8, <1>a DEF Unseen, SameMem
<1>11. Contents(f, x) = k.regs[t]
    BY <1>7, <1>8, <1>a DEF Contents
<1>12. Related(W, Same(l), K, {v}, {x}, m, f, l)
    <2>1. \A r \in W \ {v} : f.regs[Same(l)[r]] = m.regs[r]
        BY <1>1, <1>3, <1>9
    <2>2. \A r \in W \cap {v} : \A y \in {x} : Contents(f, y) = m.regs[r]
        BY <1>3, <1>11
    <2> QED BY <1>2, <1>3, <1>8, <1>10, <2>1, <2>2 DEF Related
<1> QED BY <1>8, <1>12 DEF OneOn, x, K

(* Neither. *)
LEMMA NoRefill ==
    ASSUME NEW W, NEW v, NEW t, NEW n, NEW l, NEW omit, Beside(W, v, t, n, l, omit), NEW m, NEW k,
           Related(W, Same(l), Home(omit), {v}, {Cell(omit)}, m, k, l)
    PROVE  Related(W \ {v}, Moved(v, t, l), Home(omit), {}, {Cell(omit)}, m, k, l)
BY BesideIs DEF Related

LEMMA NoStow ==
    ASSUME NEW W, NEW v, NEW t, NEW n, NEW l, NEW omit, Beside(W, v, t, n, l, omit), NEW m, NEW k,
           Related(W \ {v}, Moved(v, t, l), Home(omit), {}, {Cell(omit)}, m, k, l),
           v \in W => Contents(k, Cell(omit)) = m.regs[v]
    PROVE  Related(W, Same(l), Home(omit), {v}, {Cell(omit)}, m, k, l)
<1>1. /\ W \subseteq CodeRegs(l) /\ Base(omit) # v
      /\ \A r \in CodeRegs(l) : Same(l)[r] = r /\ (r # v => Moved(v, t, l)[r] = r)
    BY BesideIs
<1>2. \A r \in W \ {v} : k.regs[Same(l)[r]] = m.regs[r]
    BY <1>1 DEF Related
<1>3. \A r \in W \cap DOMAIN Home(omit) : m.regs[r] = Home(omit)[r]
    <2>1. \A r \in W \cap DOMAIN Home(omit) : r \in W \ {v}
        BY <1>1 DEF Home
    <2> QED BY <2>1 DEF Related
<1> QED BY <1>2, <1>3 DEF Related

-----------------------------------------------------------------------------
(* An instruction with v renamed to t. *)

(* The memory of the program is not the cell. *)
LEMMA NotCell ==
    ASSUME NEW m, NEW omit, NEW n, NEW inst \in Wanted(n, omit), inst.kind \in {"Load", "Store"}
    PROVE  Address(m, inst.loc, omit) # Cell(omit)
<1>1. CASE inst.loc = ProgramSlot
    <2>1. Address(m, inst.loc, omit) = <<"frame", m.regs[Base(omit)], ProgramSlot>>
        BY <1>1 DEF Address, OnStack, ProgramSlot, Slot, Base
    <2>2. ProgramSlot.offset = -8 /\ SpillSlot.offset = -16
        BY DEF ProgramSlot, SpillSlot, Slot
    <2>3. ProgramSlot # SpillSlot
        BY <2>2
    <2> QED BY <2>1, <2>3 DEF Cell
<1>2. CASE inst.loc.kind = "RegOffset" /\ inst.loc.offset = 8
    <2>1. Address(m, inst.loc, omit) = Sum2(m.regs[inst.loc.base], Number(8))
        BY <1>2 DEF Address, OnStack
    <2>2. Number(8) # Number(0)
        BY DEF Number
    <2>3. Address(m, inst.loc, omit)[1] = "add"
        BY <2>1, <2>2 DEF Sum2
    <2>4. Cell(omit)[1] = "frame"
        BY DEF Cell
    <2> QED BY <2>3, <2>4
<1> QED BY <1>1, <1>2 DEF Wanted

Touches(inst, v, omit) == v \in Uses(inst, omit) \cup Defs(inst)

LEMMA TouchedKind ==
    ASSUME NEW n, NEW omit, NEW inst \in Wanted(n, omit), NEW v, IsVReg(v), Touches(inst, v, omit)
    PROVE  inst.kind \notin {"Call", "J"}
<1>1. inst \in Instructions(CodeRegs(n)) /\ (inst.kind = "Call" => inst.arg_regs \subseteq {a0})
    BY DEF Wanted
<1>2. v # a0
    BY RegsDiffer
<1>3. inst.kind # "Call"
    BY <1>1, <1>2 DEF Touches, Uses, Defs, RETURN_REGS
<1>4. inst.kind # "J"
    BY DEF Touches, Uses, Defs, Defining
<1> QED BY <1>3, <1>4

LEMMA ReplacedTo ==
    ASSUME NEW n, NEW l, NEW v, NEW t, n \in Nat, l \in Nat, n <= l,
           NEW inst \in Instructions(CodeRegs(n))
    PROVE  InstTo(inst, ReplaceReg(inst, v, t), Moved(v, t, l))
<1>1. CodeRegs(n) \subseteq CodeRegs(l)
    BY MoreCodeRegs
<1>2. inst \in Instructions(CodeRegs(l))
    BY <1>1, MoreInsts
<1>3. InstTo(inst, inst, Same(l))
    BY <1>2, SameRenaming
<1>4. \A r \in CodeRegs(l) : Moved(v, t, l)[r] = IF Same(l)[r] = v THEN t ELSE Same(l)[r]
    BY DEF Same, Moved
<1> HIDE DEF Moved, Same
<1> QED BY <1>2, <1>3, <1>4, ReplaceTo

Replaced(inst, i2, v, t, omit, l) ==
    /\ i2 \in Instructions(CodeRegs(l)) /\ i2.kind = inst.kind
    /\ Uses(i2, omit) \subseteq (Uses(inst, omit) \ {v}) \cup {t}
    /\ v \notin Uses(inst, omit) => Uses(i2, omit) \subseteq Uses(inst, omit)
    /\ v \in Defs(inst) => Defs(i2) = {t}
    /\ v \notin Defs(inst) => Defs(i2) = Defs(inst)
    /\ inst.kind = "Br" => i2.block = inst.block

LocWith(loc, loc2, v, t) ==
    loc2 = IF ~OnStack(loc) /\ loc.base = v THEN RegOffset(t, loc.offset) ELSE loc

(* loc, of code that names n registers, becomes loc2 as t replaces v.      *)
LocFits(n, l, v, t, omit, loc, loc2) ==
    /\ n \in Nat /\ l \in Nat /\ n <= l
    /\ t \in CodeRegs(l) /\ Base(omit) # v
    /\ loc \in Locations(CodeRegs(n)) /\ LocWith(loc, loc2, v, t)

LocTakes(l, v, t, omit, loc, loc2) ==
    /\ loc2 \in Locations(CodeRegs(l))
    /\ LocUses(loc2, omit) \subseteq (LocUses(loc, omit) \ {v}) \cup {t}

LEMMA LocReplaced ==
    ASSUME NEW n, NEW l, NEW v, NEW t, NEW omit, NEW loc, NEW loc2,
           LocFits(n, l, v, t, omit, loc, loc2)
    PROVE  LocTakes(l, v, t, omit, loc, loc2)
<1> USE DEF LocFits, LocTakes
<1>1. CodeRegs(n) \subseteq CodeRegs(l)
    BY MoreCodeRegs
<1>2. Locations(CodeRegs(n)) \subseteq Locations(CodeRegs(l))
    BY <1>1 DEF Locations
<1>3. CASE ~OnStack(loc) /\ loc.base = v
    <2>1. loc2 = RegOffset(t, loc.offset) /\ loc.offset \in Int
        BY <1>3 DEF Locations, LocWith
    <2>2. loc2 \in Locations(CodeRegs(l)) /\ ~OnStack(loc2) /\ loc2.base = t
        BY <2>1 DEF RegOffset, Locations, OnStack
    <2> QED BY <2>2 DEF LocUses
<1>4. CASE ~(~OnStack(loc) /\ loc.base = v)
    <2>1. v \notin LocUses(loc, omit)
        BY <1>4 DEF LocUses, Base
    <2> QED BY <1>2, <1>4, <2>1 DEF LocWith
<1> QED BY <1>3, <1>4

LEMMA ReplacedIs ==
    ASSUME NEW n, NEW l, n \in Nat, l \in Nat, n <= l, NEW v, NEW t \in CodeRegs(l),
           NEW omit, Base(omit) # v, NEW inst \in Instructions(CodeRegs(n)), inst.kind # "Call"
    PROVE  Replaced(inst, ReplaceReg(inst, v, t), v, t, omit, l)
<1> DEFINE i2 == ReplaceReg(inst, v, t)
           R == CodeRegs(l)
           In(r) == IF r = v THEN t ELSE r
<1>1. \A r \in CodeRegs(n) : In(r) \in R
    BY MoreCodeRegs
<1>2. /\ DOMAIN i2 = DOMAIN inst
      /\ i2 = [x \in DOMAIN inst |-> i2[x]]
      /\ \A x \in DOMAIN inst :
            i2[x] = IF x \in {"rd", "rs", "rs1", "rs2", "src"} /\ inst[x] = v THEN t
                    ELSE IF x = "loc" /\ ~OnStack(inst.loc) /\ inst.loc.base = v
                         THEN RegOffset(t, inst.loc.offset)
                    ELSE inst[x]
    BY DEF ReplaceReg
<1> HIDE DEF i2, R
<1>3. CASE inst.kind = "Li"
    <2>1. /\ inst.rd \in CodeRegs(n) /\ inst.imm \in Int /\ DOMAIN inst = {"kind", "rd", "imm"}
        BY <1>3 DEF Instructions
    <2>2. i2.kind = "Li" /\ i2.rd = In(inst.rd) /\ i2.imm = inst.imm
        BY <1>2, <1>3, <2>1
    <2>3. i2 = [kind |-> "Li", rd |-> i2.rd, imm |-> i2.imm]
        BY <1>2, <2>1, <2>2
    <2>4. i2 \in Instructions(R)
        BY <1>1, <2>1, <2>2, <2>3 DEF Instructions
    <2> QED BY <1>3, <2>2, <2>4 DEF Replaced, Uses, Defs, Defining, R, i2
<1>4. CASE inst.kind = "AluRRI"
    <2>1. /\ inst.rd \in CodeRegs(n) /\ inst.rs \in CodeRegs(n) /\ inst.imm \in Int
          /\ DOMAIN inst = {"kind", "rd", "rs", "imm"}
        BY <1>4 DEF Instructions
    <2>2. i2.kind = "AluRRI" /\ i2.rd = In(inst.rd) /\ i2.rs = In(inst.rs) /\ i2.imm = inst.imm
        BY <1>2, <1>4, <2>1
    <2>3. i2 = [kind |-> "AluRRI", rd |-> i2.rd, rs |-> i2.rs, imm |-> i2.imm]
        BY <1>2, <2>1, <2>2
    <2>4. i2 \in Instructions(R)
        BY <1>1, <2>1, <2>2, <2>3 DEF Instructions
    <2> QED BY <1>4, <2>2, <2>4 DEF Replaced, Uses, Defs, Defining, R, i2
<1>5. CASE inst.kind = "AluRRR"
    <2>1. /\ inst.rd \in CodeRegs(n) /\ inst.rs1 \in CodeRegs(n) /\ inst.rs2 \in CodeRegs(n)
          /\ DOMAIN inst = {"kind", "rd", "rs1", "rs2"}
        BY <1>5 DEF Instructions
    <2>2. i2.kind = "AluRRR" /\ i2.rd = In(inst.rd) /\ i2.rs1 = In(inst.rs1) /\ i2.rs2 = In(inst.rs2)
        BY <1>2, <1>5, <2>1
    <2>3. i2 = [kind |-> "AluRRR", rd |-> i2.rd, rs1 |-> i2.rs1, rs2 |-> i2.rs2]
        BY <1>2, <2>1, <2>2
    <2>4. i2 \in Instructions(R)
        BY <1>1, <2>1, <2>2, <2>3 DEF Instructions
    <2> QED BY <1>5, <2>2, <2>4 DEF Replaced, Uses, Defs, Defining, R, i2
<1>6. CASE inst.kind = "Br"
    <2>1. /\ inst.rs1 \in CodeRegs(n) /\ inst.rs2 \in CodeRegs(n) /\ inst.block \in Int
          /\ DOMAIN inst = {"kind", "rs1", "rs2", "block"}
        BY <1>6 DEF Instructions
    <2>2. i2.kind = "Br" /\ i2.block = inst.block /\ i2.rs1 = In(inst.rs1) /\ i2.rs2 = In(inst.rs2)
        BY <1>2, <1>6, <2>1
    <2>3. i2 = [kind |-> "Br", rs1 |-> i2.rs1, rs2 |-> i2.rs2, block |-> i2.block]
        BY <1>2, <2>1, <2>2
    <2>4. i2 \in Instructions(R)
        BY <1>1, <2>1, <2>2, <2>3 DEF Instructions
    <2> QED BY <1>6, <2>2, <2>4 DEF Replaced, Uses, Defs, Defining, R, i2
<1>7. CASE inst.kind \in {"Load", "LoadAddr"}
    <2>1. /\ inst.rd \in CodeRegs(n) /\ inst.loc \in Locations(CodeRegs(n))
          /\ DOMAIN inst = {"kind", "rd", "loc"}
        BY <1>7 DEF Instructions
    <2>2. /\ i2.kind = inst.kind /\ i2.rd = In(inst.rd)
          /\ i2.loc = IF ~OnStack(inst.loc) /\ inst.loc.base = v
                      THEN RegOffset(t, inst.loc.offset) ELSE inst.loc
        BY <1>2, <2>1
    <2>3. i2 = [kind |-> inst.kind, rd |-> i2.rd, loc |-> i2.loc]
        BY <1>2, <2>1, <2>2
    <2>4. /\ i2.loc \in Locations(R)
          /\ LocUses(i2.loc, omit) \subseteq (LocUses(inst.loc, omit) \ {v}) \cup {t}
        <3>1. PICK loc \in Locations(CodeRegs(n)) : loc = inst.loc
            BY <2>1
        <3>2. PICK loc2 : loc2 = i2.loc
            OBVIOUS
        <3>3. LocWith(loc, loc2, v, t)
            BY <2>2, <3>1, <3>2 DEF LocWith
        <3>4. /\ loc2 \in Locations(CodeRegs(l))
              /\ LocUses(loc2, omit) \subseteq (LocUses(loc, omit) \ {v}) \cup {t}
            <4>1. LocFits(n, l, v, t, omit, loc, loc2)
                BY <3>3 DEF LocFits
            <4>2. LocTakes(l, v, t, omit, loc, loc2)
                BY <4>1, LocReplaced, Zenon
            <4> QED BY <4>2 DEF LocTakes
        <3> QED BY <3>1, <3>2, <3>4 DEF R
    <2>5. i2 \in Instructions(R)
        BY <1>1, <1>7, <2>1, <2>2, <2>3, <2>4 DEF Instructions
    <2>6. v \notin LocUses(inst.loc, omit) => i2.loc = inst.loc
        BY <2>2 DEF LocUses
    <2> QED BY <1>7, <2>2, <2>4, <2>5, <2>6 DEF Replaced, Uses, Defs, Defining, R, i2
<1>8. CASE inst.kind = "Store"
    <2>1. /\ inst.src \in CodeRegs(n) /\ inst.loc \in Locations(CodeRegs(n))
          /\ DOMAIN inst = {"kind", "src", "loc"}
        BY <1>8 DEF Instructions
    <2>2. /\ i2.kind = "Store" /\ i2.src = In(inst.src)
          /\ i2.loc = IF ~OnStack(inst.loc) /\ inst.loc.base = v
                      THEN RegOffset(t, inst.loc.offset) ELSE inst.loc
        BY <1>2, <1>8, <2>1
    <2>3. i2 = [kind |-> "Store", src |-> i2.src, loc |-> i2.loc]
        BY <1>2, <2>1, <2>2
    <2>4. /\ i2.loc \in Locations(R)
          /\ LocUses(i2.loc, omit) \subseteq (LocUses(inst.loc, omit) \ {v}) \cup {t}
        <3>1. PICK loc \in Locations(CodeRegs(n)) : loc = inst.loc
            BY <2>1
        <3>2. PICK loc2 : loc2 = i2.loc
            OBVIOUS
        <3>3. LocWith(loc, loc2, v, t)
            BY <2>2, <3>1, <3>2 DEF LocWith
        <3>4. /\ loc2 \in Locations(CodeRegs(l))
              /\ LocUses(loc2, omit) \subseteq (LocUses(loc, omit) \ {v}) \cup {t}
            <4>1. LocFits(n, l, v, t, omit, loc, loc2)
                BY <3>3 DEF LocFits
            <4>2. LocTakes(l, v, t, omit, loc, loc2)
                BY <4>1, LocReplaced, Zenon
            <4> QED BY <4>2 DEF LocTakes
        <3> QED BY <3>1, <3>2, <3>4 DEF R
    <2>5. i2 \in Instructions(R)
        BY <1>1, <2>1, <2>2, <2>3, <2>4 DEF Instructions
    <2>6. v \notin LocUses(inst.loc, omit) => i2.loc = inst.loc
        BY <2>2 DEF LocUses
    <2> QED BY <1>8, <2>2, <2>4, <2>5, <2>6 DEF Replaced, Uses, Defs, Defining, R, i2
<1>9. CASE inst.kind = "J"
    <2>1. inst.block \in Int /\ DOMAIN inst = {"kind", "block"}
        BY <1>9 DEF Instructions
    <2>2. i2.kind = "J" /\ i2.block = inst.block
        BY <1>2, <1>9, <2>1
    <2>3. i2 = [kind |-> "J", block |-> i2.block]
        BY <1>2, <2>1, <2>2
    <2>4. i2 \in Instructions(R)
        BY <2>1, <2>2, <2>3 DEF Instructions
    <2> QED BY <1>9, <2>2, <2>4 DEF Replaced, Uses, Defs, Defining, R, i2
<1> QED BY <1>3, <1>4, <1>5, <1>6, <1>7, <1>8, <1>9 DEF Instructions

-----------------------------------------------------------------------------
(* The code with v in the cell does the same, instruction by instruction.  *)

Held(E, n, b, i) == (E[b][i] \cap CodeRegs(n)) \cup Fixed

Fresh(t, n, l) == IsVReg(t) /\ t \in CodeRegs(l) \ CodeRegs(n)

(* The instructions of A from lo + 1 to hi stand for inst, mid + 1 for     *)
(* itself.                                                                 *)
TouchedPiece(inst, A, lo, mid, hi, v, t, omit) ==
    /\ v \in Uses(inst, omit) => mid = lo + 1 /\ A[lo + 1] = Load(t, SpillSlot)
    /\ v \notin Uses(inst, omit) => mid = lo
    /\ A[mid + 1] = ReplaceReg(inst, v, t)
    /\ v \in Defs(inst) => hi = mid + 2 /\ A[mid + 2] = Store(t, SpillSlot)
    /\ v \notin Defs(inst) => hi = mid + 1

Filled(inst, A, lo, hi, v, n, l, omit) ==
    \/ ~Touches(inst, v, omit) /\ hi = lo + 1 /\ A[lo + 1] = inst
    \/ /\ Touches(inst, v, omit)
       /\ \E t, mid : Fresh(t, n, l) /\ mid \in Nat /\ TouchedPiece(inst, A, lo, mid, hi, v, t, omit)

Fills(A, C, cut, v, n, l, omit) ==
    \A b \in 1 .. Blocks : \A i \in 1 .. Len(A[b]) :
        Filled(A[b][i], C[b], cut[b][i - 1], cut[b][i], v, n, l, omit)

Filling(c, E, v, n) ==
    /\ Running(c) /\ c.S = {v} /\ c.X = {Cell(c.omit)} /\ c.h = Same(c.n) /\ c.K = Home(c.omit)
    /\ c.n \in Nat /\ n \in Nat /\ n <= c.n /\ IsVReg(v) /\ v \in CodeRegs(n)
    /\ Code(c.R, Wanted(n, c.omit)) /\ Flow(c.R, E, c.omit) /\ Shaped(c.R) /\ CutOk(c.R, c.C, c.cut)
    /\ Fills(c.R, c.C, c.cut, v, n, c.n, c.omit)
    /\ \A b \in 1 .. Blocks : \A i \in 0 .. Len(c.R[b]) : c.W[b][i] = Held(E, n, b, i)

FillAt(c, E, v, n, b, i, inst, m, k) ==
    /\ b \in 1 .. Blocks /\ i < Len(c.R[b]) /\ inst = c.R[b][i + 1]
    /\ c.cut[b][i] \in 0 .. Len(c.C[b]) /\ c.cut[b][i + 1] \in 0 .. Len(c.C[b])
    /\ Len(c.C[b]) \in Nat
    /\ Filled(inst, c.C[b], c.cut[b][i], c.cut[b][i + 1], v, n, c.n, c.omit)
    /\ inst \in Wanted(n, c.omit) /\ inst \in Instructions(CodeRegs(n))
    /\ inst \in Instructions(CodeRegs(c.n))
    /\ Uses(inst, c.omit) \subseteq Held(E, n, b, i)
    /\ inst.kind # "J" => Held(E, n, b, i + 1) \subseteq Held(E, n, b, i) \cup Defs(inst)
    /\ IsTerminator(inst) => /\ inst.block \in (b + 1) .. Blocks /\ inst.block \in 1 .. Blocks
                             /\ Held(E, n, inst.block, 0) \subseteq Held(E, n, b, i)
    /\ (i + 1 < Len(c.R[b]) \/ b = Blocks \/ inst.kind = "J")
    /\ c.W[b][i] = Held(E, n, b, i) /\ c.W[b][i + 1] = Held(E, n, b, i + 1)
    /\ \A d \in 1 .. Blocks : c.W[d][0] = Held(E, n, d, 0) /\ Len(c.R[d]) > 0
    /\ Related(Held(E, n, b, i), Same(c.n), Home(c.omit), {v}, {Cell(c.omit)}, m, k, c.n)

LEMMA HeldIn ==
    ASSUME NEW E, NEW n, NEW b, NEW i, NEW l, n \in Nat, l \in Nat, n <= l
    PROVE  Held(E, n, b, i) \subseteq CodeRegs(n) /\ Held(E, n, b, i) \subseteq CodeRegs(l)
BY MoreCodeRegs, CodeRegsIn DEF Held, Fixed

LEMMA FillPlace ==
    ASSUME NEW c, NEW E, NEW v, NEW n, Filling(c, E, v, n), NEW b, NEW i, NEW m, NEW k,
           At2(c, b, i, m, k), i < Len(c.R[b])
    PROVE  \E inst : FillAt(c, E, v, n, b, i, inst, m, k)
<1>1. /\ Running(c) /\ Code(c.R, Wanted(n, c.omit)) /\ Flow(c.R, E, c.omit) /\ Shaped(c.R)
      /\ CutOk(c.R, c.C, c.cut) /\ Fills(c.R, c.C, c.cut, v, n, c.n, c.omit)
      /\ n \in Nat /\ c.n \in Nat /\ n <= c.n
    BY DEF Filling
<1>2. b \in 1 .. Blocks /\ i \in 0 .. Len(c.R[b])
    BY DEF At2
<1>3. \A d \in 1 .. Blocks : Len(c.R[d]) \in Nat /\ Len(c.C[d]) \in Nat /\ 0 \in 0 .. Len(c.R[d])
    <2>1. \A d \in 1 .. Blocks : Len(c.R[d]) \in Nat /\ Len(c.C[d]) \in Nat
        BY <1>1, RunningIs
    <2> QED BY <2>1
<1>4. PICK j \in 1 .. Len(c.R[b]) : j = i + 1 /\ j - 1 = i /\ j \in 0 .. Len(c.R[b])
    BY <1>2, <1>3
<1>5. PICK inst : inst = c.R[b][j]
    OBVIOUS
<1>6. /\ c.cut[b][i] \in 0 .. Len(c.C[b]) /\ c.cut[b][j] \in 0 .. Len(c.C[b])
    BY <1>1, <1>2, <1>4 DEF CutOk
<1>7. Filled(inst, c.C[b], c.cut[b][i], c.cut[b][j], v, n, c.n, c.omit)
    BY <1>1, <1>2, <1>4, <1>5 DEF Fills
<1>8. /\ inst \in Wanted(n, c.omit) /\ inst \in Instructions(CodeRegs(n))
      /\ inst \in Instructions(CodeRegs(c.n))
    <2>1. inst \in Wanted(n, c.omit)
        BY <1>1, <1>2, <1>5, InstIn
    <2>2. inst \in Instructions(CodeRegs(n))
        BY <2>1 DEF Wanted
    <2>3. CodeRegs(n) \subseteq CodeRegs(c.n)
        BY <1>1, MoreCodeRegs
    <2> QED BY <2>1, <2>2, <2>3, MoreInsts
<1>9. Uses(inst, c.omit) \subseteq CodeRegs(n) /\ Defs(inst) \subseteq CodeRegs(n)
    BY <1>8, UsesIn
<1>10. /\ Uses(inst, c.omit) \subseteq E[b][i] \cup Fixed
       /\ inst.kind # "J" => E[b][j] \subseteq E[b][i] \cup Defs(inst)
       /\ IsTerminator(inst) => E[inst.block][0] \subseteq E[b][i]
    BY <1>1, <1>2, <1>4, <1>5 DEF Flow
<1>11. IsTerminator(inst) => inst.block \in (b + 1) .. Blocks /\ inst.block \in 1 .. Blocks
    <2>1. IsTerminator(inst) => inst.block \in (b + 1) .. Blocks
        BY <1>1, <1>2, <1>5 DEF Shaped
    <2> QED BY <1>2, <2>1, RegAllocAssumption
<1>12. i + 1 < Len(c.R[b]) \/ b = Blocks \/ inst.kind = "J"
    <2>1. j < Len(c.R[b]) \/ j = Len(c.R[b])
        BY <1>3, <1>4
    <2>2. b # Blocks => b < Blocks
        BY <1>2, RegAllocAssumption
    <2> QED BY <1>1, <1>2, <1>4, <1>5, <2>1, <2>2 DEF Shaped
<1>13. /\ c.W[b][i] = Held(E, n, b, i) /\ c.W[b][j] = Held(E, n, b, j)
       /\ \A d \in 1 .. Blocks : c.W[d][0] = Held(E, n, d, 0)
    BY <1>2, <1>3, <1>4 DEF Filling
<1>14. \A d \in 1 .. Blocks : Len(c.R[d]) > 0
    BY <1>1 DEF Shaped
<1>15. Related(Held(E, n, b, i), Same(c.n), Home(c.omit), {v}, {Cell(c.omit)}, m, k, c.n)
    <2>1. Related(c.W[b][i], c.h, c.K, c.S, c.X, m, k, c.n)
        BY DEF At2
    <2> QED BY <1>13, <2>1 DEF Filling
<1>16. /\ Uses(inst, c.omit) \subseteq Held(E, n, b, i)
       /\ inst.kind # "J" => Held(E, n, b, j) \subseteq Held(E, n, b, i) \cup Defs(inst)
       /\ IsTerminator(inst) => Held(E, n, inst.block, 0) \subseteq Held(E, n, b, i)
    BY <1>9, <1>10 DEF Held
<1>17. j = i + 1
    BY <1>4
<1>18. FillAt(c, E, v, n, b, i, inst, m, k)
    BY <1>2, <1>3, <1>5, <1>6, <1>7, <1>8, <1>11, <1>12, <1>13, <1>14, <1>15, <1>16, <1>17 DEF FillAt
<1> QED BY <1>18

-----------------------------------------------------------------------------
(* Instructions that do not report v. *)

LEMMA FillContext ==
    ASSUME NEW c, NEW E, NEW v, NEW n, Filling(c, E, v, n)
    PROVE  /\ Running(c) /\ c.S = {v} /\ c.X = {Cell(c.omit)} /\ c.h = Same(c.n)
           /\ c.K = Home(c.omit) /\ c.n \in Nat /\ n \in Nat /\ n <= c.n
           /\ IsVReg(v) /\ v \in CodeRegs(n)
BY DEF Filling

LEMMA FillUntouched ==
    ASSUME NEW c, NEW E, NEW v, NEW n, Filling(c, E, v, n), NEW b, NEW i, NEW m, NEW k,
           At2(c, b, i, m, k), i < Len(c.R[b]), NEW inst, FillAt(c, E, v, n, b, i, inst, m, k),
           ~Touches(inst, v, c.omit), ~IsTerminator(inst)
    PROVE  Goes(c, m)
<1> DEFINE W == Held(E, n, b, i)
           W2 == Held(E, n, b, i + 1)
           l == c.n
           K == Home(c.omit)
           x == Cell(c.omit)
<1>1. /\ Running(c) /\ c.S = {v} /\ c.X = {x} /\ c.h = Same(l) /\ c.K = K /\ l \in Nat
      /\ n \in Nat /\ n <= l
    BY FillContext
<1>2. /\ b \in 1 .. Blocks /\ inst = c.R[b][i + 1] /\ Len(c.C[b]) \in Nat
      /\ c.cut[b][i] \in 0 .. Len(c.C[b]) /\ c.cut[b][i + 1] \in 0 .. Len(c.C[b])
      /\ inst \in Wanted(n, c.omit) /\ inst \in Instructions(CodeRegs(l))
      /\ Uses(inst, c.omit) \subseteq W
      /\ inst.kind # "J" => W2 \subseteq W \cup Defs(inst)
      /\ (i + 1 < Len(c.R[b]) \/ b = Blocks \/ inst.kind = "J")
      /\ c.W[b][i] = W /\ c.W[b][i + 1] = W2
      /\ Related(W, Same(l), K, {v}, {x}, m, k, l)
    BY DEF FillAt
<1>3. c.cut[b][i + 1] = c.cut[b][i] + 1 /\ c.C[b][c.cut[b][i] + 1] = inst
    BY DEF FillAt, Filled
<1>4. NextCut(c, b, i)
    <2>1. c.cut[b][i] < Len(c.C[b])
        BY <1>2, <1>3, NextPlace
    <2> QED BY <1>3, <2>1 DEF NextCut
<1>5. inst.kind # "J" /\ inst.kind # "Br"
    BY DEF IsTerminator
<1>6. W \in SUBSET CodeRegs(l) /\ W2 \in SUBSET CodeRegs(l)
    BY <1>1, HeldIn
<1>7. v \notin Uses(inst, c.omit) /\ v \notin Defs(inst)
    BY DEF Touches
<1>8. /\ inst.kind = "Call" => inst.arg_regs \subseteq {a0}
      /\ Base(c.omit) \notin Defs(inst)
    BY <1>2 DEF Wanted
<1>9. inst.kind \in {"Load", "Store"} => Address(m, inst.loc, c.omit) \notin {x}
    BY <1>2, NotCell
<1>10. \A q \in W2 \ (Defs(inst) \cup {v}) : Same(l)[q] \notin Clobbers(inst)
    <2>1. \A q \in W2 : q \in CodeRegs(l) /\ Same(l)[q] = q
        BY <1>6 DEF Same
    <2> HIDE DEF W2
    <2> QED BY <1>2, <2>1, ClobbersOf
<1>11. W2 \cap Defs(inst) \cap DOMAIN K = {}
    BY <1>8 DEF Home
<1>12. Renaming(Same(l), l) /\ InstTo(inst, inst, Same(l))
    BY <1>2, SameRenaming, Zenon
<1> HIDE DEF W, W2, l, K, x
<1>13. StepFits(l, m, k, Same(l), K, {v}, {x}, W, c.omit, inst, inst, W2)
    BY <1>2, <1>5, <1>6, <1>7, <1>8, <1>9, <1>10, <1>11, <1>12 DEF StepFits
<1>14. StepDone(l, m, k, Same(l), K, {v}, {x}, W, c.omit, inst, inst, W2)
    BY <1>13, RelatedStep
<1> DEFINE e == Effect(inst, m, c.omit)
           f == Effect(inst, k, c.omit)
<1>15. Related(W2, Same(l), K, {v}, {x}, e, f, l) /\ OneOn(m, e) /\ OneOn(k, f)
    BY <1>14 DEF StepDone
<1> HIDE DEF e, f
<1>16. Related(c.W[b][i + 1], c.h, c.K, c.S, c.X, e, f, c.n)
    BY <1>1, <1>2, <1>15 DEF l
<1>17. /\ inst = c.C[b][c.cut[b][i] + 1] /\ (i + 1 < Len(c.R[b]) \/ b = Blocks)
       /\ inst \in Instructions(CodeRegs(c.n))
    BY <1>2, <1>3, <1>5 DEF l
<1>18. e = Effect(inst, m, c.omit) /\ f = Effect(inst, k, c.omit)
    BY Zenon DEF e, f
<1> QED BY <1>1, <1>2, <1>4, <1>15, <1>16, <1>17, <1>18, GoesStep, Zenon

LEMMA FillJump ==
    ASSUME NEW c, NEW E, NEW v, NEW n, Filling(c, E, v, n), NEW b, NEW i, NEW m, NEW k,
           At2(c, b, i, m, k), i < Len(c.R[b]), NEW inst, FillAt(c, E, v, n, b, i, inst, m, k),
           ~Touches(inst, v, c.omit), inst.kind = "J"
    PROVE  Goes(c, m)
<1>1. Running(c)
    BY FillContext
<1>2. c.cut[b][i + 1] = c.cut[b][i] + 1 /\ c.C[b][c.cut[b][i] + 1] = inst
    BY DEF FillAt, Filled
<1>3. /\ b \in 1 .. Blocks /\ inst = c.R[b][i + 1] /\ Len(c.C[b]) \in Nat
      /\ c.cut[b][i] \in 0 .. Len(c.C[b]) /\ c.cut[b][i + 1] \in 0 .. Len(c.C[b])
      /\ c.W[b][i] = Held(E, n, b, i)
    BY DEF FillAt
<1>4. c.cut[b][i] < Len(c.C[b])
    BY <1>2, <1>3, NextPlace
<1>5. /\ inst.block \in (b + 1) .. Blocks /\ inst.block \in 1 .. Blocks
      /\ Held(E, n, inst.block, 0) \subseteq Held(E, n, b, i)
      /\ \A d \in 1 .. Blocks : c.W[d][0] = Held(E, n, d, 0) /\ Len(c.R[d]) > 0
    BY DEF FillAt, IsTerminator
<1>6. PICK d \in (b + 1) .. Blocks : d = inst.block
    BY <1>5
<1>7. c.W[d][0] \subseteq c.W[b][i] /\ Len(c.R[d]) > 0
    BY <1>3, <1>5, <1>6
<1>8. inst = c.C[b][c.cut[b][i] + 1]
    BY <1>2
<1> QED BY <1>1, <1>3, <1>4, <1>6, <1>7, <1>8, GoesJump, Zenon

(* Both registers of a branch hold the same. *)
LEMMA FillBranch ==
    ASSUME NEW c, NEW E, NEW v, NEW n, Filling(c, E, v, n), NEW b, NEW i, NEW m, NEW k,
           At2(c, b, i, m, k), i < Len(c.R[b]), NEW inst, FillAt(c, E, v, n, b, i, inst, m, k),
           ~Touches(inst, v, c.omit), inst.kind = "Br"
    PROVE  Goes(c, m)
<1>1. Running(c) /\ c.n \in Nat /\ n \in Nat /\ n <= c.n
    BY FillContext
<1>2. c.cut[b][i + 1] = c.cut[b][i] + 1 /\ c.C[b][c.cut[b][i] + 1] = inst
    BY DEF FillAt, Filled
<1>3. /\ b \in 1 .. Blocks /\ inst = c.R[b][i + 1] /\ Len(c.C[b]) \in Nat
      /\ c.cut[b][i] \in 0 .. Len(c.C[b]) /\ c.cut[b][i + 1] \in 0 .. Len(c.C[b])
      /\ c.W[b][i] = Held(E, n, b, i) /\ c.W[b][i + 1] = Held(E, n, b, i + 1)
      /\ Uses(inst, c.omit) \subseteq Held(E, n, b, i)
      /\ Related(Held(E, n, b, i), Same(c.n), Home(c.omit), {v}, {Cell(c.omit)}, m, k, c.n)
    BY DEF FillAt
<1>4. c.cut[b][i] < Len(c.C[b])
    BY <1>2, <1>3, NextPlace
<1>5. /\ inst.block \in (b + 1) .. Blocks /\ inst.block \in 1 .. Blocks
      /\ Held(E, n, inst.block, 0) \subseteq Held(E, n, b, i)
      /\ Held(E, n, b, i + 1) \subseteq Held(E, n, b, i) \cup Defs(inst)
      /\ \A d \in 1 .. Blocks : c.W[d][0] = Held(E, n, d, 0) /\ Len(c.R[d]) > 0
      /\ (i + 1 < Len(c.R[b]) \/ b = Blocks)
    BY DEF FillAt, IsTerminator
<1>6. PICK d \in (b + 1) .. Blocks : d = inst.block
    BY <1>5
<1>7. Defs(inst) = {} /\ Uses(inst, c.omit) = {inst.rs1, inst.rs2}
    BY Zenon DEF Defs, Uses, Defining
<1>8. c.W[d][0] \subseteq c.W[b][i] /\ Len(c.R[d]) > 0 /\ c.W[b][i + 1] \subseteq c.W[b][i]
    BY <1>3, <1>5, <1>6, <1>7, Zenon
<1>9. inst.rs1 \in Held(E, n, b, i) \ {v} /\ inst.rs2 \in Held(E, n, b, i) \ {v}
    BY <1>3, <1>7 DEF Touches
<1>10. k.regs[inst.rs1] = m.regs[inst.rs1] /\ k.regs[inst.rs2] = m.regs[inst.rs2]
    <2>1. \A q \in Held(E, n, b, i) \ {v} : k.regs[Same(c.n)[q]] = m.regs[q]
        BY <1>3 DEF Related
    <2>2. \A q \in Held(E, n, b, i) : Same(c.n)[q] = q
        BY <1>1, HeldIn DEF Same
    <2> QED BY <1>9, <2>1, <2>2
<1> DEFINE w == Difference(m.regs[inst.rs1], m.regs[inst.rs2])
<1>11. /\ StepO(inst, m, c.R, c.oracle, FALSE, c.omit) = Branch(m, w, c.oracle, Start(c.R, d))
       /\ StepO(inst, k, c.C, c.oracle, FALSE, c.omit) = Branch(k, w, c.oracle, Start(c.C, d))
    BY <1>6, <1>10 DEF StepO
<1> HIDE DEF w
<1>12. PICK i2, u : i2 = inst /\ u = w
    OBVIOUS
<1>13. /\ c.cut[b][i] < Len(c.C[b]) /\ inst = c.R[b][i + 1] /\ i2 = c.C[b][c.cut[b][i] + 1]
       /\ c.cut[b][i + 1] = c.cut[b][i] + 1
    BY <1>2, <1>3, <1>4, <1>12
<1>14. Running(c) /\ (i + 1 < Len(c.R[b]) \/ b = Blocks)
    BY <1>1, <1>5
<1>15. StepO(inst, m, c.R, c.oracle, FALSE, c.omit) = Branch(m, u, c.oracle, Start(c.R, d))
    BY <1>11, <1>12
<1>16. StepO(i2, k, c.C, c.oracle, FALSE, c.omit) = Branch(k, u, c.oracle, Start(c.C, d))
    BY <1>11, <1>12
<1> QED BY <1>8, <1>13, <1>14, <1>15, <1>16, GoesBranch

-----------------------------------------------------------------------------
(* Instructions that report v. *)

LEMMA PiecePlaces ==
    ASSUME NEW inst, NEW A, NEW lo, NEW mid, NEW hi, NEW v, NEW t, NEW omit,
           TouchedPiece(inst, A, lo, mid, hi, v, t, omit), NEW z, z \in Nat, lo \in 0 .. z,
           hi \in 0 .. z, mid \in Nat
    PROVE  /\ lo \in Nat /\ lo < z /\ mid < z /\ mid + 1 \in Nat
           /\ v \in Uses(inst, omit) => mid = lo + 1
           /\ v \notin Uses(inst, omit) => mid = lo
           /\ v \in Defs(inst) => mid + 1 < z /\ A[(mid + 1) + 1] = Store(t, SpillSlot) /\ hi = (mid + 1) + 1
           /\ v \notin Defs(inst) => hi = mid + 1
           /\ A[mid + 1] = ReplaceReg(inst, v, t)
<1>1. /\ v \in Uses(inst, omit) => mid = lo + 1
      /\ v \notin Uses(inst, omit) => mid = lo
      /\ v \in Defs(inst) => hi = mid + 2 /\ A[mid + 2] = Store(t, SpillSlot)
      /\ v \notin Defs(inst) => hi = mid + 1
      /\ A[mid + 1] = ReplaceReg(inst, v, t)
    BY DEF TouchedPiece
<1>2. mid + 2 = (mid + 1) + 1
    OBVIOUS
<1>3. lo \in Nat /\ lo < z /\ mid < z /\ mid + 1 \in Nat /\ (v \in Defs(inst) => mid + 1 < z)
    BY <1>1
<1> QED BY <1>1, <1>2, <1>3

SpillAt(c, E, v, n, b, i, inst, t, mid, m, k) ==
    /\ Filling(c, E, v, n) /\ At2(c, b, i, m, k) /\ i < Len(c.R[b])
    /\ FillAt(c, E, v, n, b, i, inst, m, k) /\ Touches(inst, v, c.omit)
    /\ Fresh(t, n, c.n) /\ mid \in Nat
    /\ TouchedPiece(inst, c.C[b], c.cut[b][i], mid, c.cut[b][i + 1], v, t, c.omit)

LEMMA SpillBeside ==
    ASSUME NEW c, NEW E, NEW v, NEW n, NEW b, NEW i, NEW inst, NEW t, NEW mid, NEW m, NEW k,
           SpillAt(c, E, v, n, b, i, inst, t, mid, m, k), NEW j
    PROVE  Beside(Held(E, n, b, j), v, t, n, c.n, c.omit)
<1>1. /\ c.n \in Nat /\ n \in Nat /\ n <= c.n /\ IsVReg(v) /\ v \in CodeRegs(n)
    BY FillContext DEF SpillAt
<1>2. IsVReg(t) /\ t \in CodeRegs(c.n) /\ t \notin CodeRegs(n)
    BY DEF SpillAt, Fresh
<1>3. Held(E, n, b, j) \subseteq CodeRegs(n)
    BY <1>1, HeldIn
<1>4. Base(c.omit) \in Held(E, n, b, j)
    BY DEF Base, Held, Fixed
<1> QED BY <1>1, <1>2, <1>3, <1>4 DEF Beside

LEMMA LoadStraight ==
    ASSUME NEW t, NEW loc
    PROVE  Straight(Load(t, loc)) /\ Straight(Store(t, loc))
BY DEF Straight, Load, Store

(* The load, if there is one. *)
Refilled(c, E, v, n, b, i, inst, t, m, k, f) ==
    /\ v \in Uses(inst, c.omit) =>
          /\ Related(Held(E, n, b, i), Moved(v, t, c.n), Home(c.omit), {}, {Cell(c.omit)}, m, f, c.n)
          /\ Related(Held(E, n, b, i), Same(c.n), Home(c.omit), {v}, {Cell(c.omit)}, m, f, c.n)
    /\ v \notin Uses(inst, c.omit) => f = k

LEMMA RefillRun ==
    ASSUME NEW c, NEW E, NEW v, NEW n, NEW b, NEW i, NEW inst, NEW t, NEW mid, NEW m, NEW k,
           SpillAt(c, E, v, n, b, i, inst, t, mid, m, k)
    PROVE  \E f : AtC(c, b, mid, f) /\ Refilled(c, E, v, n, b, i, inst, t, m, k, f)
<1> DEFINE W == Held(E, n, b, i)
<1>1. PICK lo, hi, z : lo = c.cut[b][i] /\ hi = c.cut[b][i + 1] /\ z = Len(c.C[b])
    OBVIOUS
<1>2. /\ b \in 1 .. Blocks /\ z \in Nat /\ lo \in 0 .. z /\ hi \in 0 .. z
      /\ Uses(inst, c.omit) \subseteq W
      /\ Related(W, Same(c.n), Home(c.omit), {v}, {Cell(c.omit)}, m, k, c.n)
    BY <1>1 DEF SpillAt, FillAt
<1>3. TouchedPiece(inst, c.C[b], lo, mid, hi, v, t, c.omit) /\ mid \in Nat
    BY <1>1 DEF SpillAt
<1>4. /\ lo \in Nat /\ lo < z
      /\ v \in Uses(inst, c.omit) => mid = lo + 1
      /\ v \notin Uses(inst, c.omit) => mid = lo
    BY <1>2, <1>3, PiecePlaces
<1>5. AtC(c, b, lo, k) /\ Running(c)
    BY <1>1, FillContext DEF SpillAt, At2, AtC
<1>6. CASE v \notin Uses(inst, c.omit)
    <2>1. AtC(c, b, mid, k)
        BY <1>4, <1>5, <1>6
    <2> QED BY <1>6, <2>1 DEF Refilled
<1>7. CASE v \in Uses(inst, c.omit)
    <2>1. PICK i1 : i1 = Load(t, SpillSlot)
        OBVIOUS
    <2>2. PICK f : f = Effect(i1, k, c.omit)
        OBVIOUS
    <2>3. Beside(W, v, t, n, c.n, c.omit) /\ v \in W
        BY <1>2, <1>7, SpillBeside
    <2>4. f = Effect(Load(t, SpillSlot), k, c.omit)
        BY <2>1, <2>2
    <2> HIDE DEF W
    <2>5. /\ Related(W, Moved(v, t, c.n), Home(c.omit), {}, {Cell(c.omit)}, m, f, c.n)
          /\ Related(W, Same(c.n), Home(c.omit), {v}, {Cell(c.omit)}, m, f, c.n)
          /\ OneOn(k, f)
        BY <1>2, <2>3, <2>4, RefillDone
    <2>6. i1 = c.C[b][lo + 1] /\ Straight(i1)
        BY <1>3, <1>7, <2>1, LoadStraight DEF TouchedPiece
    <2>7. lo < Len(c.C[b])
        BY <1>1, <1>4
    <2>8. AtC(c, b, lo + 1, f)
        BY <1>2, <1>4, <1>5, <2>2, <2>5, <2>6, <2>7, StepIn
    <2>9. AtC(c, b, mid, f)
        BY <1>4, <1>7, <2>8
    <2> QED BY <1>7, <2>5, <2>9 DEF Refilled, W
<1> QED BY <1>6, <1>7

(* What is needed before and after the instruction with v in t. *)
Before1(c, E, v, n, b, i, inst) ==
    IF v \in Uses(inst, c.omit) THEN Held(E, n, b, i) ELSE Held(E, n, b, i) \ {v}
After1(c, E, v, n, b, i, inst) ==
    IF v \in Defs(inst) THEN Held(E, n, b, i + 1) ELSE Held(E, n, b, i + 1) \ {v}

LEMMA BeforeIs ==
    ASSUME NEW c, NEW E, NEW v, NEW n, NEW b, NEW i, NEW inst, NEW t, NEW mid, NEW m, NEW k,
           SpillAt(c, E, v, n, b, i, inst, t, mid, m, k), NEW f,
           Refilled(c, E, v, n, b, i, inst, t, m, k, f)
    PROVE  Related(Before1(c, E, v, n, b, i, inst), Moved(v, t, c.n), Home(c.omit), {},
                   {Cell(c.omit)}, m, f, c.n)
<1>1. CASE v \in Uses(inst, c.omit)
    BY <1>1 DEF Refilled, Before1
<1>2. CASE v \notin Uses(inst, c.omit)
    <2>1. f = k /\ Before1(c, E, v, n, b, i, inst) = Held(E, n, b, i) \ {v}
        BY <1>2 DEF Refilled, Before1
    <2>2. Related(Held(E, n, b, i), Same(c.n), Home(c.omit), {v}, {Cell(c.omit)}, m, k, c.n)
        BY DEF SpillAt, FillAt
    <2>3. Beside(Held(E, n, b, i), v, t, n, c.n, c.omit)
        BY SpillBeside
    <2> QED BY <2>1, <2>2, <2>3, NoRefill
<1> QED BY <1>1, <1>2

SpillFits(c, E, v, n, b, i, inst, t, m, f) ==
    StepFits(c.n, m, f, Moved(v, t, c.n), Home(c.omit), {}, {Cell(c.omit)},
             Before1(c, E, v, n, b, i, inst), c.omit, inst, ReplaceReg(inst, v, t),
             After1(c, E, v, n, b, i, inst))

LEMMA ReplacedFits ==
    ASSUME NEW c, NEW E, NEW v, NEW n, NEW b, NEW i, NEW inst, NEW t, NEW mid, NEW m, NEW k,
           SpillAt(c, E, v, n, b, i, inst, t, mid, m, k), NEW f,
           Refilled(c, E, v, n, b, i, inst, t, m, k, f), ~IsTerminator(inst)
    PROVE  SpillFits(c, E, v, n, b, i, inst, t, m, f)
<1> DEFINE W == Held(E, n, b, i)
           W2 == Held(E, n, b, i + 1)
           U == Before1(c, E, v, n, b, i, inst)
           U2 == After1(c, E, v, n, b, i, inst)
           l == c.n
           i2 == ReplaceReg(inst, v, t)
           h == Moved(v, t, l)
<1>1. /\ l \in Nat /\ n \in Nat /\ n <= l /\ IsVReg(v)
    BY FillContext DEF SpillAt
<1>2. /\ inst \in Wanted(n, c.omit) /\ inst \in Instructions(CodeRegs(n))
      /\ inst \in Instructions(CodeRegs(l))
      /\ Uses(inst, c.omit) \subseteq W
      /\ inst.kind # "J" => W2 \subseteq W \cup Defs(inst)
    BY DEF SpillAt, FillAt
<1>3. inst.kind # "J" /\ inst.kind # "Br"
    BY DEF IsTerminator
<1>4. inst.kind # "Call"
    BY <1>1, <1>2, TouchedKind DEF SpillAt
<1>5. W \subseteq CodeRegs(n) /\ W2 \subseteq CodeRegs(n) /\ W \subseteq CodeRegs(l) /\ W2 \subseteq CodeRegs(l)
    BY <1>1, HeldIn
<1>6. Related(U, h, Home(c.omit), {}, {Cell(c.omit)}, m, f, l)
    BY BeforeIs
<1>7. Beside(W, v, t, n, l, c.omit) /\ t \in CodeRegs(l) \ CodeRegs(n)
    BY SpillBeside DEF SpillAt, Fresh
<1>8. /\ Renaming(h, l) /\ h[v] = t /\ \A r \in CodeRegs(l) : r # v => h[r] = r
      /\ Base(c.omit) # v
    BY <1>7, BesideIs
<1>9. InstTo(inst, i2, h)
    BY <1>1, <1>2, ReplacedTo
<1>10. Replaced(inst, i2, v, t, c.omit, l)
    BY <1>1, <1>2, <1>4, <1>7, <1>8, ReplacedIs
<1>11. Clobbers(i2) = Defs(i2)
    BY <1>4, <1>10 DEF Clobbers, Defs, Replaced
<1> HIDE DEF W, W2, i2, h
<1>12. U \in SUBSET CodeRegs(l) /\ U2 \in SUBSET CodeRegs(l) /\ Uses(inst, c.omit) \subseteq U \ {}
    BY <1>2, <1>5 DEF Before1, After1, W, W2
<1>13. U2 \ Defs(inst) \subseteq U
    <2>1. W2 \subseteq W \cup Defs(inst)
        BY <1>2, <1>3
    <2>2. U2 \ Defs(inst) \subseteq W \ {v}
        BY <2>1 DEF After1, W2
    <2>3. W \ {v} \subseteq U
        BY DEF Before1, W
    <2> QED BY <2>2, <2>3
<1>14. \A q \in U2 \ (Defs(inst) \cup {}) : h[q] \notin Clobbers(i2)
    <2>1. ASSUME NEW q \in U2 \ Defs(inst) PROVE h[q] \notin Clobbers(i2)
        <3>1. q # v /\ q \in W2
            BY <2>1 DEF After1, W2
        <3>2. h[q] = q /\ q # t
            BY <1>5, <1>7, <1>8, <3>1
        <3>3. q \notin Defs(i2)
            BY <1>10, <2>1, <3>2 DEF Replaced
        <3> QED BY <1>11, <3>2, <3>3
    <2> QED BY <2>1
<1>15. U2 \cap Defs(inst) \cap DOMAIN Home(c.omit) = {}
    BY <1>2 DEF Wanted, Home
<1>16. inst.kind \in {"Load", "Store"} => Address(m, inst.loc, c.omit) \notin {Cell(c.omit)}
    BY <1>2, NotCell
<1> HIDE DEF U, U2, l
<1>17. StepFits(l, m, f, h, Home(c.omit), {}, {Cell(c.omit)}, U, c.omit, inst, i2, U2)
    BY <1>2, <1>4, <1>6, <1>8, <1>9, <1>12, <1>13, <1>14, <1>15, <1>16 DEF StepFits
<1> QED BY <1>17 DEF SpillFits, l, h, i2, U, U2

(* The instruction itself. *)
Stepped(c, E, v, n, b, i, inst, t, e, g) ==
    /\ Related(After1(c, E, v, n, b, i, inst), Moved(v, t, c.n), Home(c.omit), {},
               {Cell(c.omit)}, e, g, c.n)
    /\ v \notin Defs(inst) /\ v \in Held(E, n, b, i + 1) => Contents(g, Cell(c.omit)) = e.regs[v]

LEMMA ReplacedRun ==
    ASSUME NEW c, NEW E, NEW v, NEW n, NEW b, NEW i, NEW inst, NEW t, NEW mid, NEW m, NEW k,
           SpillAt(c, E, v, n, b, i, inst, t, mid, m, k), ~IsTerminator(inst),
           NEW e, e = Effect(inst, m, c.omit)
    PROVE  OneOn(m, e) /\ \E g : AtC(c, b, mid + 1, g) /\ Stepped(c, E, v, n, b, i, inst, t, e, g)
<1>1. PICK f : AtC(c, b, mid, f) /\ Refilled(c, E, v, n, b, i, inst, t, m, k, f)
    BY RefillRun
<1>2. SpillFits(c, E, v, n, b, i, inst, t, m, f)
    BY <1>1, ReplacedFits
<1>3. PICK i2, g, h, U, U2 : /\ i2 = ReplaceReg(inst, v, t) /\ g = Effect(i2, f, c.omit)
                             /\ h = Moved(v, t, c.n)
                             /\ U = Before1(c, E, v, n, b, i, inst)
                             /\ U2 = After1(c, E, v, n, b, i, inst)
    OBVIOUS
<1>4. StepFits(c.n, m, f, h, Home(c.omit), {}, {Cell(c.omit)}, U, c.omit, inst, i2, U2)
    BY <1>2, <1>3 DEF SpillFits
<1>5. StepDone(c.n, m, f, h, Home(c.omit), {}, {Cell(c.omit)}, U, c.omit, inst, i2, U2)
    BY <1>4, RelatedStep
<1>6. /\ Related(U2, h, Home(c.omit), {}, {Cell(c.omit)}, e, g, c.n)
      /\ OneOn(m, e) /\ OneOn(f, g)
      /\ Contents(g, Cell(c.omit)) = Contents(f, Cell(c.omit))
      /\ \A q \in CodeRegs(c.n) \ Defs(inst) : e.regs[q] = m.regs[q]
    BY <1>3, <1>5 DEF StepDone
<1>7. PICK lo, hi, z : lo = c.cut[b][i] /\ hi = c.cut[b][i + 1] /\ z = Len(c.C[b])
    OBVIOUS
<1>8. /\ b \in 1 .. Blocks /\ z \in Nat /\ lo \in 0 .. z /\ hi \in 0 .. z
      /\ inst \in Instructions(CodeRegs(c.n)) /\ inst \in Instructions(CodeRegs(n))
      /\ inst \in Wanted(n, c.omit)
      /\ inst.kind # "J" => Held(E, n, b, i + 1) \subseteq Held(E, n, b, i) \cup Defs(inst)
    BY <1>7 DEF SpillAt, FillAt
<1>9. TouchedPiece(inst, c.C[b], lo, mid, hi, v, t, c.omit) /\ mid \in Nat
    BY <1>7 DEF SpillAt
<1>10. mid < z /\ c.C[b][mid + 1] = i2
    BY <1>3, <1>8, <1>9, PiecePlaces
<1>11. Running(c) /\ c.n \in Nat /\ n \in Nat /\ n <= c.n /\ IsVReg(v) /\ v \in CodeRegs(n)
    BY FillContext DEF SpillAt
<1>12. Straight(i2)
    <2>1. inst.kind # "Call"
        BY <1>8, <1>11, TouchedKind DEF SpillAt
    <2>2. t \in CodeRegs(c.n) /\ Base(c.omit) # v
        <3>1. Beside(Held(E, n, b, i), v, t, n, c.n, c.omit)
            BY SpillBeside
        <3> QED BY <3>1, BesideIs
    <2>3. Replaced(inst, i2, v, t, c.omit, c.n)
        BY <1>3, <1>8, <1>11, <2>1, <2>2, ReplacedIs
    <2>4. i2.kind = inst.kind /\ inst.kind # "J" /\ inst.kind # "Br"
        BY <2>3 DEF Replaced, IsTerminator
    <2>5. inst.kind # "CondBr" /\ inst.kind # "SpAdjust"
        BY <1>8 DEF Instructions
    <2> QED BY <2>4, <2>5 DEF Straight
<1>13. AtC(c, b, mid + 1, g)
    <2>1. mid < Len(c.C[b]) /\ i2 = c.C[b][mid + 1]
        BY <1>7, <1>10
    <2> QED BY <1>1, <1>3, <1>6, <1>8, <1>9, <1>11, <1>12, <2>1, StepIn
<1>14. ASSUME v \notin Defs(inst), v \in Held(E, n, b, i + 1)
       PROVE  Contents(g, Cell(c.omit)) = e.regs[v]
    <2>1. v \in Uses(inst, c.omit)
        BY <1>14 DEF SpillAt, Touches
    <2>2. v \in Held(E, n, b, i)
        BY <1>8, <1>14 DEF IsTerminator
    <2>3. Related(Held(E, n, b, i), Same(c.n), Home(c.omit), {v}, {Cell(c.omit)}, m, f, c.n)
        BY <1>1, <2>1 DEF Refilled
    <2>4. Contents(f, Cell(c.omit)) = m.regs[v]
        BY <2>2, <2>3 DEF Related
    <2>5. v \in CodeRegs(c.n)
        BY <1>11, MoreCodeRegs
    <2> QED BY <1>6, <1>14, <2>4, <2>5
<1>15. Stepped(c, E, v, n, b, i, inst, t, e, g)
    BY <1>3, <1>6, <1>14 DEF Stepped
<1> QED BY <1>6, <1>13, <1>15

(* The store, if there is one. *)
LEMMA StowRun ==
    ASSUME NEW c, NEW E, NEW v, NEW n, NEW b, NEW i, NEW inst, NEW t, NEW mid, NEW m, NEW k,
           SpillAt(c, E, v, n, b, i, inst, t, mid, m, k),
           NEW e, NEW g, AtC(c, b, mid + 1, g), Stepped(c, E, v, n, b, i, inst, t, e, g)
    PROVE  \E f : /\ AtC(c, b, c.cut[b][i + 1], f)
                  /\ Related(Held(E, n, b, i + 1), Same(c.n), Home(c.omit), {v}, {Cell(c.omit)}, e, f, c.n)
<1>1. PICK lo, hi, z, W2 : /\ lo = c.cut[b][i] /\ hi = c.cut[b][i + 1] /\ z = Len(c.C[b])
                           /\ W2 = Held(E, n, b, i + 1)
    OBVIOUS
<1>2. b \in 1 .. Blocks /\ z \in Nat /\ lo \in 0 .. z /\ hi \in 0 .. z
    BY <1>1 DEF SpillAt, FillAt
<1>3. TouchedPiece(inst, c.C[b], lo, mid, hi, v, t, c.omit) /\ mid \in Nat
    BY <1>1 DEF SpillAt
<1>4. /\ mid + 1 \in Nat
      /\ v \in Defs(inst) => /\ mid + 1 < z /\ c.C[b][(mid + 1) + 1] = Store(t, SpillSlot)
                             /\ hi = (mid + 1) + 1
      /\ v \notin Defs(inst) => hi = mid + 1
    BY <1>2, <1>3, PiecePlaces
<1>5. Running(c)
    BY FillContext DEF SpillAt
<1>6. Beside(W2, v, t, n, c.n, c.omit)
    BY <1>1, SpillBeside
<1>7. CASE v \in Defs(inst)
    <2>1. Related(W2, Moved(v, t, c.n), Home(c.omit), {}, {Cell(c.omit)}, e, g, c.n)
        BY <1>1, <1>7 DEF Stepped, After1
    <2>2. PICK i1, q : i1 = Store(t, SpillSlot) /\ q = mid + 1
        OBVIOUS
    <2>3. PICK f : f = Effect(i1, g, c.omit)
        OBVIOUS
    <2>4. f = Effect(Store(t, SpillSlot), g, c.omit)
        BY <2>2, <2>3
    <2>5. Related(W2, Same(c.n), Home(c.omit), {v}, {Cell(c.omit)}, e, f, c.n) /\ OneOn(g, f)
        BY <1>6, <2>1, <2>4, StowDone
    <2>6. /\ i1 = c.C[b][q + 1] /\ Straight(i1) /\ q \in Nat /\ q < Len(c.C[b]) /\ AtC(c, b, q, g)
        BY <1>1, <1>4, <1>7, <2>2, LoadStraight
    <2>7. AtC(c, b, q + 1, f)
        BY <1>2, <1>5, <2>3, <2>5, <2>6, StepIn
    <2>8. AtC(c, b, hi, f)
        BY <1>4, <1>7, <2>2, <2>7
    <2> QED BY <1>1, <2>5, <2>8
<1>8. CASE v \notin Defs(inst)
    <2>1. Related(W2 \ {v}, Moved(v, t, c.n), Home(c.omit), {}, {Cell(c.omit)}, e, g, c.n)
        BY <1>1, <1>8 DEF Stepped, After1
    <2>2. v \in W2 => Contents(g, Cell(c.omit)) = e.regs[v]
        BY <1>1, <1>8 DEF Stepped
    <2>3. Related(W2, Same(c.n), Home(c.omit), {v}, {Cell(c.omit)}, e, g, c.n)
        BY <1>6, <2>1, <2>2, NoStow
    <2>4. AtC(c, b, hi, g)
        BY <1>4, <1>8
    <2> QED BY <1>1, <2>3, <2>4
<1> QED BY <1>7, <1>8

LEMMA FillTouched ==
    ASSUME NEW c, NEW E, NEW v, NEW n, NEW b, NEW i, NEW inst, NEW t, NEW mid, NEW m, NEW k,
           SpillAt(c, E, v, n, b, i, inst, t, mid, m, k), ~IsTerminator(inst)
    PROVE  Goes(c, m)
<1>1. PICK e : e = Effect(inst, m, c.omit)
    OBVIOUS
<1>2. OneOn(m, e)
    BY <1>1, ReplacedRun
<1>3. PICK g : AtC(c, b, mid + 1, g) /\ Stepped(c, E, v, n, b, i, inst, t, e, g)
    BY <1>1, ReplacedRun
<1>4. PICK f : /\ AtC(c, b, c.cut[b][i + 1], f)
               /\ Related(Held(E, n, b, i + 1), Same(c.n), Home(c.omit), {v}, {Cell(c.omit)}, e, f, c.n)
    BY <1>3, StowRun
<1>5. /\ Running(c) /\ c.S = {v} /\ c.X = {Cell(c.omit)} /\ c.h = Same(c.n) /\ c.K = Home(c.omit)
      /\ c.n \in Nat /\ n \in Nat /\ n <= c.n /\ IsVReg(v)
    BY FillContext DEF SpillAt
<1>6. At2(c, b, i, m, k) /\ i < Len(c.R[b]) /\ FillAt(c, E, v, n, b, i, inst, m, k)
      /\ Touches(inst, v, c.omit)
    BY DEF SpillAt
<1>7. /\ b \in 1 .. Blocks /\ inst = c.R[b][i + 1] /\ c.W[b][i + 1] = Held(E, n, b, i + 1)
      /\ (i + 1 < Len(c.R[b]) \/ b = Blocks \/ inst.kind = "J")
      /\ inst \in Instructions(CodeRegs(c.n))
    BY <1>6 DEF FillAt
<1>8. i + 1 < Len(c.R[b]) \/ b = Blocks
    BY <1>7 DEF IsTerminator
<1>9. Related(c.W[b][i + 1], c.h, c.K, c.S, c.X, e, f, c.n)
    BY <1>4, <1>5, <1>7
<1>10. OnR(c, e)
    <2>1. AheadR(c, b, i, m)
        BY <1>5, <1>6, Ahead
    <2>2. OnR(c, m)
        BY <1>6 DEF At2
    <2>3. PICK j \in 1 .. Len(c.R[b]) : j = i + 1
        BY <2>1 DEF AheadR
    <2>4. m.pc = c.stR[b] + j - 1 /\ e.pc \in Nat /\ m.pc < e.pc
        BY <1>2, <2>1, <2>3 DEF AheadR, OneOn
    <2>5. e = StepO(c.R[b][j], m, c.R, c.oracle, FALSE, c.omit)
        <3>1. inst.kind \notin {"J", "Br", "CondBr", "SpAdjust"}
            BY <1>7 DEF IsTerminator, Instructions
        <3>2. e = StepO(inst, m, c.R, c.oracle, FALSE, c.omit)
            BY <1>1, <3>1 DEF StepO
        <3> QED BY <1>7, <2>3, <3>2
    <2> QED BY <1>5, <1>7, <2>2, <2>4, <2>5, StepR
<1>11. OnC(c, f) /\ f.pc = c.stC[b] + c.cut[b][i + 1]
    BY <1>4 DEF AtC
<1> QED BY <1>2, <1>5, <1>6, <1>8, <1>9, <1>10, <1>11, GoesWith

LEMMA FillBranchTouched ==
    ASSUME NEW c, NEW E, NEW v, NEW n, NEW b, NEW i, NEW inst, NEW t, NEW mid, NEW m, NEW k,
           SpillAt(c, E, v, n, b, i, inst, t, mid, m, k), inst.kind = "Br"
    PROVE  Goes(c, m)
<1>1. /\ Running(c) /\ c.S = {v} /\ c.X = {Cell(c.omit)} /\ c.h = Same(c.n) /\ c.K = Home(c.omit)
      /\ c.n \in Nat /\ n \in Nat /\ n <= c.n /\ IsVReg(v)
    BY FillContext DEF SpillAt
<1>2. At2(c, b, i, m, k) /\ i < Len(c.R[b]) /\ FillAt(c, E, v, n, b, i, inst, m, k)
      /\ Touches(inst, v, c.omit)
    BY DEF SpillAt
<1>3. PICK lo, hi, z, W : /\ lo = c.cut[b][i] /\ hi = c.cut[b][i + 1] /\ z = Len(c.C[b])
                          /\ W = Held(E, n, b, i)
    OBVIOUS
<1>4. /\ b \in 1 .. Blocks /\ inst = c.R[b][i + 1] /\ z \in Nat /\ lo \in 0 .. z /\ hi \in 0 .. z
      /\ c.W[b][i] = W /\ c.W[b][i + 1] = Held(E, n, b, i + 1)
      /\ Uses(inst, c.omit) \subseteq W
      /\ inst \in Instructions(CodeRegs(n)) /\ inst \in Instructions(CodeRegs(c.n))
    BY <1>2, <1>3 DEF FillAt
<1>5. /\ inst.block \in (b + 1) .. Blocks /\ inst.block \in 1 .. Blocks
      /\ Held(E, n, inst.block, 0) \subseteq W
      /\ Held(E, n, b, i + 1) \subseteq W \cup Defs(inst)
      /\ \A d \in 1 .. Blocks : c.W[d][0] = Held(E, n, d, 0) /\ Len(c.R[d]) > 0
      /\ (i + 1 < Len(c.R[b]) \/ b = Blocks)
    BY <1>2, <1>3 DEF FillAt, IsTerminator
<1>6. PICK d \in (b + 1) .. Blocks : d = inst.block
    BY <1>5
<1>7. Defs(inst) = {} /\ Uses(inst, c.omit) = {inst.rs1, inst.rs2}
    BY DEF Defs, Uses, Defining
<1>8. c.W[d][0] \subseteq W /\ Len(c.R[d]) > 0 /\ c.W[b][i + 1] \subseteq W
    BY <1>4, <1>5, <1>6, <1>7
<1>9. v \in Uses(inst, c.omit)
    BY <1>2, <1>7 DEF Touches
<1>10. TouchedPiece(inst, c.C[b], lo, mid, hi, v, t, c.omit) /\ mid \in Nat
    BY <1>3 DEF SpillAt
<1>11. PICK i2 : i2 = ReplaceReg(inst, v, t)
    OBVIOUS
<1>12. mid < z /\ hi = mid + 1 /\ c.C[b][mid + 1] = i2 /\ mid + 1 \in 1 .. z
    <2>1. PICK A : A = c.C[b]
        OBVIOUS
    <2>2. TouchedPiece(inst, A, lo, mid, hi, v, t, c.omit)
        BY <1>10, <2>1
    <2>3. /\ mid < z /\ A[mid + 1] = ReplaceReg(inst, v, t)
          /\ v \notin Defs(inst) => hi = mid + 1
        BY <1>4, <1>10, <2>2, PiecePlaces
    <2>4. mid < z /\ hi = mid + 1 /\ c.C[b][mid + 1] = i2
        BY <1>7, <1>11, <2>1, <2>3
    <2> QED BY <1>4, <1>10, <2>4
<1>13. PICK f : AtC(c, b, mid, f) /\ Refilled(c, E, v, n, b, i, inst, t, m, k, f)
    BY RefillRun
<1>14. /\ Related(W, Moved(v, t, c.n), Home(c.omit), {}, {Cell(c.omit)}, m, f, c.n)
       /\ Related(W, Same(c.n), Home(c.omit), {v}, {Cell(c.omit)}, m, f, c.n)
    BY <1>3, <1>9, <1>13 DEF Refilled
<1>15. InstTo(inst, i2, Moved(v, t, c.n))
    BY <1>1, <1>4, <1>11, ReplacedTo, Zenon
<1>16. /\ i2.kind = "Br" /\ i2.block = d
       /\ f.regs[i2.rs1] = m.regs[inst.rs1] /\ f.regs[i2.rs2] = m.regs[inst.rs2]
    <2>1. i2.kind = "Br" /\ i2.block = d /\ i2.rs1 = Moved(v, t, c.n)[inst.rs1]
          /\ i2.rs2 = Moved(v, t, c.n)[inst.rs2]
        BY <1>6, <1>15 DEF InstTo
    <2>2. \A q \in W \ {} : f.regs[Moved(v, t, c.n)[q]] = m.regs[q]
        BY <1>14 DEF Related
    <2> QED BY <1>4, <1>7, <2>1, <2>2
<1>17. PICK u : u = Difference(m.regs[inst.rs1], m.regs[inst.rs2])
    OBVIOUS
<1>18. /\ StepO(inst, m, c.R, c.oracle, FALSE, c.omit) = Branch(m, u, c.oracle, Start(c.R, d))
       /\ StepO(i2, f, c.C, c.oracle, FALSE, c.omit) = Branch(f, u, c.oracle, Start(c.C, d))
    BY <1>6, <1>16, <1>17 DEF StepO
<1>19. AheadR(c, b, i, m)
    BY <1>1, <1>2, Ahead
<1>20. /\ i + 1 \in 1 .. Len(c.R[b]) /\ m.pc = c.stR[b] + (i + 1) - 1
       /\ m.pc \in Nat /\ m.pc + 1 \in Nat /\ m.pc < m.pc + 1
       /\ m.pc < c.stR[d] /\ c.stR[d] \in Nat /\ Start(c.R, d) = c.stR[d]
    BY <1>19 DEF AheadR
<1>21. PICK y, p, q : y = c.stC[b] /\ p = c.stC[d] /\ q = f.pc
    OBVIOUS
<1>22. /\ y \in Nat /\ p \in Nat /\ y + z <= p /\ Start(c.C, d) = p
    <2>1. d \in 1 .. Blocks
        BY <1>5, <1>6
    <2>2. /\ c.stC[b] \in Nat /\ c.stC[d] \in Nat /\ Start(c.C, d) = c.stC[d]
        <3>1. b \in 1 .. (Blocks + 1) /\ d \in 1 .. (Blocks + 1)
            BY <1>4, <2>1, RegAllocAssumption
        <3>2. \A a \in 1 .. (Blocks + 1) : c.stC[a] \in Nat \ {0}
            BY <1>1, RunningIs
        <3>3. \A a \in 1 .. Blocks : Start(c.C, a) = c.stC[a]
            BY <1>1, RunningIs
        <3> QED BY <2>1, <3>1, <3>2, <3>3
    <2>3. c.stC[b] + Len(c.C[b]) <= c.stC[d]
        BY <1>1, <1>4, LaterPlace
    <2> QED BY <1>3, <1>21, <2>2, <2>3
<1>23. /\ q = y + mid /\ q = y + (mid + 1) - 1 /\ q + 1 = y + hi /\ q \in Nat /\ q + 1 \in Nat
       /\ q < q + 1 /\ q < p
    <2>1. q = y + mid
        BY <1>13, <1>21 DEF AtC
    <2> QED BY <1>4, <1>10, <1>12, <1>22, <2>1
<1>24. PICK e, g : e = Branch(m, u, c.oracle, c.stR[d]) /\ g = Branch(f, u, c.oracle, p)
    OBVIOUS
<1>25. PICK taken \in BOOLEAN :
          /\ Related(W, Same(c.n), Home(c.omit), {v}, {Cell(c.omit)}, e, g, c.n)
          /\ e.pc = (IF taken THEN c.stR[d] ELSE m.pc + 1)
          /\ g.pc = (IF taken THEN p ELSE q + 1)
    <2>1. PICK p1 \in Nat, p2 \in Nat : p1 = c.stR[d] /\ p2 = p
        BY <1>20, <1>22
    <2>2. \E taken \in BOOLEAN :
             /\ Related(W, Same(c.n), Home(c.omit), {v}, {Cell(c.omit)},
                        Branch(m, u, c.oracle, p1), Branch(f, u, c.oracle, p2), c.n)
             /\ Branch(m, u, c.oracle, p1).pc = (IF taken THEN p1 ELSE m.pc + 1)
             /\ Branch(f, u, c.oracle, p2).pc = (IF taken THEN p2 ELSE f.pc + 1)
        BY <1>14, BranchTogether
    <2> QED BY <1>21, <1>24, <2>1, <2>2
<1>26. e.pc \in Nat /\ m.pc < e.pc
    BY <1>20, <1>25
<1>27. g.pc \in Nat /\ q < g.pc
    BY <1>22, <1>23, <1>25
<1>28. OnR(c, e)
    <2>1. OnR(c, m)
        BY <1>2 DEF At2
    <2>2. PICK j \in 1 .. Len(c.R[b]) : j = i + 1
        BY <1>20
    <2>3. m.pc = c.stR[b] + j - 1 /\ e = StepO(c.R[b][j], m, c.R, c.oracle, FALSE, c.omit)
        BY <1>4, <1>18, <1>20, <1>24, <2>2
    <2> QED BY <1>1, <1>4, <1>26, <2>1, <2>2, <2>3, StepR
<1>29. OnC(c, g)
    <2>1. OnC(c, f)
        BY <1>13 DEF AtC
    <2>2. PICK j \in 1 .. Len(c.C[b]) : j = mid + 1
        BY <1>3, <1>12
    <2>3. f.pc = c.stC[b] + j - 1 /\ g = StepO(c.C[b][j], f, c.C, c.oracle, FALSE, c.omit)
        BY <1>12, <1>18, <1>21, <1>22, <1>23, <1>24, <2>2
    <2>4. g.pc \in Nat /\ f.pc < g.pc
        BY <1>21, <1>27
    <2> QED BY <1>1, <1>4, <2>1, <2>2, <2>3, <2>4, StepC
<1>30. g.pc = (IF taken THEN c.stC[d] ELSE c.stC[b] + c.cut[b][i + 1])
    BY <1>3, <1>21, <1>23, <1>25
<1>31. Related(W, c.h, c.K, c.S, c.X, e, g, c.n)
    BY <1>1, <1>25
<1>32. e.pc = (IF taken THEN c.stR[d] ELSE m.pc + 1)
    BY <1>25
<1> QED BY <1>1, <1>2, <1>5, <1>8, <1>28, <1>29, <1>30, <1>31, <1>32, GoesEither, Zenon

LEMMA FillGoes ==
    ASSUME NEW c, NEW E, NEW v, NEW n, Filling(c, E, v, n), NEW b, NEW i, NEW m, NEW k,
           At2(c, b, i, m, k), i < Len(c.R[b])
    PROVE  Goes(c, m)
<1>1. PICK inst : FillAt(c, E, v, n, b, i, inst, m, k)
    BY FillPlace
<1>2. Filled(inst, c.C[b], c.cut[b][i], c.cut[b][i + 1], v, n, c.n, c.omit)
      /\ inst \in Wanted(n, c.omit)
    BY <1>1 DEF FillAt
<1>3. CASE ~Touches(inst, v, c.omit)
    <2>1. IsTerminator(inst) => inst.kind = "J" \/ inst.kind = "Br"
        BY DEF IsTerminator
    <2> QED BY <1>1, <1>3, <2>1, FillUntouched, FillJump, FillBranch
<1>4. CASE Touches(inst, v, c.omit)
    <2>1. PICK t, mid : Fresh(t, n, c.n) /\ mid \in Nat
                        /\ TouchedPiece(inst, c.C[b], c.cut[b][i], mid, c.cut[b][i + 1], v, t, c.omit)
        BY <1>2, <1>4 DEF Filled
    <2>2. SpillAt(c, E, v, n, b, i, inst, t, mid, m, k)
        BY <1>1, <1>4, <2>1 DEF SpillAt
    <2>3. IsVReg(v)
        BY FillContext
    <2>4. inst.kind # "J"
        BY <1>2, <1>4, <2>3, TouchedKind
    <2>5. IsTerminator(inst) => inst.kind = "Br"
        BY <2>4 DEF IsTerminator
    <2> QED BY <2>2, <2>5, FillTouched, FillBranchTouched
<1> QED BY <1>3, <1>4

LEMMA EntryBase ==
    ASSUME NEW n, NEW omit
    PROVE  Entry(PRegs, n).regs[Base(omit)] = <<"entry", Base(omit)>>
<1>1. Base(omit) \in PRegs /\ ~IsVReg(Base(omit)) /\ Base(omit) # zero
    BY RegAllocAssumption, RegsDiffer DEF Base
<1> QED BY <1>1 DEF Entry

SpillPair(R, C, E, cut, v, n, l, omit) ==
    /\ n \in Nat /\ l \in Nat /\ n <= l /\ IsVReg(v) /\ v \in CodeRegs(n)
    /\ Code(R, Wanted(n, omit)) /\ Flow(R, E, omit) /\ Shaped(R) /\ (\E S : Code(C, S))
    /\ CutOk(R, C, cut) /\ Fills(R, C, cut, v, n, l, omit)

LEMMA SpillEqual ==
    ASSUME NEW R, NEW C, NEW E, NEW cut, NEW v, NEW n, NEW l, NEW omit,
           SpillPair(R, C, E, cut, v, n, l, omit)
    PROVE  /\ Equal(R, C, omit, l)
           /\ Len(FlattenSeq(R)) \in Nat /\ Len(FlattenSeq(C)) \in Nat
<1>0. Blocks \in Nat \ {0} /\ 1 \in 1 .. Blocks /\ Blocks \in 1 .. Blocks
    BY RegAllocAssumption
<1>1. PICK S : Code(C, S)
    BY DEF SpillPair
<1>2. /\ n \in Nat /\ l \in Nat /\ n <= l /\ IsVReg(v) /\ v \in CodeRegs(n)
      /\ Code(R, Wanted(n, omit)) /\ Flow(R, E, omit) /\ Shaped(R)
      /\ CutOk(R, C, cut) /\ Fills(R, C, cut, v, n, l, omit)
    BY DEF SpillPair
<1>3. PICK stR : Layout(R, Blocks, stR)
    BY <1>0, <1>2, FlattenLayout DEF Code
<1>4. PICK stC : Layout(C, Blocks, stC)
    BY <1>0, <1>1, FlattenLayout DEF Code
<1>5. Len(FlattenSeq(R)) \in Nat /\ Len(FlattenSeq(C)) \in Nat
    <2>1. FlattenSeq(C) \in Seq(S) /\ FlattenSeq(R) \in Seq(Wanted(n, omit))
        BY <1>0, <1>1, <1>2, FlattenLayout DEF Code
    <2> QED BY <2>1
<1> SUFFICES ASSUME NEW oracle, NEW f0, NEW g0,
                    IsRun(f0, R, oracle, FALSE, omit, l), IsRun(g0, C, oracle, FALSE, omit, l)
             PROVE  Sees(f0, R) = Sees(g0, C)
    BY <1>5 DEF Equal
<1> DEFINE needs == [b \in 1 .. Blocks |-> [i \in 0 .. Len(R[b]) |-> Held(E, n, b, i)]]
<1>6. \A b \in 1 .. Blocks : \A i \in 0 .. Len(R[b]) : needs[b][i] = Held(E, n, b, i)
    OBVIOUS
<1> HIDE DEF needs
<1>7. PICK c : /\ c.R = R /\ c.C = C /\ c.stR = stR /\ c.stC = stC
               /\ c.cut = cut /\ c.W = needs /\ c.h = Same(l) /\ c.K = Home(omit)
               /\ c.S = {v} /\ c.X = {Cell(omit)} /\ c.n = l /\ c.omit = omit
               /\ c.oracle = oracle /\ c.f = f0 /\ c.g = g0
    <2>1. \E c : ContextOf(c, R, C, stR, stC, cut, needs, Same(l), Home(omit), {v}, {Cell(omit)},
                           l, omit, oracle, f0, g0)
        BY ContextExists, Zenon
    <2> QED BY <2>1, Zenon DEF ContextOf
<1>8. Running(c)
    <2>1. \A b \in 1 .. Blocks : /\ \A i \in 0 .. Len(c.R[b]) : c.cut[b][i] \in 0 .. Len(c.C[b])
                                 /\ c.cut[b][0] = 0
                                 /\ c.cut[b][Len(c.R[b])] = Len(c.C[b])
        BY <1>2, <1>7 DEF CutOk
    <2> QED BY <1>1, <1>2, <1>3, <1>4, <1>7, <2>1 DEF Running
<1>9. Filling(c, E, v, n)
    <2>1. \A b \in 1 .. Blocks : \A i \in 0 .. Len(c.R[b]) : c.W[b][i] = Held(E, n, b, i)
        BY <1>6, <1>7
    <2>2. c.S = {v} /\ c.X = {Cell(c.omit)} /\ c.h = Same(c.n) /\ c.K = Home(c.omit)
        BY <1>7
    <2>3. /\ c.n \in Nat /\ n \in Nat /\ n <= c.n /\ IsVReg(v) /\ v \in CodeRegs(n)
          /\ Code(c.R, Wanted(n, c.omit)) /\ Flow(c.R, E, c.omit) /\ Shaped(c.R)
          /\ CutOk(c.R, c.C, c.cut) /\ Fills(c.R, c.C, c.cut, v, n, c.n, c.omit)
        BY <1>2, <1>7
    <2> QED BY <1>8, <2>1, <2>2, <2>3 DEF Filling
<1>10. \E m, k : At2(c, 1, 0, m, k)
    <2> DEFINE e == Entry(PRegs, l)
    <2>1. Mach(e, l) /\ e.regs[Base(omit)] = <<"entry", Base(omit)>>
        BY EntryIs, EntryBase
    <2> HIDE DEF e
    <2>2. Len(R[1]) \in Nat /\ Len(R[1]) > 0 /\ 0 \in 0 .. Len(R[1])
        <3>1. Len(R[1]) \in Nat
            BY <1>0, <1>2 DEF Code
        <3>2. Len(R[1]) > 0
            BY <1>0, <1>2 DEF Shaped
        <3> QED BY <3>1, <3>2
    <2>3. c.W[1][0] = Held(E, n, 1, 0)
        BY <1>0, <1>6, <1>7, <2>2
    <2>4. c.W[1][0] = Fixed
        BY <1>2, <2>3 DEF Held, Flow
    <2>5. v \notin Fixed
        BY <1>2, RegsDiffer DEF Fixed
    <2>6. \A r \in c.W[1][0] : Same(l)[r] = r
        BY <2>4, CodeRegsIn DEF Same, Fixed
    <2>7. \A r \in c.W[1][0] \cap DOMAIN Home(omit) : e.regs[r] = Home(omit)[r]
        BY <2>1 DEF Home
    <2>8. Unseen({Cell(omit)}, e, e)
        BY DEF Unseen, SameMem
    <2>9. Related(c.W[1][0], Same(l), Home(omit), {v}, {Cell(omit)}, e, e, l)
        BY <2>1, <2>4, <2>5, <2>6, <2>7, <2>8 DEF Related
    <2>10. Len(c.R[1]) > 0
        BY <1>7, <2>2
    <2>11. Related(c.W[1][0], c.h, c.K, c.S, c.X, Entry(PRegs, c.n), Entry(PRegs, c.n), c.n)
        BY <1>7, <2>9 DEF e
    <2> QED BY <1>8, <2>10, <2>11, RunsStart
<1>11. \A b, i, m, k : At2(c, b, i, m, k) /\ i < Len(c.R[b]) => Goes(c, m)
    BY <1>9, FillGoes
<1>12. PICK m, k : At2(c, Blocks, Len(c.R[Blocks]), m, k)
    BY <1>8, <1>10, <1>11, WalkEnds
<1>13. {a0, sp} \subseteq c.W[Blocks][Len(c.R[Blocks])] \ c.S
    <2>1. Len(R[Blocks]) \in Nat
        BY <1>0, <1>2 DEF Code
    <2>2. Len(R[Blocks]) \in 0 .. Len(R[Blocks])
        BY <2>1
    <2>3. c.W[Blocks][Len(c.R[Blocks])] = Held(E, n, Blocks, Len(R[Blocks]))
        BY <1>0, <1>6, <1>7, <2>2
    <2>4. v # a0 /\ v # sp
        BY <1>2, RegsDiffer
    <2> QED BY <1>7, <2>3, <2>4 DEF Held, Fixed
<1>14. c.h[a0] = a0 /\ c.h[sp] = sp
    BY <1>7, CodeRegsIn DEF Same
<1>15. Sees(c.f, c.R) = Sees(c.g, c.C)
    BY <1>8, <1>12, <1>13, <1>14, WalkSees
<1> QED BY <1>7, <1>15

-----------------------------------------------------------------------------
(* What Spill puts in the place of an instruction.                         *)

LEMMA FilledShift ==
    ASSUME NEW inst, NEW s, NEW A, NEW lo, NEW hi, NEW z, NEW v, NEW n, NEW l, NEW omit,
           Filled(inst, s, 0, z, v, n, l, omit), z \in Nat, lo \in Nat, hi = lo + z,
           \A j \in 1 .. z : A[lo + j] = s[j]
    PROVE  Filled(inst, A, lo, hi, v, n, l, omit)
<1>1. CASE ~Touches(inst, v, omit)
    <2>1. z = 0 + 1 /\ s[0 + 1] = inst
        BY <1>1 DEF Filled
    <2>2. z = 1 /\ s[1] = inst /\ 1 \in 1 .. z
        BY <2>1
    <2>3. hi = lo + 1 /\ A[lo + 1] = inst
        BY <2>2
    <2> QED BY <1>1, <2>3 DEF Filled
<1>2. CASE Touches(inst, v, omit)
    <2>1. PICK t, mid : Fresh(t, n, l) /\ mid \in Nat /\ TouchedPiece(inst, s, 0, mid, z, v, t, omit)
        BY <1>2 DEF Filled
    <2>2. /\ v \in Uses(inst, omit) => mid = 1 /\ s[1] = Load(t, SpillSlot)
          /\ v \notin Uses(inst, omit) => mid = 0
          /\ s[mid + 1] = ReplaceReg(inst, v, t)
          /\ v \in Defs(inst) => z = mid + 2 /\ s[mid + 2] = Store(t, SpillSlot)
          /\ v \notin Defs(inst) => z = mid + 1
        <3>1. 0 + 1 = 1
            OBVIOUS
        <3> QED BY <2>1, <3>1 DEF TouchedPiece
    <2>3. PICK m2 : m2 = lo + mid
        OBVIOUS
    <2>4. m2 \in Nat /\ m2 + 1 = lo + (mid + 1) /\ m2 + 2 = lo + (mid + 2)
        BY <2>1, <2>3
    <2>5. mid + 1 \in 1 .. z /\ (v \in Uses(inst, omit) => 1 \in 1 .. z)
          /\ (v \in Defs(inst) => mid + 2 \in 1 .. z)
        BY <2>1, <2>2
    <2>6. v \in Uses(inst, omit) => m2 = lo + 1 /\ A[lo + 1] = Load(t, SpillSlot)
        BY <2>2, <2>3, <2>5
    <2>7. v \notin Uses(inst, omit) => m2 = lo
        BY <2>2, <2>3
    <2>8. A[m2 + 1] = ReplaceReg(inst, v, t)
        BY <2>2, <2>4, <2>5
    <2>9. v \in Defs(inst) => hi = m2 + 2 /\ A[m2 + 2] = Store(t, SpillSlot)
        BY <2>2, <2>4, <2>5
    <2>10. v \notin Defs(inst) => hi = m2 + 1
        BY <2>2, <2>4
    <2>11. TouchedPiece(inst, A, lo, m2, hi, v, t, omit)
        BY <2>6, <2>7, <2>8, <2>9, <2>10 DEF TouchedPiece
    <2> QED BY <1>2, <2>1, <2>4, <2>11 DEF Filled
<1> QED BY <1>1, <1>2

IsLast(S, p, c, s) ==
    /\ s \in Seq(S) /\ Len(p) \in Nat /\ Len(s) = Len(p) + 1
    /\ \A i \in 1 .. Len(p) : s[i] = p[i]
    /\ s[Len(p) + 1] = c

IsJoin(S, p, q, s) ==
    /\ s \in Seq(S) /\ Len(p) \in Nat /\ Len(s) = Len(p) + Len(q)
    /\ \A i \in 1 .. Len(p) : s[i] = p[i]
    /\ \A i \in 1 .. Len(q) : s[Len(p) + i] = q[i]

LEMMA JoinIs ==
    ASSUME NEW S, NEW p, NEW q, p \in Seq(S), q \in Seq(S)
    PROVE  IsJoin(S, p, q, p \o q)
BY ConcatIs DEF IsJoin

LEMMA LastJoins ==
    ASSUME NEW S, NEW p, NEW q, NEW s, NEW c, IsJoin(S, p, q, s), Len(q) = 1, q[1] = c
    PROVE  IsLast(S, p, c, s)
<1>1. 1 \in 1 .. Len(q)
    OBVIOUS
<1>2. s[Len(p) + 1] = c
    BY <1>1 DEF IsJoin
<1> QED BY <1>2 DEF IsJoin, IsLast

LEMMA LastIs ==
    ASSUME NEW S, NEW p, p \in Seq(S), NEW c, c \in S
    PROVE  IsLast(S, p, c, p \o <<c>>)
<1>1. <<c>> \in Seq(S) /\ Len(<<c>>) = 1 /\ <<c>>[1] = c
    OBVIOUS
<1>2. IsJoin(S, p, <<c>>, p \o <<c>>)
    BY <1>1, JoinIs
<1>3. PICK q : q = <<c>>
    OBVIOUS
<1>4. IsJoin(S, p, q, p \o <<c>>) /\ Len(q) = 1 /\ q[1] = c
    BY <1>1, <1>2, <1>3
<1> QED BY <1>4, LastJoins

IsPair(S, a, b, s) == s \in Seq(S) /\ Len(s) = 2 /\ s[1] = a /\ s[2] = b

LEMMA PairLast ==
    ASSUME NEW S, NEW p, NEW a, NEW b, NEW s, IsLast(S, p, b, s), Len(p) = 1, p[1] = a
    PROVE  IsPair(S, a, b, s)
<1>1. 1 \in 1 .. Len(p) /\ Len(p) + 1 = 2
    OBVIOUS
<1> QED BY <1>1 DEF IsLast, IsPair

LEMMA PairIs ==
    ASSUME NEW S, NEW a, NEW b, a \in S, b \in S
    PROVE  IsPair(S, a, b, <<a>> \o <<b>>)
<1>1. <<a>> \in Seq(S) /\ Len(<<a>>) = 1 /\ <<a>>[1] = a
    OBVIOUS
<1>2. IsLast(S, <<a>>, b, <<a>> \o <<b>>)
    BY <1>1, LastIs
<1>3. PICK p : p = <<a>>
    OBVIOUS
<1>4. IsLast(S, p, b, <<a>> \o <<b>>) /\ Len(p) = 1 /\ p[1] = a
    BY <1>1, <1>2, <1>3
<1> QED BY <1>4, PairLast

LEMMA TripleIs ==
    ASSUME NEW S, NEW a, NEW b, NEW c, a \in S, b \in S, c \in S, NEW s,
           s = (<<a>> \o <<b>>) \o <<c>>
    PROVE  s \in Seq(S) /\ Len(s) = 3 /\ s[1] = a /\ s[2] = b /\ s[3] = c
<1>1. PICK p : p = <<a>> \o <<b>>
    OBVIOUS
<1>2. IsPair(S, a, b, p)
    BY <1>1, PairIs, Zenon
<1>3. p \in Seq(S) /\ Len(p) = 2 /\ p[1] = a /\ p[2] = b
    BY <1>2 DEF IsPair
<1>4. IsLast(S, p, c, p \o <<c>>)
    BY <1>3, LastIs
<1>5. s = p \o <<c>>
    BY <1>1
<1>6. IsLast(S, p, c, s)
    BY <1>4, <1>5, Zenon
<1>7. 1 \in 1 .. Len(p) /\ 2 \in 1 .. Len(p) /\ Len(p) + 1 = 3
    BY <1>3
<1> QED BY <1>3, <1>6, <1>7 DEF IsLast

(* Spilled, of an instruction that reports v. *)
LEMMA SpilledSeq ==
    ASSUME NEW inst, NEW v, NEW t, NEW s, s = Spilled(inst, v, t, SpillSlot),
           NEW S, Load(t, SpillSlot) \in S, Store(t, SpillSlot) \in S, ReplaceReg(inst, v, t) \in S
    PROVE  /\ s \in Seq(S) /\ Len(s) \in Nat \ {0}
           /\ \E mid : mid \in Nat /\ TouchedPiece(inst, s, 0, mid, Len(s), v, t, omit_frame_pointer)
<1> DEFINE u == v \in Uses(inst, omit_frame_pointer)
           d == v \in Defs(inst)
           r == ReplaceReg(inst, v, t)
           i1 == Load(t, SpillSlot)
           i3 == Store(t, SpillSlot)
<1>1. s = IF d THEN (IF u THEN <<i1>> \o <<r>> ELSE <<r>>) \o <<i3>>
          ELSE IF u THEN <<i1>> \o <<r>> ELSE <<r>>
    BY DEF Spilled, GenSpillStore, GenSpillLoad
<1>2. i1 \in S /\ i3 \in S /\ r \in S
    OBVIOUS
<1>3. ASSUME NEW mid \in Nat, u => mid = 1 /\ s[1] = i1, ~u => mid = 0, s[mid + 1] = r,
             d => Len(s) = mid + 2 /\ s[mid + 2] = i3, ~d => Len(s) = mid + 1
      PROVE  TouchedPiece(inst, s, 0, mid, Len(s), v, t, omit_frame_pointer)
    <2>1. 0 + 1 = 1
        OBVIOUS
    <2> QED BY <1>3, <2>1 DEF TouchedPiece
<1> HIDE DEF i1, i3, r
<1>4. CASE u /\ d
    <2>1. s = (<<i1>> \o <<r>>) \o <<i3>>
        BY <1>1, <1>4
    <2>2. s \in Seq(S) /\ Len(s) = 3 /\ s[1] = i1 /\ s[2] = r /\ s[3] = i3
        BY <1>2, <2>1, TripleIs
    <2>3. TouchedPiece(inst, s, 0, 1, Len(s), v, t, omit_frame_pointer)
        BY <1>3, <1>4, <2>2
    <2> QED BY <2>2, <2>3
<1>5. CASE u /\ ~d
    <2>1. s = <<i1>> \o <<r>>
        BY <1>1, <1>5
    <2>2. s \in Seq(S) /\ Len(s) = 2 /\ s[1] = i1 /\ s[2] = r
        <3>1. IsPair(S, i1, r, <<i1>> \o <<r>>)
            BY <1>2, PairIs
        <3> QED BY <2>1, <3>1 DEF IsPair
    <2>3. TouchedPiece(inst, s, 0, 1, Len(s), v, t, omit_frame_pointer)
        BY <1>3, <1>5, <2>2
    <2> QED BY <2>2, <2>3
<1>6. CASE ~u /\ d
    <2>1. s = <<r>> \o <<i3>>
        BY <1>1, <1>6
    <2>2. s \in Seq(S) /\ Len(s) = 2 /\ s[1] = r /\ s[2] = i3
        <3>1. IsPair(S, r, i3, <<r>> \o <<i3>>)
            BY <1>2, PairIs
        <3> QED BY <2>1, <3>1 DEF IsPair
    <2>3. TouchedPiece(inst, s, 0, 0, Len(s), v, t, omit_frame_pointer)
        BY <1>3, <1>6, <2>2
    <2> QED BY <2>2, <2>3
<1>7. CASE ~u /\ ~d
    <2>1. s = <<r>>
        BY <1>1, <1>7
    <2>2. s \in Seq(S) /\ Len(s) = 1 /\ s[1] = r
        BY <1>2, <2>1
    <2>3. TouchedPiece(inst, s, 0, 0, Len(s), v, t, omit_frame_pointer)
        BY <1>3, <1>7, <2>2
    <2> QED BY <2>2, <2>3
<1> QED BY <1>4, <1>5, <1>6, <1>7

-----------------------------------------------------------------------------
(* What is defined where, in the spilled code. *)

(* Where H, and then Q, is defined in the code, with v: at the places of A *)
(* that stand for the instruction.                                         *)
Defined(F, A, lo, hi, H, Q, v) ==
    /\ F[lo] = H \ {v} /\ F[hi] = Q \ {v}
    /\ \A j \in (lo + 1) .. (hi - 1) : F[j] = (H \ {v}) \cup Defs(A[lo + 1])

(* D is defined where inst jumps to. *)
FlowsFrom(inst, H, Q, D, omit) ==
    /\ Uses(inst, omit) \subseteq H \cup Fixed
    /\ inst.kind # "J" => Q \subseteq H \cup Defs(inst)
    /\ IsTerminator(inst) => D \subseteq H

InstFlow(a, H, Q, inst, D, v, l, omit) ==
    /\ a \in Instructions(CodeRegs(l)) /\ (a.kind = "Call" => a.arg_regs \subseteq {a0})
    /\ Uses(a, omit) \subseteq H \cup Fixed
    /\ a.kind # "J" => Q \subseteq H \cup Defs(a)
    /\ IsTerminator(a) => IsTerminator(inst) /\ a.block = inst.block /\ D \ {v} \subseteq H

(* gen_spill_load and gen_spill_store. *)
LEMMA SpillInsts ==
    ASSUME NEW t, NEW l, NEW omit, t \in CodeRegs(l)
    PROVE  /\ Load(t, SpillSlot) \in Instructions(CodeRegs(l)) /\ Load(t, SpillSlot).kind = "Load"
           /\ Uses(Load(t, SpillSlot), omit) \subseteq Fixed /\ Defs(Load(t, SpillSlot)) = {t}
           /\ Store(t, SpillSlot) \in Instructions(CodeRegs(l)) /\ Store(t, SpillSlot).kind = "Store"
           /\ Uses(Store(t, SpillSlot), omit) \subseteq {t} \cup Fixed
           /\ Defs(Store(t, SpillSlot)) = {}
<1>1. SpillSlot \in Locations(CodeRegs(l)) /\ LocUses(SpillSlot, omit) \subseteq Fixed
    BY DEF SpillSlot, Slot, Locations, LocUses, OnStack, Fixed
<1> HIDE DEF SpillSlot
<1>2. Load(t, SpillSlot) \in Instructions(CodeRegs(l)) /\ Load(t, SpillSlot).kind = "Load"
    BY <1>1 DEF Load, Instructions
<1>3. Store(t, SpillSlot) \in Instructions(CodeRegs(l)) /\ Store(t, SpillSlot).kind = "Store"
    BY <1>1 DEF Store, Instructions
<1>4. Uses(Load(t, SpillSlot), omit) \subseteq Fixed /\ Defs(Load(t, SpillSlot)) = {t}
    BY <1>1 DEF Uses, Defs, Defining, Load
<1>5. Uses(Store(t, SpillSlot), omit) \subseteq {t} \cup Fixed /\ Defs(Store(t, SpillSlot)) = {}
    BY <1>1 DEF Uses, Defs, Defining, Store
<1> QED BY <1>2, <1>3, <1>4, <1>5

LEMMA LoadFlow ==
    ASSUME NEW a, NEW t, a = Load(t, SpillSlot), NEW H, NEW Q, NEW inst, NEW D, NEW v, NEW l, NEW omit,
           t \in CodeRegs(l), Q \subseteq H \cup {t}
    PROVE  InstFlow(a, H, Q, inst, D, v, l, omit)
<1>1. /\ a \in Instructions(CodeRegs(l)) /\ a.kind = "Load"
      /\ Uses(a, omit) \subseteq Fixed /\ Defs(a) = {t}
    BY SpillInsts
<1> QED BY <1>1 DEF InstFlow, IsTerminator

LEMMA StoreFlow ==
    ASSUME NEW a, NEW t, a = Store(t, SpillSlot), NEW H, NEW Q, NEW inst, NEW D, NEW v, NEW l, NEW omit,
           t \in CodeRegs(l), t \in H, Q \subseteq H
    PROVE  InstFlow(a, H, Q, inst, D, v, l, omit)
<1>1. /\ a \in Instructions(CodeRegs(l)) /\ a.kind = "Store"
      /\ Uses(a, omit) \subseteq {t} \cup Fixed
    BY SpillInsts
<1> QED BY <1>1 DEF InstFlow, IsTerminator

LEMMA ReplacedFlow ==
    ASSUME NEW a, NEW inst, NEW v, NEW t, NEW omit, NEW l, Replaced(inst, a, v, t, omit, l),
           inst.kind \notin {"Call", "J"}, NEW H, NEW Q, NEW D, FlowsFrom(inst, H, Q, D, omit),
           NEW F, NEW G, H \ {v} \subseteq F, v \in Uses(inst, omit) => t \in F,
           v \in Defs(inst) => G \subseteq F \cup {t},
           v \notin Defs(inst) => G = Q \ {v}
    PROVE  InstFlow(a, F, G, inst, D, v, l, omit)
<1>1. /\ a \in Instructions(CodeRegs(l)) /\ a.kind = inst.kind
      /\ Uses(a, omit) \subseteq (Uses(inst, omit) \ {v}) \cup {t}
      /\ v \notin Uses(inst, omit) => Uses(a, omit) \subseteq Uses(inst, omit)
      /\ v \in Defs(inst) => Defs(a) = {t}
      /\ v \notin Defs(inst) => Defs(a) = Defs(inst)
      /\ inst.kind = "Br" => a.block = inst.block
    BY DEF Replaced
<1>2. /\ Uses(inst, omit) \subseteq H \cup Fixed
      /\ Q \subseteq H \cup Defs(inst)
      /\ IsTerminator(inst) => D \subseteq H
    BY DEF FlowsFrom
<1>3. Uses(a, omit) \subseteq F \cup Fixed
    <2>1. CASE v \in Uses(inst, omit)
        BY <1>1, <1>2, <2>1
    <2>2. CASE v \notin Uses(inst, omit)
        BY <1>1, <1>2, <2>2
    <2> QED BY <2>1, <2>2
<1>4. G \subseteq F \cup Defs(a)
    BY <1>1, <1>2
<1>5. IsTerminator(a) => IsTerminator(inst) /\ a.block = inst.block /\ D \ {v} \subseteq F
    BY <1>1, <1>2 DEF IsTerminator
<1> QED BY <1>1, <1>3, <1>4, <1>5 DEF InstFlow

LEMMA UntouchedFlow ==
    ASSUME NEW inst, NEW n, NEW l, NEW omit, n \in Nat, l \in Nat, n <= l, inst \in Wanted(n, omit),
           NEW v, ~Touches(inst, v, omit), NEW H, NEW Q, NEW D, FlowsFrom(inst, H, Q, D, omit)
    PROVE  InstFlow(inst, H \ {v}, Q \ {v}, inst, D, v, l, omit)
<1>1. inst \in Instructions(CodeRegs(l)) /\ (inst.kind = "Call" => inst.arg_regs \subseteq {a0})
    BY MoreCodeRegs, MoreInsts DEF Wanted
<1> QED BY <1>1 DEF InstFlow, FlowsFrom, Touches

PieceFlows(F, A, lo, hi, inst, D, v, l, omit) ==
    \A j \in (lo + 1) .. hi : InstFlow(A[j], F[j - 1], F[j], inst, D, v, l, omit)

LEMMA TouchedFlow ==
    ASSUME NEW inst, NEW n, NEW l, NEW omit, n \in Nat, l \in Nat, n <= l, inst \in Wanted(n, omit),
           NEW v, IsVReg(v), Touches(inst, v, omit), NEW H, NEW Q, NEW D, FlowsFrom(inst, H, Q, D, omit),
           NEW A, NEW F, NEW lo, NEW hi, NEW mid, NEW t, lo \in Nat, hi \in Nat, mid \in Nat,
           Fresh(t, n, l), TouchedPiece(inst, A, lo, mid, hi, v, t, omit),
           Defined(F, A, lo, hi, H, Q, v)
    PROVE  PieceFlows(F, A, lo, hi, inst, D, v, l, omit)
<1>1. t \in CodeRegs(l)
    BY DEF Fresh
<1>2. inst.kind \notin {"Call", "J"} /\ inst \in Instructions(CodeRegs(n))
    BY TouchedKind DEF Wanted
<1>3. Base(omit) # v
    BY RegsDiffer DEF Base
<1>4. PICK r : r = ReplaceReg(inst, v, t) /\ Replaced(inst, r, v, t, omit, l)
    BY <1>1, <1>2, <1>3, ReplacedIs
<1>5. /\ v \in Uses(inst, omit) => mid = lo + 1 /\ A[lo + 1] = Load(t, SpillSlot)
      /\ v \notin Uses(inst, omit) => mid = lo
      /\ A[mid + 1] = r
      /\ v \in Defs(inst) => hi = mid + 2 /\ A[mid + 2] = Store(t, SpillSlot)
      /\ v \notin Defs(inst) => hi = mid + 1
    BY <1>4 DEF TouchedPiece
<1>6. /\ F[lo] = H \ {v} /\ F[hi] = Q \ {v}
      /\ \A j \in (lo + 1) .. (hi - 1) : F[j] = (H \ {v}) \cup Defs(A[lo + 1])
    BY DEF Defined
<1>7. Q \subseteq H \cup Defs(inst) /\ (v \in Defs(inst) => Defs(inst) = {v})
    BY <1>2 DEF FlowsFrom, Defs
<1>8. hi > lo /\ (v \in Uses(inst, omit) => Defs(A[lo + 1]) = {t})
      /\ (v \notin Uses(inst, omit) /\ v \in Defs(inst) => Defs(A[lo + 1]) = {t})
    <2>1. v \in Uses(inst, omit) => Defs(A[lo + 1]) = {t}
        BY <1>1, <1>5, SpillInsts
    <2>2. v \notin Uses(inst, omit) /\ v \in Defs(inst) => Defs(A[lo + 1]) = {t}
        BY <1>4, <1>5 DEF Replaced
    <2>3. hi > lo
        BY <1>5
    <2> QED BY <2>1, <2>2, <2>3
<1>9. \A j \in (lo + 1) .. (hi - 1) : F[j] = (H \ {v}) \cup {t}
    <2>1. CASE v \in Uses(inst, omit) \/ v \in Defs(inst)
        BY <1>6, <1>8, <2>1
    <2> QED BY <2>1 DEF Touches
<1>10. v \in Uses(inst, omit) => InstFlow(A[lo + 1], F[lo], F[lo + 1], inst, D, v, l, omit)
    <2> SUFFICES ASSUME v \in Uses(inst, omit)
                 PROVE  InstFlow(A[lo + 1], F[lo], F[lo + 1], inst, D, v, l, omit)
        OBVIOUS
    <2>1. lo + 1 \in (lo + 1) .. (hi - 1)
        BY <1>5
    <2>2. F[lo + 1] = (H \ {v}) \cup {t}
        BY <1>9, <2>1
    <2> QED BY <1>1, <1>5, <1>6, <2>2, LoadFlow
<1>11. /\ H \ {v} \subseteq F[mid] /\ (v \in Uses(inst, omit) => t \in F[mid])
       /\ (v \in Defs(inst) => F[mid + 1] \subseteq F[mid] \cup {t} /\ t \in F[mid + 1] /\ H \ {v} \subseteq F[mid + 1])
       /\ (v \notin Defs(inst) => F[mid + 1] = Q \ {v})
    <2>1. v \in Uses(inst, omit) => mid \in (lo + 1) .. (hi - 1)
        BY <1>5
    <2>2. v \notin Uses(inst, omit) => F[mid] = H \ {v}
        BY <1>5, <1>6
    <2>3. v \in Uses(inst, omit) => F[mid] = (H \ {v}) \cup {t}
        BY <1>9, <2>1
    <2>4. v \in Defs(inst) => mid + 1 \in (lo + 1) .. (hi - 1)
        BY <1>5
    <2>5. v \in Defs(inst) => F[mid + 1] = (H \ {v}) \cup {t}
        BY <1>9, <2>4
    <2>6. v \notin Defs(inst) => F[mid + 1] = Q \ {v}
        BY <1>5, <1>6
    <2> QED BY <2>2, <2>3, <2>5, <2>6
<1>12. InstFlow(A[mid + 1], F[mid], F[mid + 1], inst, D, v, l, omit)
    <2>1. PICK G : G = F[mid + 1]
        OBVIOUS
    <2>2. PICK F0 : F0 = F[mid]
        OBVIOUS
    <2>3. InstFlow(r, F0, G, inst, D, v, l, omit)
        BY <1>2, <1>4, <1>11, <2>1, <2>2, ReplacedFlow
    <2> QED BY <1>5, <2>1, <2>2, <2>3
<1>13. v \in Defs(inst) => InstFlow(A[mid + 2], F[mid + 1], F[mid + 2], inst, D, v, l, omit)
    <2> SUFFICES ASSUME v \in Defs(inst)
                 PROVE  InstFlow(A[mid + 2], F[mid + 1], F[mid + 2], inst, D, v, l, omit)
        OBVIOUS
    <2>1. F[mid + 2] = Q \ {v}
        BY <1>5, <1>6
    <2>2. F[mid + 2] \subseteq F[mid + 1] /\ t \in F[mid + 1]
        BY <1>7, <1>11, <2>1
    <2> QED BY <1>1, <1>5, <2>2, StoreFlow
<1> SUFFICES ASSUME NEW j \in (lo + 1) .. hi
             PROVE  InstFlow(A[j], F[j - 1], F[j], inst, D, v, l, omit)
    BY DEF PieceFlows
<1>14. CASE j = mid + 1
    <2>1. j - 1 = mid
        BY <1>14
    <2> QED BY <1>12, <1>14, <2>1
<1>15. CASE j = mid + 2
    <2>1. v \in Defs(inst) /\ j - 1 = mid + 1
        BY <1>5, <1>15
    <2> QED BY <1>13, <1>15, <2>1
<1>16. CASE j # mid + 1 /\ j # mid + 2
    <2>1. v \in Uses(inst, omit) /\ j = lo + 1 /\ j - 1 = lo
        BY <1>5, <1>16
    <2> QED BY <1>10, <2>1
<1> QED BY <1>14, <1>15, <1>16

LEMMA PieceFlow ==
    ASSUME NEW inst, NEW n, NEW l, NEW omit, n \in Nat, l \in Nat, n <= l, inst \in Wanted(n, omit),
           NEW v, IsVReg(v), NEW H, NEW Q, NEW D, FlowsFrom(inst, H, Q, D, omit),
           NEW A, NEW F, NEW lo, NEW hi, lo \in Nat, hi \in Nat,
           Filled(inst, A, lo, hi, v, n, l, omit), Defined(F, A, lo, hi, H, Q, v)
    PROVE  PieceFlows(F, A, lo, hi, inst, D, v, l, omit)
<1>1. CASE Touches(inst, v, omit)
    <2>1. PICK t, mid : Fresh(t, n, l) /\ mid \in Nat /\ TouchedPiece(inst, A, lo, mid, hi, v, t, omit)
        BY <1>1 DEF Filled
    <2> QED BY <1>1, <2>1, TouchedFlow
<1>2. CASE ~Touches(inst, v, omit)
    <2>1. hi = lo + 1 /\ A[lo + 1] = inst
        BY <1>2 DEF Filled
    <2>2. InstFlow(inst, H \ {v}, Q \ {v}, inst, D, v, l, omit)
        BY <1>2, UntouchedFlow
    <2>3. F[lo] = H \ {v} /\ F[hi] = Q \ {v}
        BY DEF Defined
    <2>4. ASSUME NEW j \in (lo + 1) .. hi
          PROVE  InstFlow(A[j], F[j - 1], F[j], inst, D, v, l, omit)
        <3>1. j = lo + 1 /\ j - 1 = lo /\ j = hi
            BY <2>1
        <3> QED BY <2>1, <2>2, <2>3, <3>1
    <2> QED BY <2>4 DEF PieceFlows
<1> QED BY <1>1, <1>2

(* The last instruction. *)
LastKept(inst, a) ==
    /\ inst.kind = "J" => a.kind = "J"
    /\ (inst.kind = "AluRRI" /\ inst.rd = a0) => (a.kind = "AluRRI" /\ a.rd = a0)

LEMMA PieceLast ==
    ASSUME NEW inst, NEW n, NEW l, NEW omit, n \in Nat, l \in Nat, n <= l, inst \in Wanted(n, omit),
           NEW v, IsVReg(v), NEW A, NEW lo, NEW hi, lo \in Nat, hi \in Nat,
           Filled(inst, A, lo, hi, v, n, l, omit)
    PROVE  hi > lo /\ LastKept(inst, A[hi])
<1>1. CASE Touches(inst, v, omit)
    <2>1. PICK t, mid : Fresh(t, n, l) /\ mid \in Nat /\ TouchedPiece(inst, A, lo, mid, hi, v, t, omit)
        BY <1>1 DEF Filled
    <2>2. inst.kind # "J"
        BY <1>1, TouchedKind
    <2>3. hi > lo
        BY <2>1 DEF TouchedPiece
    <2>4. ASSUME inst.kind = "AluRRI", inst.rd = a0
          PROVE  A[hi].kind = "AluRRI" /\ A[hi].rd = a0
        <3>1. Defs(inst) = {a0} /\ v # a0
            BY <2>4, RegsDiffer DEF Defs, Defining
        <3>2. A[hi] = ReplaceReg(inst, v, t)
            BY <2>1, <3>1 DEF TouchedPiece
        <3>3. inst \in [kind : {"AluRRI"}, rd : CodeRegs(n), rs : CodeRegs(n), imm : Int]
            BY <2>4 DEF Wanted, Instructions
        <3>4. DOMAIN inst = {"kind", "rd", "rs", "imm"}
            BY <3>3
        <3> QED BY <2>4, <3>1, <3>2, <3>4 DEF ReplaceReg
    <2> QED BY <2>2, <2>3, <2>4 DEF LastKept
<1>2. CASE ~Touches(inst, v, omit)
    BY <1>2 DEF Filled, LastKept
<1> QED BY <1>1, <1>2

-----------------------------------------------------------------------------
(* Places of the spilled code, and the instructions they stand for. *)

Cuts(c, k, z) ==
    /\ k \in Nat \ {0} /\ z \in Nat /\ c[0] = 0 /\ c[k] = z
    /\ \A i \in 0 .. k : c[i] \in 0 .. z
    /\ \A i \in 1 .. k : c[i - 1] < c[i]

LEMMA CutsGrow ==
    ASSUME NEW c, NEW k, NEW z, Cuts(c, k, z), NEW i, i \in 0 .. k, NEW j, j \in 0 .. k, i < j
    PROVE  c[i] < c[j]
<1>0. \A d \in 0 .. k : c[d] \in Nat
    BY DEF Cuts
<1> DEFINE T == {d \in Nat : d \in (i + 1) .. k /\ ~(c[i] < c[d])}
<1>1. ASSUME T # {} PROVE FALSE
    <2>1. PICK d \in T : \A e \in T : d <= e
        BY <1>1, LeastMember
    <2>2. d \in Nat /\ d \in (i + 1) .. k /\ ~(c[i] < c[d]) /\ k \in Nat /\ i \in Nat
        BY <2>1 DEF Cuts
    <2>3. PICK p : p = d - 1
        OBVIOUS
    <2>4. p \in Nat /\ p \in 0 .. k /\ d \in 1 .. k /\ ~(d <= p) /\ d - 1 = p /\ d \in 0 .. k
        <3> HIDE DEF T
        <3> QED BY <2>2, <2>3
    <2>5. c[p] < c[d]
        BY <2>4 DEF Cuts
    <2>6. p \notin T
        <3> HIDE DEF T
        <3> QED BY <2>1, <2>4
    <2>7. p = i \/ c[i] < c[p]
        <3>1. p = i \/ p \in (i + 1) .. k
            BY <2>2, <2>3
        <3> QED BY <2>4, <2>6, <3>1
    <2>8. c[p] \in Nat /\ c[d] \in Nat /\ c[i] \in Nat
        BY <1>0, <2>4
    <2> HIDE DEF T
    <2> QED BY <2>2, <2>5, <2>7, <2>8
<1>2. j \in Nat /\ j \in (i + 1) .. k
    BY DEF Cuts
<1>3. ~(c[i] < c[j]) => j \in T
    BY <1>2
<1> HIDE DEF T
<1> QED BY <1>1, <1>3

InPiece(c, k, i, j) == i \in 1 .. k /\ c[i - 1] < j /\ j <= c[i]

LEMMA PieceExists ==
    ASSUME NEW c, NEW k, NEW z, Cuts(c, k, z), NEW j, j \in 1 .. z
    PROVE  \E i : InPiece(c, k, i, j)
<1>0. \A d \in 0 .. k : c[d] \in Nat
    BY DEF Cuts
<1> DEFINE T == {d \in Nat : d \in 1 .. k /\ j <= c[d]}
<1>1. k \in T
    BY DEF Cuts
<1>2. PICK d \in T : \A e \in T : d <= e
    <2>1. T # {} /\ T \in SUBSET Nat
        BY <1>1
    <2> HIDE DEF T
    <2> QED BY <2>1, LeastMember
<1>3. d \in Nat /\ d \in 1 .. k /\ j <= c[d] /\ k \in Nat /\ c[0] = 0
    BY <1>2 DEF Cuts
<1>4. PICK p : p = d - 1
    OBVIOUS
<1>5. p \in Nat /\ p \in 0 .. k /\ ~(d <= p)
    <2> HIDE DEF T
    <2> QED BY <1>3, <1>4
<1>6. p \notin T
    <2> HIDE DEF T
    <2> QED BY <1>2, <1>5
<1>7. c[p] < j
    <2>1. CASE p = 0
        BY <1>3, <2>1
    <2>2. CASE p # 0
        <3>1. p \in 1 .. k
            BY <1>5, <2>2
        <3>2. ~(j <= c[p])
            BY <1>5, <1>6, <3>1
        <3>3. c[p] \in Nat
            BY <1>0, <1>5
        <3> HIDE DEF T
        <3> QED BY <3>2, <3>3
    <2> QED BY <2>1, <2>2
<1>8. InPiece(c, k, d, j)
    BY <1>3, <1>4, <1>7 DEF InPiece
<1> QED BY <1>8

LEMMA PieceUnique ==
    ASSUME NEW c, NEW k, NEW z, Cuts(c, k, z), NEW j, j \in 1 .. z, NEW i, NEW d,
           InPiece(c, k, i, j), InPiece(c, k, d, j)
    PROVE  i = d
<1>1. \A e \in 0 .. k : c[e] \in Nat
    BY DEF Cuts
<1>2. /\ i \in 1 .. k /\ d \in 1 .. k /\ c[i - 1] < j /\ j <= c[i] /\ c[d - 1] < j /\ j <= c[d]
      /\ k \in Nat /\ j \in Nat
    BY DEF InPiece, Cuts
<1>3. PICK p, q : p = i - 1 /\ q = d - 1
    OBVIOUS
<1>4. p \in 0 .. k /\ q \in 0 .. k /\ i \in 0 .. k /\ d \in 0 .. k
    BY <1>2, <1>3
<1>5. c[p] \in Nat /\ c[q] \in Nat /\ c[i] \in Nat /\ c[d] \in Nat
    BY <1>1, <1>4
<1>6. ~(i < d)
    <2>1. i < d => i = q \/ i < q
        BY <1>2, <1>3
    <2>2. i < q => c[i] < c[q]
        BY <1>4, CutsGrow
    <2> QED BY <1>2, <1>3, <1>5, <2>1, <2>2
<1>7. ~(d < i)
    <2>1. d < i => d = p \/ d < p
        BY <1>2, <1>3
    <2>2. d < p => c[d] < c[p]
        BY <1>4, CutsGrow
    <2> QED BY <1>2, <1>3, <1>5, <2>1, <2>2
<1> QED BY <1>2, <1>6, <1>7

PieceAt(c, k, j) == CHOOSE i : InPiece(c, k, i, j)

LEMMA PieceAtIs ==
    ASSUME NEW c, NEW k, NEW z, Cuts(c, k, z), NEW j, j \in 1 .. z, NEW i, InPiece(c, k, i, j)
    PROVE  PieceAt(c, k, j) = i
<1>1. InPiece(c, k, PieceAt(c, k, j), j)
    BY Zenon DEF PieceAt
<1> QED BY <1>1, PieceUnique

(* The registers that are defined after j instructions of the spilled      *)
(* block A, where D are those of the block.                                *)
DefinedAt(D, A, c, k, v, j) ==
    LET i == PieceAt(c, k, j)
    IN IF j = 0 THEN D[0] \ {v}
       ELSE IF j = c[i] THEN D[i] \ {v}
       ELSE (D[i - 1] \ {v}) \cup Defs(A[c[i - 1] + 1])

LEMMA DefinedIs ==
    ASSUME NEW D, NEW A, NEW c, NEW k, NEW z, NEW v, Cuts(c, k, z), NEW F,
           \A j \in 0 .. z : F[j] = DefinedAt(D, A, c, k, v, j), NEW i, i \in 1 .. k
    PROVE  Defined(F, A, c[i - 1], c[i], D[i - 1], D[i], v)
<1>1. \A e \in 0 .. k : c[e] \in 0 .. z
    BY DEF Cuts
<1>2. PICK p, lo, hi : p = i - 1 /\ lo = c[p] /\ hi = c[i]
    OBVIOUS
<1>3. p \in 0 .. k /\ i \in 0 .. k /\ k \in Nat /\ z \in Nat
    BY <1>2 DEF Cuts
<1>4. lo \in 0 .. z /\ hi \in 0 .. z /\ lo < hi
    <2>1. c[p] < c[i]
        BY <1>2 DEF Cuts
    <2> QED BY <1>1, <1>2, <1>3, <2>1
<1>5. F[lo] = D[p] \ {v}
    <2>1. CASE p = 0
        <3>1. lo = 0
            BY <1>2, <2>1 DEF Cuts
        <3> QED BY <1>4, <2>1, <3>1 DEF DefinedAt
    <2>2. CASE p # 0
        <3>1. p \in 1 .. k
            BY <1>3, <2>2
        <3>2. PICK q : q = p - 1
            OBVIOUS
        <3>3. c[q] < c[p]
            BY <3>1, <3>2 DEF Cuts
        <3>4. InPiece(c, k, p, lo)
            BY <1>2, <1>4, <3>1, <3>2, <3>3 DEF InPiece
        <3>5. lo \in 1 .. z
            <4>1. q \in 0 .. k
                BY <1>3, <3>1, <3>2
            <4>2. c[q] \in 0 .. z
                BY <1>1, <4>1
            <4> QED BY <1>2, <1>4, <3>3, <4>2
        <3>6. PieceAt(c, k, lo) = p
            BY <3>4, <3>5, PieceAtIs
        <3>7. F[lo] = DefinedAt(D, A, c, k, v, lo) /\ lo # 0
            BY <1>4, <3>5
        <3> QED BY <1>2, <3>6, <3>7 DEF DefinedAt
    <2> QED BY <2>1, <2>2
<1>6. ASSUME NEW j \in (lo + 1) .. hi
      PROVE  F[j] = IF j = hi THEN D[i] \ {v} ELSE (D[p] \ {v}) \cup Defs(A[lo + 1])
    <2>1. j \in 1 .. z /\ j \in 0 .. z /\ j # 0
        BY <1>3, <1>4
    <2>2. InPiece(c, k, i, j)
        BY <1>2, <1>4 DEF InPiece
    <2>3. PieceAt(c, k, j) = i
        BY <2>1, <2>2, PieceAtIs
    <2>4. F[j] = DefinedAt(D, A, c, k, v, j)
        BY <2>1
    <2> QED BY <1>2, <2>1, <2>3, <2>4 DEF DefinedAt
<1>7. hi \in (lo + 1) .. hi /\ \A j \in (lo + 1) .. (hi - 1) : j \in (lo + 1) .. hi /\ j # hi
    BY <1>4
<1>8. F[hi] = D[i] \ {v} /\ \A j \in (lo + 1) .. (hi - 1) : F[j] = (D[p] \ {v}) \cup Defs(A[lo + 1])
    BY <1>6, <1>7
<1>9. Defined(F, A, lo, hi, D[p], D[i], v)
    BY <1>5, <1>8 DEF Defined
<1> QED BY <1>2, <1>9

-----------------------------------------------------------------------------
(* The spilled code is as good as the code. *)

LEMMA SpillCuts ==
    ASSUME NEW R, NEW C, NEW E, NEW cut, NEW v, NEW n, NEW l, NEW omit,
           SpillPair(R, C, E, cut, v, n, l, omit), NEW b, b \in 1 .. Blocks
    PROVE  /\ Cuts(cut[b], Len(R[b]), Len(C[b]))
           /\ \A i \in 1 .. Len(R[b]) : R[b][i] \in Wanted(n, omit)
           /\ \A i \in 1 .. Len(R[b]) :
                 Filled(R[b][i], C[b], cut[b][i - 1], cut[b][i], v, n, l, omit)
<1>1. PICK S : Code(C, S)
    BY DEF SpillPair
<1>2. /\ n \in Nat /\ l \in Nat /\ n <= l /\ IsVReg(v)
      /\ Code(R, Wanted(n, omit)) /\ Shaped(R)
      /\ CutOk(R, C, cut) /\ Fills(R, C, cut, v, n, l, omit)
    BY DEF SpillPair
<1>3. PICK A, B, c, k, z : A = R[b] /\ B = C[b] /\ c = cut[b] /\ k = Len(A) /\ z = Len(B)
    OBVIOUS
<1>4. A \in Seq(Wanted(n, omit)) /\ B \in Seq(S)
    BY <1>1, <1>2, <1>3 DEF Code
<1>5. k \in Nat \ {0} /\ z \in Nat
    <2>1. Len(R[b]) > 0
        BY <1>2 DEF Shaped
    <2> QED BY <1>3, <1>4, <2>1
<1>6. (\A i \in 0 .. k : c[i] \in 0 .. z) /\ c[0] = 0 /\ c[k] = z
    BY <1>2, <1>3 DEF CutOk
<1>7. \A i \in 1 .. k : Filled(A[i], B, c[i - 1], c[i], v, n, l, omit)
    BY <1>2, <1>3 DEF Fills
<1>8. \A i \in 1 .. k : A[i] \in Wanted(n, omit)
    BY <1>3, <1>4
<1>9. ASSUME NEW i \in 1 .. k PROVE c[i - 1] < c[i]
    <2>1. PICK p : p = i - 1
        OBVIOUS
    <2>2. p \in 0 .. k /\ i \in 0 .. k
        BY <1>5, <2>1
    <2>3. PICK lo, hi, inst : lo = c[p] /\ hi = c[i] /\ inst = A[i]
        OBVIOUS
    <2>4. lo \in Nat /\ hi \in Nat
        BY <1>6, <2>2, <2>3
    <2>5. Filled(inst, B, lo, hi, v, n, l, omit) /\ inst \in Wanted(n, omit)
        BY <1>7, <1>8, <2>1, <2>3
    <2>6. hi > lo
        BY <1>2, <2>4, <2>5, PieceLast
    <2> QED BY <2>1, <2>3, <2>4, <2>6
<1>10. Cuts(c, k, z)
    BY <1>5, <1>6, <1>9 DEF Cuts
<1> QED BY <1>3, <1>7, <1>8, <1>10

(* In the block A, with E defined in it, and D where it jumps to. *)
BlockFlow(A, F, G, v, b, l, omit) ==
    \A j \in 1 .. Len(A) :
        /\ A[j] \in Instructions(CodeRegs(l)) /\ (A[j].kind = "Call" => A[j].arg_regs \subseteq {a0})
        /\ Uses(A[j], omit) \subseteq F[j - 1] \cup Fixed
        /\ A[j].kind # "J" => F[j] \subseteq F[j - 1] \cup Defs(A[j])
        /\ IsTerminator(A[j]) => /\ A[j].block \in (b + 1) .. Blocks
                                 /\ G[A[j].block][0] \ {v} \subseteq F[j - 1]

LEMMA SpillBlock ==
    ASSUME NEW R, NEW C, NEW E, NEW cut, NEW v, NEW n, NEW l, NEW omit,
           SpillPair(R, C, E, cut, v, n, l, omit), NEW b, b \in 1 .. Blocks,
           NEW F, \A j \in 0 .. Len(C[b]) : F[j] = DefinedAt(E[b], C[b], cut[b], Len(R[b]), v, j)
    PROVE  BlockFlow(C[b], F, E, v, b, l, omit)
<1>1. /\ n \in Nat /\ l \in Nat /\ n <= l /\ IsVReg(v)
      /\ Flow(R, E, omit) /\ Shaped(R)
    BY DEF SpillPair
<1>2. PICK A, B, c, k, z, D : A = R[b] /\ B = C[b] /\ c = cut[b] /\ k = Len(A) /\ z = Len(B) /\ D = E[b]
    OBVIOUS
<1>3. /\ Cuts(c, k, z) /\ \A i \in 1 .. k : A[i] \in Wanted(n, omit)
      /\ \A i \in 1 .. k : Filled(A[i], B, c[i - 1], c[i], v, n, l, omit)
    BY <1>2, SpillCuts
<1>4. \A j \in 0 .. z : F[j] = DefinedAt(D, B, c, k, v, j)
    BY <1>2
<1>5. \A i \in 1 .. k : /\ Uses(A[i], omit) \subseteq D[i - 1] \cup Fixed
                        /\ A[i].kind # "J" => D[i] \subseteq D[i - 1] \cup Defs(A[i])
                        /\ IsTerminator(A[i]) => E[A[i].block][0] \subseteq D[i - 1]
    BY <1>1, <1>2 DEF Flow
<1>6. \A i \in 1 .. k : IsTerminator(A[i]) => A[i].block \in (b + 1) .. Blocks
    BY <1>1, <1>2 DEF Shaped
<1>7. ASSUME NEW j \in 1 .. z
      PROVE  /\ B[j] \in Instructions(CodeRegs(l)) /\ (B[j].kind = "Call" => B[j].arg_regs \subseteq {a0})
             /\ Uses(B[j], omit) \subseteq F[j - 1] \cup Fixed
             /\ B[j].kind # "J" => F[j] \subseteq F[j - 1] \cup Defs(B[j])
             /\ IsTerminator(B[j]) => /\ B[j].block \in (b + 1) .. Blocks
                                      /\ E[B[j].block][0] \ {v} \subseteq F[j - 1]
    <2>1. PICK i : InPiece(c, k, i, j)
        BY <1>3, PieceExists
    <2>2. i \in 1 .. k /\ c[i - 1] < j /\ j <= c[i]
        BY <2>1 DEF InPiece
    <2>3. PICK p, lo, hi, H, Q, inst, d :
              /\ p = i - 1 /\ lo = c[p] /\ hi = c[i] /\ H = D[p] /\ Q = D[i] /\ inst = A[i]
              /\ d = E[inst.block][0]
        OBVIOUS
    <2>4. p \in 0 .. k /\ i \in 0 .. k /\ \A e \in 0 .. k : c[e] \in Nat
        BY <1>3, <2>2, <2>3 DEF Cuts
    <2>5. lo \in Nat /\ hi \in Nat
        BY <2>3, <2>4
    <2>6. j \in (lo + 1) .. hi
        BY <2>2, <2>3, <2>5
    <2>7. Filled(inst, B, lo, hi, v, n, l, omit) /\ inst \in Wanted(n, omit)
        BY <1>3, <2>2, <2>3
    <2>8. FlowsFrom(inst, H, Q, d, omit)
        BY <1>5, <2>2, <2>3 DEF FlowsFrom
    <2>9. Defined(F, B, lo, hi, H, Q, v)
        <3>1. Defined(F, B, c[i - 1], c[i], D[i - 1], D[i], v)
            BY <1>3, <1>4, <2>2, DefinedIs
        <3> QED BY <2>3, <3>1
    <2>10. PieceFlows(F, B, lo, hi, inst, d, v, l, omit)
        BY <1>1, <2>5, <2>7, <2>8, <2>9, PieceFlow
    <2>11. InstFlow(B[j], F[j - 1], F[j], inst, d, v, l, omit)
        BY <2>6, <2>10 DEF PieceFlows
    <2>12. IsTerminator(inst) => inst.block \in (b + 1) .. Blocks
        BY <1>6, <2>2, <2>3
    <2> QED BY <2>3, <2>11, <2>12 DEF InstFlow
<1>8. z = Len(B)
    BY <1>2
<1>9. BlockFlow(B, F, E, v, b, l, omit)
    BY <1>7, <1>8 DEF BlockFlow
<1> QED BY <1>2, <1>9

LEMMA SpillCode ==
    ASSUME NEW R, NEW C, NEW E, NEW cut, NEW v, NEW n, NEW l, NEW omit,
           SpillPair(R, C, E, cut, v, n, l, omit), Ends(R)
    PROVE  CodeOk(C, l, omit)
<1>0. Blocks \in Nat \ {0} /\ 1 \in 1 .. Blocks /\ Blocks \in 1 .. Blocks
    BY RegAllocAssumption
<1>1. PICK S : Code(C, S)
    BY DEF SpillPair
<1>2. n \in Nat /\ l \in Nat /\ n <= l /\ IsVReg(v) /\ Flow(R, E, omit) /\ Shaped(R)
    BY DEF SpillPair
<1> DEFINE F == [b \in 1 .. Blocks |-> [j \in 0 .. Len(C[b]) |->
                    DefinedAt(E[b], C[b], cut[b], Len(R[b]), v, j)]]
<1>3. \A b \in 1 .. Blocks : \A j \in 0 .. Len(C[b]) :
         F[b][j] = DefinedAt(E[b], C[b], cut[b], Len(R[b]), v, j)
    OBVIOUS
<1> HIDE DEF F
<1>4. \A b \in 1 .. Blocks : BlockFlow(C[b], F[b], E, v, b, l, omit)
    BY <1>3, SpillBlock
<1>5. \A b \in 1 .. Blocks : Len(C[b]) \in Nat /\ C[b] \in Seq(S)
    BY <1>1 DEF Code
<1>6. \A b \in 1 .. Blocks : F[b][0] = E[b][0] \ {v}
    <2>1. \A b \in 1 .. Blocks : 0 \in 0 .. Len(C[b])
        BY <1>5
    <2> QED BY <1>3, <2>1 DEF DefinedAt
<1>7. Flow(C, F, omit)
    <2>1. F[1][0] = {}
        BY <1>0, <1>2, <1>6 DEF Flow
    <2>2. ASSUME NEW b \in 1 .. Blocks, NEW i \in 1 .. Len(C[b])
          PROVE  /\ Uses(C[b][i], omit) \subseteq F[b][i - 1] \cup Fixed
                 /\ C[b][i].kind # "J" => F[b][i] \subseteq F[b][i - 1] \cup Defs(C[b][i])
                 /\ IsTerminator(C[b][i]) => F[C[b][i].block][0] \subseteq F[b][i - 1]
        <3>1. /\ Uses(C[b][i], omit) \subseteq F[b][i - 1] \cup Fixed
              /\ C[b][i].kind # "J" => F[b][i] \subseteq F[b][i - 1] \cup Defs(C[b][i])
              /\ IsTerminator(C[b][i]) => /\ C[b][i].block \in (b + 1) .. Blocks
                                          /\ E[C[b][i].block][0] \ {v} \subseteq F[b][i - 1]
            BY <1>4 DEF BlockFlow
        <3>2. \A d \in (b + 1) .. Blocks : d \in 1 .. Blocks
            BY <1>0
        <3> QED BY <1>6, <3>1, <3>2
    <2> QED BY <2>1, <2>2 DEF Flow
<1>8. Code(C, Instructions(CodeRegs(l)))
    <2>1. ASSUME NEW b \in 1 .. Blocks PROVE C[b] \in Seq(Instructions(CodeRegs(l)))
        <3>1. \A j \in 1 .. Len(C[b]) : C[b][j] \in Instructions(CodeRegs(l))
            BY <1>4 DEF BlockFlow
        <3>2. PICK A, X : A = C[b] /\ X = Instructions(CodeRegs(l))
            OBVIOUS
        <3>3. A \in Seq(S) /\ \A j \in 1 .. Len(A) : A[j] \in X
            BY <1>5, <3>1, <3>2
        <3>4. A \in Seq(X)
            BY <3>3
        <3> QED BY <3>2, <3>4
    <2> QED BY <1>1, <2>1 DEF Code
<1>9. ArgsFixed(C)
    BY <1>4 DEF BlockFlow, ArgsFixed
<1>10. ASSUME NEW b \in 1 .. Blocks
       PROVE  /\ Len(C[b]) > 0 /\ (R[b][Len(R[b])].kind = "J" => C[b][Len(C[b])].kind = "J")
              /\ R[b][Len(R[b])].kind = "AluRRI" /\ R[b][Len(R[b])].rd = a0
                   => C[b][Len(C[b])].kind = "AluRRI" /\ C[b][Len(C[b])].rd = a0
    <2>1. PICK A, B, c, k, z : A = R[b] /\ B = C[b] /\ c = cut[b] /\ k = Len(A) /\ z = Len(B)
        OBVIOUS
    <2>2. /\ Cuts(c, k, z) /\ \A i \in 1 .. k : A[i] \in Wanted(n, omit)
          /\ \A i \in 1 .. k : Filled(A[i], B, c[i - 1], c[i], v, n, l, omit)
        BY <2>1, SpillCuts
    <2>3. k \in Nat \ {0} /\ c[k] = z /\ z \in Nat /\ \A e \in 0 .. k : c[e] \in Nat
        BY <2>2 DEF Cuts
    <2>4. PICK p, lo, inst : p = k - 1 /\ lo = c[p] /\ inst = A[k]
        OBVIOUS
    <2>5. p \in 0 .. k /\ k \in 1 .. k
        BY <2>3, <2>4
    <2>6. lo \in Nat /\ inst \in Wanted(n, omit) /\ Filled(inst, B, lo, z, v, n, l, omit)
        BY <2>2, <2>3, <2>4, <2>5
    <2>7. z > lo /\ LastKept(inst, B[z])
        <3>1. /\ n \in Nat /\ l \in Nat /\ n <= l /\ inst \in Wanted(n, omit) /\ IsVReg(v)
              /\ lo \in Nat /\ z \in Nat /\ Filled(inst, B, lo, z, v, n, l, omit)
            BY <1>2, <2>3, <2>6
        <3> QED BY <3>1, PieceLast
    <2>8. z > 0
        BY <2>3, <2>6, <2>7
    <2> QED BY <2>1, <2>4, <2>7, <2>8 DEF LastKept
<1>11. Shaped(C)
    <2>1. \A b \in 1 .. Blocks : b < Blocks => C[b][Len(C[b])].kind = "J"
        BY <1>2, <1>10 DEF Shaped
    <2>2. \A b \in 1 .. Blocks : \A i \in 1 .. Len(C[b]) :
             IsTerminator(C[b][i]) => C[b][i].block \in (b + 1) .. Blocks
        BY <1>4 DEF BlockFlow
    <2> QED BY <1>10, <2>1, <2>2 DEF Shaped
<1>12. Ends(C)
    BY <1>0, <1>10 DEF Ends
<1> QED BY <1>7, <1>8, <1>9, <1>11, <1>12 DEF CodeOk

-----------------------------------------------------------------------------
(* Spill, block by block. *)

(* The sequences bl stand for the instructions of A. *)
Standing(A, bl, S, v, n, l, omit) ==
    /\ Len(A) \in Nat \ {0}
    /\ bl \in [1 .. Len(A) -> Seq(S)]
    /\ \A i \in 1 .. Len(A) : Filled(A[i], bl[i], 0, Len(bl[i]), v, n, l, omit)

Cutting(A, C, c, v, n, l, omit) ==
    /\ \A i \in 0 .. Len(A) : c[i] \in 0 .. Len(C)
    /\ c[0] = 0 /\ c[Len(A)] = Len(C)
    /\ \A i \in 1 .. Len(A) : Filled(A[i], C, c[i - 1], c[i], v, n, l, omit)

LEMMA BlockCut ==
    ASSUME NEW A, NEW bl, NEW S, NEW v, NEW n, NEW l, NEW omit, Standing(A, bl, S, v, n, l, omit)
    PROVE  /\ FlattenSeq(bl) \in Seq(S)
           /\ \E c : Cutting(A, FlattenSeq(bl), c, v, n, l, omit)
<1>1. PICK k : k = Len(A)
    OBVIOUS
<1>2. k \in Nat \ {0} /\ bl \in [1 .. k -> Seq(S)]
    BY <1>1 DEF Standing
<1>3. \A i \in 1 .. k : Filled(A[i], bl[i], 0, Len(bl[i]), v, n, l, omit)
    BY <1>1 DEF Standing
<1>4. FlattenSeq(bl) \in Seq(S) /\ \E st : Layout(bl, k, st)
    BY <1>2, FlattenLayout
<1>5. PICK st : Layout(bl, k, st)
    BY <1>4
<1>6. PICK C, z : C = FlattenSeq(bl) /\ z = Len(C)
    OBVIOUS
<1>7. /\ \A b \in 1 .. (k + 1) : st[b] \in Nat \ {0}
      /\ \A b \in 1 .. k : Len(bl[b]) \in Nat /\ st[b + 1] = st[b] + Len(bl[b])
      /\ \A a \in 1 .. k : \A b \in (a + 1) .. (k + 1) : st[a] + Len(bl[a]) <= st[b]
      /\ z \in Nat /\ z = st[k + 1] - 1
    <2>1. /\ \A b \in 1 .. (k + 1) : st[b] \in Nat \ {0}
          /\ \A b \in 1 .. k : Len(bl[b]) \in Nat /\ st[b + 1] = st[b] + Len(bl[b])
          /\ \A a \in 1 .. k : \A b \in (a + 1) .. (k + 1) : st[a] + Len(bl[a]) <= st[b]
          /\ Len(FlattenSeq(bl)) \in Nat /\ Len(FlattenSeq(bl)) = st[k + 1] - 1
        BY <1>2, <1>5, StartsGrow
    <2> QED BY <1>6, <2>1
<1>8. /\ st[1] = 1
      /\ \A b \in 1 .. k : \A i \in 1 .. Len(bl[b]) : C[st[b] + i - 1] = bl[b][i]
    BY <1>5, <1>6 DEF Layout
<1> DEFINE c == [i \in 0 .. k |-> st[i + 1] - 1]
<1>9. \A i \in 0 .. k : c[i] = st[i + 1] - 1
    OBVIOUS
<1> HIDE DEF c
<1>10. ASSUME NEW i \in 0 .. k PROVE c[i] \in 0 .. z
    <2>1. PICK j : j = i + 1 /\ j \in 1 .. (k + 1)
        BY <1>2
    <2>2. c[i] = st[j] - 1 /\ st[j] \in Nat \ {0} /\ st[k + 1] \in Nat
        <3>1. k + 1 \in 1 .. (k + 1)
            BY <1>2
        <3> QED BY <1>7, <1>9, <2>1, <3>1
    <2>3. st[j] <= st[k + 1]
        <3>1. CASE j = k + 1
            BY <2>2, <3>1
        <3>2. CASE j # k + 1
            <4>1. j \in 1 .. k /\ k + 1 \in (j + 1) .. (k + 1)
                BY <1>2, <2>1, <3>2
            <4>2. st[j] + Len(bl[j]) <= st[k + 1] /\ Len(bl[j]) \in Nat
                BY <1>7, <4>1
            <4> QED BY <2>2, <4>2
        <3> QED BY <3>1, <3>2
    <2> QED BY <1>7, <2>2, <2>3
<1>11. c[0] = 0 /\ c[k] = z
    <2>1. 0 \in 0 .. k /\ k \in 0 .. k /\ 0 + 1 = 1
        BY <1>2
    <2> QED BY <1>7, <1>8, <1>9, <2>1
<1>12. ASSUME NEW i \in 1 .. k
       PROVE  Filled(A[i], C, c[i - 1], c[i], v, n, l, omit)
    <2>1. PICK p, j : p = i - 1 /\ j = i + 1
        OBVIOUS
    <2>2. p \in 0 .. k /\ i \in 0 .. k /\ p + 1 = i
        BY <1>2, <2>1
    <2>3. c[p] = st[i] - 1 /\ c[i] = st[j] - 1 /\ st[j] = st[i] + Len(bl[i])
        BY <1>7, <1>9, <2>1, <2>2
    <2>4. PICK s, y, inst, lo, hi, q : /\ s = bl[i] /\ y = Len(s) /\ inst = A[i] /\ lo = c[p] /\ hi = c[i]
                                       /\ q = st[i]
        OBVIOUS
    <2>5. q \in Nat \ {0} /\ y \in Nat
        <3>1. i \in 1 .. (k + 1)
            BY <1>2
        <3> QED BY <1>7, <2>4, <3>1
    <2>6. lo = q - 1 /\ hi = lo + y /\ lo \in Nat
        <3>1. PICK e : e = st[j]
            OBVIOUS
        <3>2. lo = q - 1 /\ hi = e - 1 /\ e = q + y
            BY <2>3, <2>4, <3>1
        <3> QED BY <2>5, <3>2
    <2>7. \A e \in 1 .. y : C[lo + e] = s[e]
        <3>1. ASSUME NEW e \in 1 .. y PROVE C[lo + e] = s[e]
            <4>1. C[q + e - 1] = s[e]
                BY <1>8, <2>4
            <4>2. q + e - 1 = lo + e
                BY <2>5, <2>6
            <4> QED BY <4>1, <4>2
        <3> QED BY <3>1
    <2>8. Filled(inst, s, 0, y, v, n, l, omit)
        BY <1>3, <2>4
    <2>9. Filled(inst, C, lo, hi, v, n, l, omit)
        BY <2>5, <2>6, <2>7, <2>8, FilledShift
    <2> QED BY <2>1, <2>4, <2>9
<1>13. Cutting(A, C, c, v, n, l, omit)
    BY <1>1, <1>6, <1>10, <1>11, <1>12 DEF Cutting
<1> QED BY <1>4, <1>6, <1>13

(* Of all blocks. *)
LEMMA BlocksCut ==
    ASSUME NEW R, NEW C, NEW bls, NEW S, NEW v, NEW n, NEW l, NEW omit,
           C = [b \in 1 .. Blocks |-> FlattenSeq(bls[b])],
           \A b \in 1 .. Blocks : Standing(R[b], bls[b], S, v, n, l, omit)
    PROVE  /\ Code(C, S)
           /\ \E cut : CutOk(R, C, cut) /\ Fills(R, C, cut, v, n, l, omit)
<1>1. \A b \in 1 .. Blocks : C[b] = FlattenSeq(bls[b])
    OBVIOUS
<1>2. ASSUME NEW b \in 1 .. Blocks
      PROVE  C[b] \in Seq(S) /\ \E c : Cutting(R[b], C[b], c, v, n, l, omit)
    <2>1. PICK A, bl : A = R[b] /\ bl = bls[b]
        OBVIOUS
    <2>2. Standing(A, bl, S, v, n, l, omit)
        BY <2>1
    <2>3. FlattenSeq(bl) \in Seq(S) /\ \E c : Cutting(A, FlattenSeq(bl), c, v, n, l, omit)
        BY <2>2, BlockCut
    <2> QED BY <1>1, <2>1, <2>3
<1>3. Code(C, S)
    BY <1>2 DEF Code
<1> DEFINE cut == [b \in 1 .. Blocks |-> CHOOSE c : Cutting(R[b], C[b], c, v, n, l, omit)]
<1>4. ASSUME NEW b \in 1 .. Blocks PROVE Cutting(R[b], C[b], cut[b], v, n, l, omit)
    <2>1. Cutting(R[b], C[b], CHOOSE c : Cutting(R[b], C[b], c, v, n, l, omit), v, n, l, omit)
        BY <1>2, Zenon
    <2> QED BY <2>1
<1> HIDE DEF cut
<1>5. CutOk(R, C, cut) /\ Fills(R, C, cut, v, n, l, omit)
    BY <1>4, Zenon DEF Cutting, CutOk, Fills
<1> QED BY <1>3, <1>5

-----------------------------------------------------------------------------
(* The places where a register is reported, and new registers for them. *)

TouchedBy(v) == UNION {{b} \X {i \in DOMAIN code[b] : v \in Reported(code[b][i])} : b \in 1 .. Blocks}
BeforeIn(T, b, i) == {t \in T : t[1] < b \/ (t[1] = b /\ t[2] < i)}

LEMMA TouchedIs ==
    ASSUME NEW v, NEW S, Code(code, S), NEW b, b \in 1 .. Blocks, NEW i, i \in 1 .. Len(code[b])
    PROVE  <<b, i>> \in TouchedBy(v) <=> Touches(code[b][i], v, omit_frame_pointer)
<1>1. DOMAIN code[b] = 1 .. Len(code[b])
    BY DEF Code
<1> QED BY <1>1 DEF TouchedBy, Touches, Reported

LEMMA TouchedFinite ==
    ASSUME NEW v, NEW S, Code(code, S)
    PROVE  IsFiniteSet(TouchedBy(v))
<1>0. Blocks \in Nat \ {0} /\ code \in [1 .. Blocks -> Seq(S)]
    BY RegAllocAssumption DEF Code
<1>1. PICK st : Layout(code, Blocks, st)
    BY <1>0, FlattenLayout
<1>2. /\ \A b \in 1 .. (Blocks + 1) : st[b] \in Nat \ {0}
      /\ \A b \in 1 .. Blocks : Len(code[b]) \in Nat
      /\ \A a \in 1 .. Blocks : \A b \in (a + 1) .. (Blocks + 1) :
            st[a] + Len(code[a]) <= st[b]
    BY <1>0, <1>1, StartsGrow
<1>3. PICK z : z = st[Blocks + 1] /\ z \in Nat
    <2>1. Blocks + 1 \in 1 .. (Blocks + 1)
        BY <1>0
    <2> QED BY <1>2, <2>1
<1>4. ASSUME NEW b \in 1 .. Blocks PROVE Len(code[b]) \in Nat /\ Len(code[b]) <= z
    <2>1. b \in 1 .. (Blocks + 1) /\ Blocks + 1 \in (b + 1) .. (Blocks + 1)
        BY <1>0
    <2>2. st[b] + Len(code[b]) <= z /\ st[b] \in Nat /\ Len(code[b]) \in Nat
        BY <1>2, <1>3, <2>1
    <2> QED BY <1>3, <2>2
<1>5. TouchedBy(v) \subseteq (1 .. Blocks) \X (1 .. z)
    <2>1. ASSUME NEW b \in 1 .. Blocks PROVE DOMAIN code[b] \subseteq 1 .. z
        <3>1. DOMAIN code[b] = 1 .. Len(code[b])
            BY <1>0
        <3> QED BY <1>3, <1>4, <3>1
    <2> QED BY <2>1 DEF TouchedBy
<1>6. IsFiniteSet(1 .. Blocks) /\ IsFiniteSet(1 .. z)
    <2>1. ASSUME NEW m \in Nat PROVE IsFiniteSet(1 .. m)
        <3>1. 1 \in Int /\ m \in Int
            OBVIOUS
        <3> QED BY <3>1, FS_Interval, Zenon
    <2> QED BY <1>0, <1>3, <2>1
<1>7. IsFiniteSet((1 .. Blocks) \X (1 .. z))
    BY <1>6, FS_Product
<1> QED BY <1>5, <1>7, FS_Subset

LEMMA BeforeLess ==
    ASSUME NEW T, IsFiniteSet(T), NEW b, NEW i, <<b, i>> \in T, b \in Nat, i \in Nat
    PROVE  /\ Cardinality(BeforeIn(T, b, i)) \in Nat /\ Cardinality(T) \in Nat
           /\ Cardinality(BeforeIn(T, b, i)) < Cardinality(T)
<1> DEFINE U == BeforeIn(T, b, i)
<1>1. U \in SUBSET T /\ U # T
    <2>1. <<b, i>> \notin U
        BY DEF BeforeIn
    <2>2. U \subseteq T
        BY DEF BeforeIn
    <2> QED BY <2>1, <2>2
<1> HIDE DEF U
<1>2. IsFiniteSet(U) /\ Cardinality(U) <= Cardinality(T) /\ (Cardinality(T) = Cardinality(U) => T = U)
    BY <1>1, FS_Subset
<1>3. Cardinality(U) \in Nat /\ Cardinality(T) \in Nat
    BY <1>2, FS_CardinalityType
<1>4. Cardinality(U) < Cardinality(T)
    BY <1>1, <1>2, <1>3
<1> QED BY <1>3, <1>4 DEF U

LEMMA NewIsFresh ==
    ASSUME NEW n, n \in Nat, NEW k, k \in Nat, NEW m, m \in Nat, k < m, NEW l, l = n + m
    PROVE  Fresh(V(n + k), n, l)
<1>1. n + k \in 0 .. (l - 1) /\ n + k \notin 0 .. (n - 1)
    OBVIOUS
<1>2. V(n + k) \in CodeRegs(l)
    BY <1>1 DEF CodeRegs
<1>3. V(n + k) \notin CodeRegs(n) /\ IsVReg(V(n + k))
    BY <1>1, RegsDiffer DEF CodeRegs
<1> QED BY <1>2, <1>3 DEF Fresh

(* What stands for one instruction. *)
LEMMA TouchedStands ==
    ASSUME NEW inst, NEW n, NEW l, n \in Nat, l \in Nat, n <= l,
           inst \in Wanted(n, omit_frame_pointer),
           NEW v, IsVReg(v), v \in CodeRegs(n), Touches(inst, v, omit_frame_pointer),
           NEW t, Fresh(t, n, l), NEW s, s = Spilled(inst, v, t, SpillSlot)
    PROVE  /\ s \in Seq(Instructions(CodeRegs(l)))
           /\ Filled(inst, s, 0, Len(s), v, n, l, omit_frame_pointer)
<1>1. t \in CodeRegs(l)
    BY DEF Fresh
<1>2. inst.kind \notin {"Call", "J"} /\ inst \in Instructions(CodeRegs(n))
    BY TouchedKind DEF Wanted
<1>3. Base(omit_frame_pointer) # v
    BY RegsDiffer DEF Base
<1>4. Replaced(inst, ReplaceReg(inst, v, t), v, t, omit_frame_pointer, l)
    BY <1>1, <1>2, <1>3, ReplacedIs
<1>5. PICK S : S = Instructions(CodeRegs(l))
    OBVIOUS
<1>6. Load(t, SpillSlot) \in S /\ Store(t, SpillSlot) \in S /\ ReplaceReg(inst, v, t) \in S
    BY <1>1, <1>4, <1>5, SpillInsts DEF Replaced
<1>7. /\ s \in Seq(S) /\ Len(s) \in Nat \ {0}
      /\ \E mid : mid \in Nat /\ TouchedPiece(inst, s, 0, mid, Len(s), v, t, omit_frame_pointer)
    BY <1>6, SpilledSeq
<1>8. Filled(inst, s, 0, Len(s), v, n, l, omit_frame_pointer)
    BY <1>7 DEF Filled
<1> QED BY <1>5, <1>7, <1>8

LEMMA UntouchedStands ==
    ASSUME NEW inst, NEW n, NEW l, n \in Nat, l \in Nat, n <= l,
           inst \in Wanted(n, omit_frame_pointer),
           NEW v, ~Touches(inst, v, omit_frame_pointer), NEW s, s = <<inst>>
    PROVE  /\ s \in Seq(Instructions(CodeRegs(l)))
           /\ Filled(inst, s, 0, Len(s), v, n, l, omit_frame_pointer)
<1>1. inst \in Instructions(CodeRegs(l))
    BY MoreCodeRegs, MoreInsts DEF Wanted
<1>2. Len(s) = 0 + 1 /\ s[0 + 1] = inst
    OBVIOUS
<1> QED BY <1>1, <1>2 DEF Filled

LEMMA NamedIs ==
    ASSUME NEW n, Code(code, Instructions(CodeRegs(n))), NEW v, v \in Named
    PROVE  IsVReg(v) /\ v \in CodeRegs(n)
<1>0. Blocks \in Nat \ {0} /\ code \in [1 .. Blocks -> Seq(Instructions(CodeRegs(n)))]
    BY RegAllocAssumption DEF Code
<1>1. Flat \in Seq(Instructions(CodeRegs(n)))
    BY <1>0, FlattenLayout DEF Flat
<1>2. PICK p \in DOMAIN Flat : v \in AllRegs(Flat[p])
    BY DEF Named
<1>3. PICK inst \in Instructions(CodeRegs(n)) : inst = Flat[p]
    BY <1>1, <1>2
<1>4. v \in AllRegs(inst)
    BY <1>2, <1>3
<1>5. AllRegs(inst) \subseteq CodeRegs(n)
    <2>1. \A loc \in Locations(CodeRegs(n)) : LocRegs(loc) \subseteq CodeRegs(n)
        BY DEF LocRegs, Locations, OnStack
    <2> QED BY <2>1 DEF AllRegs, Instructions
<1>6. IsVReg(v)
    BY DEF Named
<1> QED BY <1>4, <1>5, <1>6

SpilledBlock(T, b, v) ==
    [i \in DOMAIN code[b] |->
       IF <<b, i>> \in T
       THEN Spilled(code[b][i], v, NewVReg(Cardinality(BeforeIn(T, b, i))), SpillSlot)
       ELSE <<code[b][i]>>]

LEMMA SpillDoes ==
    ASSUME NEW v, Spill(v), storage = 8
    PROVE  /\ code' = [b \in 1 .. Blocks |-> FlattenSeq(SpilledBlock(TouchedBy(v), b, v))]
           /\ vreg_counter' = vreg_counter + Cardinality(TouchedBy(v))
           /\ phase = "selected" /\ phase' = "spilled"
           /\ omit_frame_pointer' = omit_frame_pointer /\ requests' = requests
<1>1. storage' = 16
    BY DEF Spill
<1>2. Slot(-storage') = SpillSlot
    BY <1>1 DEF SpillSlot
<1> QED BY <1>2 DEF Spill, SpilledBlock, TouchedBy, BeforeIn

LEMMA BlockStands ==
    ASSUME NEW v, NEW n, NEW m, NEW l, n = vreg_counter, n \in Nat, m = Cardinality(TouchedBy(v)),
           l = n + m, Code(code, Wanted(n, omit_frame_pointer)), IsVReg(v), v \in CodeRegs(n),
           NEW b, b \in 1 .. Blocks, Len(code[b]) > 0
    PROVE  Standing(code[b], SpilledBlock(TouchedBy(v), b, v), Instructions(CodeRegs(l)), v, n, l,
                    omit_frame_pointer)
<1> DEFINE T == TouchedBy(v)
           bl == SpilledBlock(T, b, v)
           S == Instructions(CodeRegs(l))
<1>1. IsFiniteSet(T)
    BY TouchedFinite
<1>2. m \in Nat /\ l \in Nat /\ n <= l
    <2>1. m \in Nat
        BY <1>1, FS_CardinalityType
    <2> QED BY <2>1
<1>3. PICK A : A = code[b]
    OBVIOUS
<1>4. A \in Seq(Wanted(n, omit_frame_pointer)) /\ Len(A) \in Nat \ {0} /\ DOMAIN A = 1 .. Len(A)
    <2>1. A \in Seq(Wanted(n, omit_frame_pointer)) /\ Len(A) > 0
        BY <1>3 DEF Code
    <2> QED BY <2>1
<1>5. b \in Nat
    BY RegAllocAssumption
<1>6. \A i \in 1 .. Len(A) : bl[i] = IF <<b, i>> \in T
                                     THEN Spilled(A[i], v, V(n + Cardinality(BeforeIn(T, b, i))), SpillSlot)
                                     ELSE <<A[i]>>
    BY <1>3, <1>4 DEF SpilledBlock, NewVReg
<1>7. DOMAIN bl = 1 .. Len(A) /\ bl = [i \in 1 .. Len(A) |-> bl[i]]
    BY <1>3, <1>4 DEF SpilledBlock
<1>8. \A i \in 1 .. Len(A) : <<b, i>> \in T <=> Touches(A[i], v, omit_frame_pointer)
    BY <1>3, TouchedIs
<1> HIDE DEF T, bl, S
<1>9. ASSUME NEW i \in 1 .. Len(A)
      PROVE  bl[i] \in Seq(S) /\ Filled(A[i], bl[i], 0, Len(bl[i]), v, n, l, omit_frame_pointer)
    <2>1. PICK inst, s : inst = A[i] /\ s = bl[i]
        OBVIOUS
    <2>2. inst \in Wanted(n, omit_frame_pointer)
        BY <1>4, <2>1
    <2>3. CASE <<b, i>> \in T
        <3>1. PICK k : k = Cardinality(BeforeIn(T, b, i))
            OBVIOUS
        <3>2. k \in Nat /\ k < m
            <4>1. i \in Nat
                BY <1>4
            <4>2. Cardinality(BeforeIn(T, b, i)) \in Nat
                  /\ Cardinality(BeforeIn(T, b, i)) < Cardinality(T)
                BY <1>1, <1>5, <2>3, <4>1, BeforeLess
            <4> QED BY <3>1, <4>2 DEF T
        <3>3. PICK t : t = V(n + k)
            OBVIOUS
        <3>4. Fresh(t, n, l)
            BY <1>2, <3>2, <3>3, NewIsFresh
        <3>5. s = Spilled(inst, v, t, SpillSlot)
            BY <1>6, <2>1, <2>3, <3>1, <3>3
        <3>6. Touches(inst, v, omit_frame_pointer)
            BY <1>8, <2>1, <2>3
        <3>7. /\ s \in Seq(Instructions(CodeRegs(l)))
              /\ Filled(inst, s, 0, Len(s), v, n, l, omit_frame_pointer)
            BY <1>2, <2>2, <3>4, <3>5, <3>6, TouchedStands
        <3> QED BY <2>1, <3>7 DEF S
    <2>4. CASE <<b, i>> \notin T
        <3>1. s = <<inst>>
            BY <1>6, <2>1, <2>4
        <3>2. ~Touches(inst, v, omit_frame_pointer)
            BY <1>8, <2>1, <2>4
        <3>3. /\ s \in Seq(Instructions(CodeRegs(l)))
              /\ Filled(inst, s, 0, Len(s), v, n, l, omit_frame_pointer)
            BY <1>2, <2>2, <3>1, <3>2, UntouchedStands
        <3> QED BY <2>1, <3>3 DEF S
    <2> QED BY <2>3, <2>4
<1>10. bl \in [1 .. Len(A) -> Seq(S)]
    <2>1. \A i \in 1 .. Len(A) : bl[i] \in Seq(S)
        BY <1>9
    <2>2. PICK g, k : g = bl /\ k = Len(A)
        OBVIOUS
    <2>3. [i \in 1 .. k |-> g[i]] \in [1 .. k -> Seq(S)]
        BY <2>1, <2>2
    <2>4. [i \in 1 .. k |-> g[i]] = bl
        BY <1>7, <2>2
    <2> QED BY <2>2, <2>3, <2>4
<1>11. Standing(A, bl, S, v, n, l, omit_frame_pointer)
    BY <1>4, <1>9, <1>10 DEF Standing
<1> QED BY <1>3, <1>11 DEF T, bl, S

LEMMA SpillPairs ==
    ASSUME Selected, phase = "selected", NEW v, v \in Named, Spill(v)
    PROVE  LET n == vreg_counter
               l == vreg_counter'
           IN /\ n \in Nat /\ l \in Nat /\ n <= l
              /\ CodeOk(code', l, omit_frame_pointer)
              /\ Equal(code, code', omit_frame_pointer, l)
              /\ Len(FlattenSeq(code)) \in Nat /\ Len(FlattenSeq(code')) \in Nat
<1>1. PICK n, l, m, omit, C : /\ n = vreg_counter /\ l = vreg_counter' /\ m = Cardinality(TouchedBy(v))
                              /\ omit = omit_frame_pointer /\ C = code'
    OBVIOUS
<1>2. /\ storage = 8 /\ n \in Nat /\ Code(code, Wanted(n, omit)) /\ CodeOk(code, n, omit)
    BY <1>1 DEF Selected, SelectedOk
<1>3. Code(code, Instructions(CodeRegs(n))) /\ Shaped(code) /\ Ends(code)
    BY <1>2 DEF CodeOk
<1>4. PICK E : Flow(code, E, omit)
    BY <1>2 DEF CodeOk
<1>5. IsVReg(v) /\ v \in CodeRegs(n)
    BY <1>3, NamedIs
<1>6. C = [b \in 1 .. Blocks |-> FlattenSeq(SpilledBlock(TouchedBy(v), b, v))] /\ l = n + m
    BY <1>1, <1>2, SpillDoes
<1>7. m \in Nat /\ l \in Nat /\ n <= l
    <2>1. m \in Nat
        BY <1>1, <1>3, TouchedFinite, FS_CardinalityType
    <2> QED BY <1>2, <1>6, <2>1
<1>8. PICK S : S = Instructions(CodeRegs(l))
    OBVIOUS
<1> DEFINE bls == [b \in 1 .. Blocks |-> SpilledBlock(TouchedBy(v), b, v)]
<1>9. \A b \in 1 .. Blocks : Standing(code[b], bls[b], S, v, n, l, omit)
    <2>1. ASSUME NEW b \in 1 .. Blocks
          PROVE  Standing(code[b], SpilledBlock(TouchedBy(v), b, v), S, v, n, l, omit)
        <3>1. Len(code[b]) > 0
            BY <1>3 DEF Shaped
        <3> QED BY <1>1, <1>2, <1>5, <1>6, <1>8, <3>1, BlockStands
    <2> QED BY <2>1
<1>10. C = [b \in 1 .. Blocks |-> FlattenSeq(bls[b])]
    BY <1>6
<1> HIDE DEF bls
<1>11. Code(C, S) /\ \E cut : CutOk(code, C, cut) /\ Fills(code, C, cut, v, n, l, omit)
    BY <1>9, <1>10, BlocksCut
<1>12. PICK cut : CutOk(code, C, cut) /\ Fills(code, C, cut, v, n, l, omit)
    BY <1>11
<1>13. SpillPair(code, C, E, cut, v, n, l, omit)
    BY <1>2, <1>3, <1>4, <1>5, <1>7, <1>11, <1>12 DEF SpillPair
<1>14. CodeOk(C, l, omit)
    BY <1>3, <1>13, SpillCode
<1>15. /\ Equal(code, C, omit, l)
       /\ Len(FlattenSeq(code)) \in Nat /\ Len(FlattenSeq(C)) \in Nat
    BY <1>13, SpillEqual
<1> QED BY <1>1, <1>2, <1>7, <1>14, <1>15

LEMMA SpillKeeps ==
    ASSUME Selected, NEW v, v \in Named, Spill(v)
    PROVE  /\ vreg_counter' \in Nat
           /\ CodeOk(code, vreg_counter, omit_frame_pointer)'
           /\ Equal(requests, code, omit_frame_pointer, vreg_counter)'
           /\ Len(FlattenSeq(requests))' \in Nat /\ Len(FlattenSeq(code))' \in Nat
<1>1. phase = "selected"
    BY DEF Spill
<1>2. /\ storage = 8 /\ Len(FlattenSeq(requests)) \in Nat
      /\ \A l : l \in Nat /\ vreg_counter <= l => Equal(requests, code, omit_frame_pointer, l)
    BY <1>1 DEF Selected, SelectedOk
<1>3. omit_frame_pointer' = omit_frame_pointer /\ requests' = requests
    BY <1>2, SpillDoes
<1>4. PICK n, l, C : n = vreg_counter /\ l = vreg_counter' /\ C = code'
    OBVIOUS
<1>5. /\ n \in Nat /\ l \in Nat /\ n <= l
      /\ CodeOk(C, l, omit_frame_pointer)
      /\ Equal(code, C, omit_frame_pointer, l)
      /\ Len(FlattenSeq(code)) \in Nat /\ Len(FlattenSeq(C)) \in Nat
    BY <1>1, <1>4, SpillPairs
<1>6. Equal(requests, code, omit_frame_pointer, l)
    BY <1>2, <1>4, <1>5
<1>7. Equal(requests, C, omit_frame_pointer, l)
    BY <1>5, <1>6, EqualTrans
<1> QED BY <1>2, <1>3, <1>4, <1>5, <1>7

-----------------------------------------------------------------------------
(* What holds of the code in each phase. *)

KeptBy(R, C, n, omit) ==
    Equal(R, C, omit, n) /\ Len(FlattenSeq(R)) \in Nat /\ Len(FlattenSeq(C)) \in Nat

SpilledOk ==
    phase = "spilled" => /\ vreg_counter \in Nat
                         /\ CodeOk(code, vreg_counter, omit_frame_pointer)
                         /\ KeptBy(requests, code, vreg_counter, omit_frame_pointer)

AllocatedOk == phase = "allocated" => KeptBy(requests, code, vreg_counter, omit_frame_pointer)

(* The inductive invariant, phase by phase. *)
PhasesKept == Selects /\ Selected /\ SpilledOk /\ AllocatedOk

SelectAction ==
    EmitLi \/ EmitAlu \/ EmitMove \/ EmitMemory \/ EmitCall \/ EmitSpAdjust \/ Jump \/ CondBranch

LEMMA SelectActionPhase == SelectAction => phase' = "select"
<1>1. EmitLi => phase' = "select"
    BY DEF EmitLi, EmitNew, Emit
<1>2. EmitAlu => phase' = "select"
    BY DEF EmitAlu, EmitNew, Emit
<1>3. EmitMove => phase' = "select"
    BY DEF EmitMove, Emit
<1>4. EmitMemory => phase' = "select"
    BY DEF EmitMemory, EmitNew, Emit
<1>5. EmitCall => phase' = "select"
    BY DEF EmitCall, Emit
<1>6. EmitSpAdjust => phase' = "select"
    BY DEF EmitSpAdjust, Emit
<1>7. Jump => phase' = "select"
    BY DEF Jump, EndBlock
<1>8. CondBranch => phase' = "select"
    BY DEF CondBranch, EndBlock
<1> QED BY <1>1, <1>2, <1>3, <1>4, <1>5, <1>6, <1>7, <1>8 DEF SelectAction

LEMMA SelectActionSelects == Selects /\ SelectAction => Selects'
BY EmitLiSelects, EmitAluSelects, EmitMoveSelects, EmitMemorySelects, EmitCallSelects,
   EmitSpAdjustSelects, JumpSelects, CondBranchSelects, Zenon DEF SelectAction

LEMMA InitKept == Init => PhasesKept
<1> SUFFICES ASSUME Init PROVE PhasesKept
    OBVIOUS
<1>1. phase = "select"
    BY DEF Init
<1>2. Selects
    BY InitSelects
<1> QED BY <1>1, <1>2 DEF PhasesKept, Selected, SpilledOk, AllocatedOk

(* replace_reg, from selected or from spilled code. *)
LEMMA AllocateKept ==
    ASSUME Selected, SpilledOk, Allocate
    PROVE  AllocatedOk'
<1>1. /\ phase \in {"selected", "spilled"} /\ phase' = "allocated"
      /\ omit_frame_pointer' = omit_frame_pointer /\ vreg_counter' = vreg_counter
      /\ requests' = requests
    BY DEF Allocate
<1>2. PICK f \in Allocations : code' = AllocatedCode(f)
    BY DEF Allocate, AllocatedCode
<1>3. /\ vreg_counter \in Nat /\ CodeOk(code, vreg_counter, omit_frame_pointer)
      /\ KeptBy(requests, code, vreg_counter, omit_frame_pointer)
    <2>1. CASE phase = "selected"
        <3>1. SelectedOk(requests, code, vreg_counter, omit_frame_pointer)
            BY <2>1 DEF Selected
        <3>2. vreg_counter \in Nat /\ vreg_counter <= vreg_counter
            BY <3>1 DEF SelectedOk
        <3>3. Equal(requests, code, omit_frame_pointer, vreg_counter)
            BY <3>1, <3>2 DEF SelectedOk
        <3> QED BY <3>1, <3>3 DEF SelectedOk, KeptBy
    <2>2. CASE phase = "spilled"
        BY <2>2 DEF SpilledOk
    <2> QED BY <1>1, <2>1, <2>2
<1>4. AllocOk(f)
    BY <1>2, <1>3 DEF AllocOk
<1>5. PICK C : C = AllocatedCode(f)
    OBVIOUS
<1>6. /\ Equal(code, AllocatedCode(f), omit_frame_pointer, vreg_counter)
      /\ Len(FlattenSeq(code)) \in Nat /\ Len(FlattenSeq(AllocatedCode(f))) \in Nat
    BY <1>4, AllocEqual
<1>7. Equal(code, C, omit_frame_pointer, vreg_counter) /\ Len(FlattenSeq(C)) \in Nat
    BY <1>5, <1>6
<1>8. Equal(requests, code, omit_frame_pointer, vreg_counter) /\ Len(FlattenSeq(requests)) \in Nat
    BY <1>3 DEF KeptBy
<1>9. Equal(requests, C, omit_frame_pointer, vreg_counter)
    BY <1>6, <1>7, <1>8, EqualTrans
<1>10. KeptBy(requests, C, vreg_counter, omit_frame_pointer)
    BY <1>7, <1>8, <1>9 DEF KeptBy
<1> QED BY <1>1, <1>2, <1>5, <1>10 DEF AllocatedOk

LEMMA NextKept == PhasesKept /\ [Next]_vars => PhasesKept'
<1> SUFFICES ASSUME PhasesKept, [Next]_vars PROVE PhasesKept'
    OBVIOUS
<1>0. Selects /\ Selected /\ SpilledOk /\ AllocatedOk
    BY DEF PhasesKept
<1>1. CASE UNCHANGED vars
    <2>1. /\ omit_frame_pointer' = omit_frame_pointer /\ code' = code /\ curr_block' = curr_block
          /\ vreg_counter' = vreg_counter /\ storage' = storage /\ phase' = phase
          /\ requests' = requests /\ defined' = defined
        BY <1>1 DEF vars
    <2>2. Selects'
        BY <1>0, <2>1 DEF Selects, Picked
    <2>3. Selected' /\ SpilledOk' /\ AllocatedOk'
        BY <1>0, <2>1 DEF Selected, SpilledOk, AllocatedOk
    <2> QED BY <2>2, <2>3 DEF PhasesKept
<1>2. CASE SelectAction
    <2>1. phase' = "select" /\ Selects'
        BY <1>0, <1>2, SelectActionPhase, SelectActionSelects
    <2> QED BY <2>1 DEF PhasesKept, Selected, SpilledOk, AllocatedOk
<1>3. CASE Return
    <2>1. phase' = "selected" /\ Selected'
        BY <1>0, <1>3, ReturnSelected DEF Return
    <2> QED BY <2>1 DEF PhasesKept, Selects, SpilledOk, AllocatedOk
<1>4. CASE \E v \in Named : Spill(v)
    <2>1. PICK v \in Named : Spill(v)
        BY <1>4
    <2>2. phase' = "spilled"
        BY <2>1 DEF Spill
    <2>3. /\ vreg_counter' \in Nat
          /\ CodeOk(code, vreg_counter, omit_frame_pointer)'
          /\ Equal(requests, code, omit_frame_pointer, vreg_counter)'
          /\ Len(FlattenSeq(requests))' \in Nat /\ Len(FlattenSeq(code))' \in Nat
        BY <1>0, <2>1, SpillKeeps
    <2>4. SpilledOk'
        BY <2>3 DEF SpilledOk, KeptBy
    <2> QED BY <2>2, <2>4 DEF PhasesKept, Selects, Selected, AllocatedOk
<1>5. CASE Allocate
    <2>1. phase' = "allocated" /\ AllocatedOk'
        BY <1>0, <1>5, AllocateKept DEF Allocate
    <2> QED BY <2>1 DEF PhasesKept, Selects, Selected, SpilledOk
<1> QED BY <1>1, <1>2, <1>3, <1>4, <1>5 DEF Next, SelectAction

(* The invariant implies the three properties. *)
LEMMA KeptMeans == PhasesKept => SelectionKeepsMeaning /\ SpillingKeepsMeaning /\ AllocationKeepsMeaning
<1> SUFFICES ASSUME PhasesKept PROVE SelectionKeepsMeaning /\ SpillingKeepsMeaning /\ AllocationKeepsMeaning
    OBVIOUS
<1>1. KeptBy(requests, code, vreg_counter, omit_frame_pointer) => KeepsMeaning
    BY KeepsIf DEF KeptBy
<1>2. SelectionKeepsMeaning
    <2> SUFFICES ASSUME phase = "selected" PROVE KeepsMeaning
        BY DEF SelectionKeepsMeaning
    <2>1. SelectedOk(requests, code, vreg_counter, omit_frame_pointer)
        BY DEF PhasesKept, Selected
    <2>2. vreg_counter \in Nat /\ vreg_counter <= vreg_counter
        BY <2>1 DEF SelectedOk
    <2>3. KeptBy(requests, code, vreg_counter, omit_frame_pointer)
        BY <2>1, <2>2 DEF SelectedOk, KeptBy
    <2> QED BY <1>1, <2>3
<1>3. SpillingKeepsMeaning
    BY <1>1 DEF SpillingKeepsMeaning, PhasesKept, SpilledOk
<1>4. AllocationKeepsMeaning
    BY <1>1 DEF AllocationKeepsMeaning, PhasesKept, AllocatedOk
<1> QED BY <1>2, <1>3, <1>4

(* What instruction selection makes of a body does what was asked for,     *)
(* whatever its instructions, slots, conditions and adjustments of the     *)
(* stack pointer: branches on an immediate that are decided while code is  *)
(* generated (gen_cond_br) go where they would have gone, and several      *)
(* additions to sp (gen_sp_adjust) add up to the one asked for.            *)
THEOREM SelectionIsCorrect == Spec => []SelectionKeepsMeaning
BY InitKept, NextKept, KeptMeans, PTL DEF Spec

(* Spilling any virtual register of selected code leaves what it does: a   *)
(* load before the instructions that report to use it and a store after    *)
(* those that report to define it are enough, on every path                *)
(* (gen_spill_load, gen_spill_store).                                      *)
THEOREM SpillingIsCorrect == Spec => []SpillingKeepsMeaning
BY InitKept, NextKept, KeptMeans, PTL DEF Spec

(* Any assignment of registers that keeps apart those that interfere, by   *)
(* what uses, defs, clobbers and succs report, leaves what the code does,  *)
(* whether a register was spilled before or not.                           *)
THEOREM AllocationIsCorrect == Spec => []AllocationKeepsMeaning
BY InitKept, NextKept, KeptMeans, PTL DEF Spec
=============================================================================
