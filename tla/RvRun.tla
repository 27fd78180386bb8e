-------------------------------- MODULE RvRun --------------------------------
(***************************************************************************)
(* What machine code does when it is run (external: the RISC-V ISA and its *)
(* calling convention), in symbols: a value is the term that computes it,  *)
(* and two pieces of code mean the same if they make the same calls,       *)
(* stores and branches with the same terms.  The operands of locations on  *)
(* the stack are resolved as adjust_offset will do it, through the frame   *)
(* or stack pointer, at the cost of the scratch register t0.               *)
(***************************************************************************)
EXTENDS RvInst, Sequences

Unknown == <<"unknown">>
Number(n) == <<"li", n>>
Sum2(v, w) == IF w = Number(0) THEN v ELSE <<"add", v, w>>

(* The state at the entry of code over the virtual registers V(0) ...      *)
(* V(n - 1): nothing is in the virtual registers.                          *)
Entry(pregs, n) ==
    [regs |-> [r \in pregs \cup {V(i) : i \in 0 .. (n - 1)} |->
                 IF IsVReg(r) THEN Unknown
                 ELSE IF r = zero THEN Number(0) ELSE <<"entry", r>>],
     mem |-> [a \in {} |-> Unknown],
     seen |-> <<>>,    \* the calls, stores and branches so far
     asked |-> 0,      \* how many branches depended on an unknown number
     pc |-> 1]

Address(m, loc, omit_frame_pointer) ==
    IF OnStack(loc) THEN <<"frame", m.regs[IF omit_frame_pointer THEN sp ELSE fp], loc>>
                    ELSE Sum2(m.regs[loc.base], Number(loc.offset))

Contents(m, a) == IF a \in DOMAIN m.mem THEN m.mem[a] ELSE <<"memory", a>>

Saw(m, event) == [m EXCEPT !.seen = Append(@, event)]

(* The difference of two values is zero if and only if they are equal. *)
Difference(v, w) == IF w = Number(0) THEN v ELSE <<"sub", v, w>>

(* A branch if v is not zero: by the value of a number, and by what oracle *)
(* says the next time if it is not known.                                  *)
Known(v) == v[1] = "li"

Branch(m, v, oracle, target) ==
    IF Known(v)
    THEN [m EXCEPT !.pc = IF v[2] # 0 THEN target ELSE @ + 1]
    ELSE [m EXCEPT !.pc = IF oracle[m.asked + 1] THEN target ELSE @ + 1,
                   !.asked = @ + 1,
                   !.seen = Append(@, <<"branch", v>>)]

(* One instruction that does not jump. *)
Effect(inst, m, omit_frame_pointer) ==
    LET Set(v) == [m EXCEPT !.regs[inst.rd] = v, !.pc = @ + 1]
        address == Address(m, inst.loc, omit_frame_pointer)
        (* adjust_offset may have to put the address into t0 first *)
        scratched == IF OnStack(inst.loc) THEN [m.regs EXCEPT ![t0] = Unknown] ELSE m.regs
    IN CASE inst.kind = "Li" -> Set(Number(inst.imm))
         [] inst.kind = "AluRRI" -> Set(Sum2(m.regs[inst.rs], Number(inst.imm)))
         [] inst.kind = "AluRRR" -> Set(Sum2(m.regs[inst.rs1], m.regs[inst.rs2]))
         [] inst.kind = "LoadAddr" ->
              [m EXCEPT !.regs = [scratched EXCEPT ![inst.rd] = address], !.pc = @ + 1]
         [] inst.kind = "Load" ->
              [m EXCEPT !.regs = [scratched EXCEPT ![inst.rd] = Contents(m, address)],
                        !.pc = @ + 1]
         [] inst.kind = "Store" ->
              LET v == scratched[inst.src]
                  stored == [m EXCEPT !.regs = scratched,
                                      !.mem = [a \in DOMAIN @ \cup {address} |->
                                                 IF a = address THEN v ELSE @[a]],
                                      !.pc = @ + 1]
              IN IF OnStack(inst.loc) THEN stored ELSE Saw(stored, <<"store", address, v>>)
         [] inst.kind = "Call" ->
              LET args == [r \in inst.arg_regs |-> m.regs[r]]
                  called == Saw(m, <<"call", args>>)
              IN [called EXCEPT
                    !.regs = [r \in DOMAIN @ |->
                                IF r \in RETURN_REGS THEN <<"result", Len(m.seen)>>
                                ELSE IF r \in CALLER_SAVED_REGS THEN Unknown ELSE @[r]],
                    !.pc = @ + 1]
=============================================================================
