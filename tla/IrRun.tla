-------------------------------- MODULE IrRun --------------------------------
(***************************************************************************)
(* What the IR of a function means when it is run: LLVM's meaning, for the *)
(* instructions that irgen builds.  Nothing under src/ runs IR; this is    *)
(* external.  A block that does not end in a terminator goes on in the     *)
(* next one.  IR whose operands do not have the types of their             *)
(* instructions is none to LLVM, and computes Garbage here.                *)
(***************************************************************************)
EXTENDS Comptime, SequencesExt, Bitwise

(* What memory holds that nothing was stored to, or that was stored with   *)
(* another type than it is loaded with; and whatever is computed from it.  *)
Garbage == [ty |-> "garbage", n |-> 0]
Slot(id) == [ty |-> "slot", n |-> id]
Global(name) == [ty |-> "global", n |-> name]

BitOp(op, a, b) ==
    LET x == a % (2 ^ Width)
        y == b % (2 ^ Width)
    IN Wrapped(IF op = "And" THEN x & y ELSE x | y)

(* The arithmetic of two operands of type ty; a comparison yields an i1,   *)
(* whatever it compares.                                                   *)
Computed(op, ty, a, b) ==
    CASE op \in {"Add", "Sub", "Mul"} ->
            IntVal(Wrapped(CASE op = "Add" -> a + b [] op = "Sub" -> a - b
                             [] op = "Mul" -> a * b))
      [] op \in {"Div", "Mod"} ->
            IF Undivided(a, b) THEN Garbage
            ELSE IntVal(IF op = "Div" THEN Quotient(a, b) ELSE Remainder(a, b))
      [] op \in {"And", "Or"} -> [ty |-> ty, n |-> BitOp(op, a, b)]
      [] op \in CompareOps -> BoolVal(Compare(op, a, b))

Start(args, globals) ==
    [regs |-> <<>>, slots |-> <<>>, globals |-> globals, args |-> args,
     block |-> "entry", value |-> Garbage]

ValueOf(st, v) ==
    CASE v.kind = "const" -> v.val
      [] v.kind = "param" -> IntVal(st.args[v.id])
      [] v.kind = "global" -> Global(v.name)
      [] v.kind = "reg" -> IF v.id \in DOMAIN st.regs THEN st.regs[v.id] ELSE Garbage

Step(st, inst) ==
    LET Arg(k) == ValueOf(st, inst.args[k])
        Yields(v) == [st EXCEPT !.regs = (inst.id :> v) @@ @]
    IN CASE inst.op = "Alloca" ->
              [Yields(Slot(inst.id)) EXCEPT !.slots = (inst.id :> Garbage) @@ @]
         [] inst.op = "Load" ->
              LET v == CASE Arg(1).ty = "slot" -> st.slots[Arg(1).n]
                         [] Arg(1).ty = "global" -> st.globals[Arg(1).n]
                         [] OTHER -> Garbage
              IN Yields(IF v.ty = inst.ty THEN v ELSE Garbage)
         [] inst.op = "Store" ->
              CASE Arg(2).ty = "slot" -> [st EXCEPT !.slots[Arg(2).n] = Arg(1)]
                [] Arg(2).ty = "global" -> [st EXCEPT !.globals[Arg(2).n] = Arg(1)]
                [] OTHER -> st
         [] inst.op = "Zext" -> Yields([ty |-> inst.ty, n |-> Arg(1).n])
         [] inst.op = "Br" -> [st EXCEPT !.block = "exit"]
         [] inst.op = "Ret" ->
              [st EXCEPT !.block = "none",
                         !.value = IF inst.args = <<>> THEN @ ELSE Arg(1)]
         [] OTHER ->
              Yields(IF {Arg(1).ty, Arg(2).ty} = {inst.ty}
                     THEN Computed(inst.op, inst.ty, Arg(1).n, Arg(2).n) ELSE Garbage)

(* The state in which a run of function f ends. *)
Execute(f, args, globals) ==
    LET entry == FoldLeft(LAMBDA st, inst :
                            IF st.block = "entry" THEN Step(st, inst) ELSE st,
                          Start(args, globals), f.entry)
    IN FoldLeft(Step, entry, f.exit)
=============================================================================
