------------------------------ MODULE FrontEnd ------------------------------
(***************************************************************************)
(* The front end: CompUnit::type_check walks the program and rewrites its  *)
(* expressions (frontend/ast.rs), then irgen walks what came out and       *)
(* builds the IR (frontend/irgen.rs).  Each pass has a symbol table of its *)
(* own; one step of a pass is one declaration, statement, function head or *)
(* end of a block.  Nothing in it branches: if and while stop at a todo,   *)
(* so that a function is its entry block and its return block.             *)
(* Bounds: every parameter is an int, and so has a slot; an expression may *)
(* name a function, but calls none, so that void is the type of results    *)
(* only.                                                                   *)
(***************************************************************************)
EXTENDS SysY, IrRun

CONSTANTS Items,    \* what the parser may find
          MaxItems  \* bound on the items of a program

ASSUME FrontEndAssumption == MaxItems \in Nat

VARIABLES phase,    \* "parse", "check", "gen", "done", or how it failed:
                    \* "rejected" (a panic of type_check), "arithmetic" (a
                    \* panic of ComptimeVal in irgen), "todo", "panicked"
          source,   \* history: the program as it was parsed
          ast,      \* the program, rewritten up to pos
          pos,      \* the item that is next
          symtable, \* SymbolTable::stack
          ret_ty,   \* SymbolTable::curr_ret_ty
          func,     \* the function under construction (curr_func)
          funcs,    \* the functions of the IR, with the item each is from
          globals   \* the globals of the IR

vars == <<phase, source, ast, pos, symtable, ret_ty, func, funcs, globals>>

NoFunc == [item |-> 0]
Item == ast[pos]
AtTop == Len(symtable) = 1
(* A function has a scope for its parameters and one for its body. *)
EndsFunc == Len(symtable) = 3

Init == /\ phase = "parse"
        /\ source = <<>> /\ ast = <<>> /\ pos = 1
        /\ symtable = <<>> /\ ret_ty = "none"
        /\ func = NoFunc /\ funcs = <<>> /\ globals = <<>>

-----------------------------------------------------------------------------
(* The parser (external): functions are not nested, what is open is closed. *)
Parse(item) ==
    LET program == Append(source, item)
        depth == Depth(source)
    IN /\ phase = "parse"
       /\ CASE item.kind \in {"const", "var"} -> TRUE
            [] item.kind = "func" -> depth = 0
            [] OTHER -> depth > 0
       /\ Len(program) + Depth(program) <= MaxItems
       /\ source' = program
       /\ UNCHANGED <<phase, ast, pos, symtable, ret_ty, func, funcs, globals>>

(* CompUnit::type_check begins. *)
Parsed ==
    /\ phase = "parse" /\ source # <<>> /\ Depth(source) = 0
    /\ phase' = "check"
    /\ ast' = source
    /\ symtable' = EnterScope(symtable)
    /\ UNCHANGED <<source, pos, ret_ty, func, funcs, globals>>

-----------------------------------------------------------------------------
(* type_check. *)

Checks(kind) == phase = "check" /\ pos <= Len(ast) /\ Item.kind = kind
KeepIr == UNCHANGED <<source, func, funcs, globals>>

(* The item is rewritten with expression init, and the table with it. *)
CheckedWith(init, table) ==
    IF init = PanicE
    THEN phase' = "rejected" /\ UNCHANGED <<ast, pos, symtable>>
    ELSE /\ ast' = [ast EXCEPT ![pos].init = init]
         /\ symtable' = table
         /\ pos' = pos + 1
         /\ UNCHANGED phase

(* ConstDecl::type_check. *)
CheckConst ==
    LET init == TypeCheck(Item.init, "int", symtable)
        folded == TryFold(init, symtable)
    IN /\ Checks("const")
       /\ IF init # PanicE /\ IsValue(folded)
          THEN CheckedWith(ConstE(folded),
                           Insert(symtable, Item.ident, Symbol("int", folded, NoIr)))
          ELSE CheckedWith(PanicE, symtable)
       /\ KeepIr /\ UNCHANGED ret_ty

(* The initialiser of a variable; without one, a todo!() panics.  Folding   *)
(* once more changes nothing.                                              *)
InitOf(item) == IF item.init = NoExpr THEN PanicE
                ELSE TypeCheck(item.init, "int", symtable)

(* Mutation of CheckVar: the initial value counts as known from then on. *)
CheckVarFolds ==
    LET init == InitOf(Item)
    IN /\ Checks("var")
       /\ CheckedWith(init, Insert(symtable, Item.ident,
                        Symbol("int", IF init.kind = "Const" THEN init.val ELSE No, NoIr)))
       /\ KeepIr /\ UNCHANGED ret_ty

(* VarDecl::type_check. *)
CheckVar ==
    /\ Checks("var")
    /\ CheckedWith(InitOf(Item), Insert(symtable, Item.ident, FromTy("int")))
    /\ KeepIr /\ UNCHANGED ret_ty

(* Stmt::type_check. *)
CheckAssign ==
    /\ Checks("assign")
    /\ CheckedWith(IF IsBound(symtable, Item.ident)
                   THEN TypeCheck(Item.init, Lookup(symtable, Item.ident).ty, symtable)
                   ELSE PanicE, symtable)
    /\ KeepIr /\ UNCHANGED ret_ty

CheckExpr ==
    /\ Checks("expr")
    /\ CheckedWith(TypeCheck(Item.init, "none", symtable), symtable)
    /\ KeepIr /\ UNCHANGED ret_ty

CheckReturn ==
    LET init == TypeCheck(Item.init, ret_ty, symtable)
    IN /\ Checks("return")
       /\ CheckedWith(CASE Item.init = NoExpr -> NoExpr
                        [] init = PanicE -> PanicE
                        [] OTHER -> Coercion(init, "int"), symtable)
       /\ KeepIr /\ UNCHANGED ret_ty

CheckBreak ==
    /\ Checks("break")
    /\ CheckedWith(NoExpr, symtable)
    /\ KeepIr /\ UNCHANGED ret_ty

(* Block::type_check enters and leaves a scope. *)
CheckEnter ==
    /\ Checks("enter")
    /\ CheckedWith(NoExpr, EnterScope(symtable))
    /\ KeepIr /\ UNCHANGED ret_ty

(* Mutation of CheckFunc: parameters go to the scope of the function. *)
CheckFuncLeaksParams ==
    LET named == FoldLeft(LAMBDA table, x : Insert(table, x, FromTy("int")),
                          symtable, Item.params)
    IN /\ Checks("func")
       /\ CheckedWith(NoExpr,
            EnterScope(EnterScope(Insert(named, Item.ident, FromTy(FuncTy(Item))))))
       /\ ret_ty' = Item.ret
       /\ KeepIr

(* Item::type_check of a function, up to its body's scope. *)
CheckFunc ==
    LET named == FoldLeft(LAMBDA table, x : Insert(table, x, FromTy("int")),
                          EnterScope(symtable), Item.params)
    IN /\ Checks("func")
       /\ CheckedWith(NoExpr,
            EnterScope(InsertUpper(named, Item.ident, FromTy(FuncTy(Item)), 1)))
       /\ ret_ty' = Item.ret
       /\ KeepIr

(* The end of a block, which may be the end of the function. *)
CheckLeave ==
    LET left == LeaveScope(symtable)
    IN /\ Checks("leave")
       /\ CheckedWith(NoExpr, IF EndsFunc THEN LeaveScope(left) ELSE left)
       /\ ret_ty' = IF EndsFunc THEN "none" ELSE ret_ty
       /\ KeepIr

(* type_check is done, irgen begins with a table of its own. *)
CheckedAll ==
    /\ phase = "check" /\ pos > Len(ast)
    /\ phase' = "gen"
    /\ pos' = 1
    /\ symtable' = EnterScope(<<>>)
    /\ UNCHANGED <<source, ast, ret_ty, func, funcs, globals>>

-----------------------------------------------------------------------------
(* IR: values, and instructions with their operands.  An instruction that  *)
(* yields a value has a number, by which its value is known.               *)
Const(val) == [kind |-> "const", val |-> val, ty |-> val.ty]
Reg(id, ty) == [kind |-> "reg", id |-> id, ty |-> ty]
Param(i) == [kind |-> "param", id |-> i, ty |-> "int"]
GlobalRef(name) == [kind |-> "global", name |-> name, ty |-> "ptr"]

Inst(op, id, args, ty) == [op |-> op, id |-> id, args |-> args, ty |-> ty]
Alloca(id, ty) == Inst("Alloca", id, <<>>, ty)
Load(id, slot, ty) == Inst("Load", id, <<slot>>, ty)
Store(val, slot) == Inst("Store", 0, <<val, slot>>, "void")
Br == Inst("Br", 0, <<>>, "void")
Ret(args) == Inst("Ret", 0, args, "void")

(* Mutation of BinaryInst: the operands of > are not swapped. *)
BinaryInstUnswapped(op, id, lhs, rhs) ==
    CASE op = "Gt" -> Inst("Lt", id, <<lhs, rhs>>, lhs.ty)
      [] op = "Ge" -> Inst("Le", id, <<rhs, lhs>>, lhs.ty)
      [] op = "LogicalAnd" -> Inst("And", id, <<lhs, rhs>>, lhs.ty)
      [] op = "LogicalOr" -> Inst("Or", id, <<lhs, rhs>>, lhs.ty)
      [] OTHER -> Inst(op, id, <<lhs, rhs>>, lhs.ty)

(* Inst::add and the others: the conditions are slt, sle, eq and ne, and   *)
(* the logical operators are bitwise ones.  The type is that of lhs.       *)
BinaryInst(op, id, lhs, rhs) ==
    CASE op = "Gt" -> Inst("Lt", id, <<rhs, lhs>>, lhs.ty)
      [] op = "Ge" -> Inst("Le", id, <<rhs, lhs>>, lhs.ty)
      [] op = "LogicalAnd" -> Inst("And", id, <<lhs, rhs>>, lhs.ty)
      [] op = "LogicalOr" -> Inst("Or", id, <<lhs, rhs>>, lhs.ty)
      [] OTHER -> Inst(op, id, <<lhs, rhs>>, lhs.ty)

(* gen_local_expr: the instructions it pushes to the current block, the    *)
(* value, the next free number, and how it failed, if it did.              *)
Gen(code, val, next, fail) ==
    [code |-> code, val |-> val, next |-> next, fail |-> fail]
GenFails(how) == Gen(<<>>, Const(No), 1, how)

RECURSIVE GenExpr(_, _, _)
GenExpr(expr, table, next) ==
    CASE expr.kind = "Const" -> Gen(<<>>, Const(expr.val), next, "")
      [] expr.kind = "LVal" ->
            IF ~IsBound(table, expr.ident) THEN GenFails("panicked")
            ELSE LET entry == Lookup(table, expr.ident) IN
                 IF entry.ir = NoIr THEN GenFails("panicked")
                 ELSE Gen(<<Load(next, entry.ir, entry.ty)>>,
                          Reg(next, entry.ty), next + 1, "")
      [] expr.kind = "Binary" ->
            LET lhs == GenExpr(expr.lhs, table, next)
                rhs == GenExpr(expr.rhs, table, lhs.next)
            IN CASE lhs.fail # "" -> lhs
                 [] rhs.fail # "" -> rhs
                 [] OTHER -> Gen(lhs.code \o rhs.code \o
                               <<BinaryInst(expr.op, rhs.next, lhs.val, rhs.val)>>,
                               Reg(rhs.next, lhs.val.ty), rhs.next + 1, "")
      [] expr.kind = "Coercion" -> GenFails("todo")

-----------------------------------------------------------------------------
(* irgen. *)

Gens(kind) == phase = "gen" /\ pos <= Len(ast) /\ Item.kind = kind
KeepAst == UNCHANGED <<source, ast, ret_ty>>

Fail(how) == phase' = how /\ UNCHANGED <<pos, symtable, func>>

(* The function goes on as f, with that table. *)
GenWith(f, table) ==
    /\ func' = f
    /\ symtable' = table
    /\ pos' = pos + 1
    /\ UNCHANGED phase

(* Mutation of GenGlobal: nothing is known of a global afterwards. *)
GenGlobalUnknown ==
    LET comptime == TryFold(Item.init, symtable)
        name == <<Item.kind, Item.ident>>
    IN /\ phase = "gen" /\ pos <= Len(ast) /\ AtTop
       /\ Item.kind \in {"const", "var"}
       /\ IF IsValue(comptime)
          THEN /\ globals' = (name :> comptime) @@ globals
               /\ GenWith(func, Insert(symtable, Item.ident,
                              Symbol(Item.init.ty, No, GlobalRef(name))))
          ELSE /\ Fail(IF comptime = No THEN "panicked" ELSE "arithmetic")
               /\ UNCHANGED globals
       /\ KeepAst /\ UNCHANGED funcs

(* A declaration at the top: a constant initializer is expected, which may *)
(* name globals that are no constants, for all of them are known.          *)
GenGlobal ==
    LET comptime == TryFold(Item.init, symtable)
        name == <<Item.kind, Item.ident>>
    IN /\ phase = "gen" /\ pos <= Len(ast) /\ AtTop
       /\ Item.kind \in {"const", "var"}
       /\ IF IsValue(comptime)
          THEN /\ globals' = (name :> comptime) @@ globals
               /\ GenWith(func, Insert(symtable, Item.ident,
                              Symbol(Item.init.ty, comptime, GlobalRef(name))))
          ELSE /\ Fail(IF comptime = No THEN "panicked" ELSE "arithmetic")
               /\ UNCHANGED globals
       /\ KeepAst /\ UNCHANGED funcs

(* A declaration in a function: its slot goes to the front of the entry    *)
(* block and is in scope in its own initialiser.                           *)
GenLocal ==
    LET slot == Reg(func.next, "ptr")
        comptime == IF Item.kind = "const" THEN TryFold(Item.init, symtable) ELSE No
        table == Insert(symtable, Item.ident, Symbol(Item.init.ty, comptime, slot))
        gen == GenExpr(Item.init, table, func.next + 1)
    IN /\ phase = "gen" /\ pos <= Len(ast) /\ ~AtTop
       /\ Item.kind \in {"const", "var"}
       /\ IF gen.fail # "" THEN Fail(gen.fail)
          ELSE GenWith([func EXCEPT
                          !.next = gen.next,
                          !.entry = <<Alloca(slot.id, Item.init.ty)>> \o @
                                      \o gen.code \o <<Store(gen.val, slot)>>], table)
       /\ KeepAst /\ UNCHANGED <<funcs, globals>>

GenAssign ==
    LET gen == GenExpr(Item.init, symtable, func.next)
    IN /\ Gens("assign")
       /\ IF ~IsBound(symtable, Item.ident) THEN Fail("panicked")
          ELSE IF Lookup(symtable, Item.ident).ir = NoIr THEN Fail("panicked")
          ELSE IF gen.fail # "" THEN Fail(gen.fail)
          ELSE GenWith([func EXCEPT
                          !.next = gen.next,
                          !.entry = @ \o gen.code \o
                             <<Store(gen.val, Lookup(symtable, Item.ident).ir)>>], symtable)
       /\ KeepAst /\ UNCHANGED <<funcs, globals>>

GenExprStmt ==
    LET gen == GenExpr(Item.init, symtable, func.next)
    IN /\ Gens("expr")
       /\ IF gen.fail # "" THEN Fail(gen.fail)
          ELSE GenWith([func EXCEPT !.next = gen.next, !.entry = @ \o gen.code], symtable)
       /\ KeepAst /\ UNCHANGED <<funcs, globals>>

GenReturn ==
    LET gen == GenExpr(Item.init, symtable, func.next)
    IN /\ Gens("return")
       /\ IF Item.init = NoExpr
          THEN GenWith([func EXCEPT !.entry = Append(@, Br)], symtable)
          ELSE IF gen.fail # "" THEN Fail(gen.fail)
          ELSE GenWith([func EXCEPT
                          !.next = gen.next,
                          !.entry = @ \o gen.code \o
                                      <<Store(gen.val, func.ret_slot), Br>>], symtable)
       /\ KeepAst /\ UNCHANGED <<funcs, globals>>

GenBreak ==
    /\ Gens("break")
    /\ Fail("todo")
    /\ KeepAst /\ UNCHANGED <<funcs, globals>>

GenEnter ==
    /\ Gens("enter")
    /\ GenWith(func, EnterScope(symtable))
    /\ KeepAst /\ UNCHANGED <<funcs, globals>>

(* The head of a function.  A slot is made for the value of each parameter *)
(* and takes the parameter's place in the table, then one for the result.  *)
GenFunc ==
    LET n == Len(Item.params)
        named == FoldLeft(LAMBDA table, i : Insert(table, Item.params[i],
                                              Symbol("int", No, Param(i))),
                          InsertUpper(EnterScope(symtable), Item.ident,
                                      FromTy(FuncTy(Item)), 1),
                          [i \in 1..n |-> i])
        Spill(st, i) ==
            LET x == Item.params[i]
                slot == Reg(i, "ptr")
            IN [entry |-> <<Alloca(i, "int")>> \o st.entry
                             \o <<Store(Lookup(st.table, x).ir, slot)>>,
                table |-> Insert(st.table, x, Symbol("int", No, slot))]
        spilled == FoldLeft(Spill, [entry |-> <<>>, table |-> named], [i \in 1..n |-> i])
        void == Item.ret = "void"
    IN /\ Gens("func")
       /\ GenWith([item |-> pos, next |-> n + 2,
                   ret_slot |-> IF void THEN NoIr ELSE Reg(n + 1, "ptr"),
                   entry |-> (IF void THEN <<>> ELSE <<Alloca(n + 1, Item.ret)>>)
                               \o spilled.entry],
                  EnterScope(spilled.table))
       /\ KeepAst /\ UNCHANGED <<funcs, globals>>

(* The block that returns. *)
RetBlock ==
    IF func.ret_slot = NoIr THEN <<Ret(<<>>)>>
    ELSE <<Load(func.next, func.ret_slot, "int"), Ret(<<Reg(func.next, "int")>>)>>

GenLeave ==
    LET left == LeaveScope(symtable)
    IN /\ Gens("leave")
       /\ IF EndsFunc
          THEN /\ GenWith(NoFunc, LeaveScope(left))
               /\ funcs' = Append(funcs, [item |-> func.item, entry |-> func.entry,
                                          exit |-> RetBlock])
          ELSE GenWith(func, left) /\ UNCHANGED funcs
       /\ KeepAst /\ UNCHANGED globals

GenAll ==
    /\ phase = "gen" /\ pos > Len(ast)
    /\ phase' = "done"
    /\ symtable' = LeaveScope(symtable)
    /\ KeepAst /\ UNCHANGED <<pos, func, funcs, globals>>

Check == \/ CheckConst \/ CheckVar \/ CheckAssign \/ CheckExpr \/ CheckReturn
         \/ CheckBreak \/ CheckEnter \/ CheckFunc \/ CheckLeave \/ CheckedAll
Generate == \/ GenGlobal \/ GenLocal \/ GenAssign \/ GenExprStmt \/ GenReturn
            \/ GenBreak \/ GenEnter \/ GenFunc \/ GenLeave \/ GenAll

Next == (\E item \in Items : Parse(item)) \/ Parsed \/ Check \/ Generate

Spec == Init /\ [][Next]_vars

-----------------------------------------------------------------------------
RECURSIVE Parts(_)
Parts(expr) ==
    CASE expr.kind = "Binary" -> {expr} \cup Parts(expr.lhs) \cup Parts(expr.rhs)
      [] expr.kind = "Coercion" -> {expr} \cup Parts(expr.of)
      [] OTHER -> {expr}
AllParts == UNION {Parts(ast[i].init) : i \in DOMAIN ast}
AllConstants == {expr.val : expr \in {e \in AllParts : e.kind = "Const"}}
AllOps == {expr.op : expr \in {e \in AllParts : e.kind = "Binary"}}

Phases == {"parse", "check", "gen", "done", "rejected", "arithmetic", "todo", "panicked"}

TypeOK ==
    /\ phase \in Phases
    /\ pos \in 1..(MaxItems + 1)
    /\ Len(source) <= MaxItems
    /\ ret_ty \in {"none", "int", "void"}
    /\ \A v \in AllConstants : IsValue(v) /\ InRange(v.n)
    /\ \A name \in DOMAIN globals : IsValue(globals[name])
    /\ \A k \in DOMAIN funcs : funcs[k].item \in Funcs(source)

(* Once a program is compiled in which type checking has left no bools,    *)
(* neither a constant nor an operator that yields one, each of its         *)
(* functions returns what C says it returns, for every argument, and       *)
(* leaves in the globals what C says, wherever C says something.  Type     *)
(* checking, folding, scopes and generation have to agree for it: a name   *)
(* that is folded by one pass, stored by the other or looked up in another *)
(* scope breaks it, and so does an operand of another type than LLVM asks  *)
(* for.  The other programs are left out: see Coerces, ComparesMeaning and *)
(* LogicalAndMeansAnd.                                                     *)
IntConstants == \A v \in AllConstants : v.ty = "int"
ArgsOf(item) == [DOMAIN item.params -> MinInt..MaxInt]
Agrees(f, args) ==
    LET meaning == Meaning(source, f.item, args)
        run == Execute(f, args, globals)
    IN meaning.status = "undef" \/
       /\ source[f.item].ret = "int" => run.value = IntVal(meaning.value)
       /\ \A j \in Before(source, f.item) :
             run.globals[<<source[j].kind, source[j].ident>>] =
                IntVal(meaning.store[meaning.scopes[1][source[j].ident]])
ReturnsMeaning ==
    phase = "done" /\ IntConstants /\ AllOps \subseteq ArithOps =>
        \A k \in DOMAIN funcs :
           \A args \in ArgsOf(source[funcs[k].item]) : Agrees(funcs[k], args)

(* The IR of a comparison is no LLVM: its instruction has the type of what *)
(* it compares, int, and its i1 is used as one.  With that i1 widened to   *)
(* an int, which is all it lacks, the same holds of programs with          *)
(* comparisons: that > and >= swap their operands is made up for.          *)
Widened(inst) ==
    IF inst.op \in CompareOps /\ inst.ty = "int"
    THEN <<[inst EXCEPT !.id = -inst.id],
           Inst("Zext", inst.id, <<Reg(-inst.id, "bool")>>, "int")>>
    ELSE <<inst>>
WidenedFunc(f) ==
    [f EXCEPT !.entry = FlattenSeq([i \in DOMAIN @ |-> Widened(@[i])])]
ComparesMeaning ==
    phase = "done" /\ IntConstants /\ AllOps \cap CompareOps # {}
                   /\ AllOps \cap LogicalOps = {} =>
        \A k \in DOMAIN funcs :
           \A args \in ArgsOf(source[funcs[k].item]) :
              Agrees(WidenedFunc(funcs[k]), args)

(* type_check lets a name pass only where it is declared, in C's sense: by *)
(* a declaration before it in a block that is still open, or as a function *)
(* before it.                                                              *)
OnlyDeclaredNames ==
    phase \in {"gen", "done", "todo", "panicked", "arithmetic"} =>
        \A i \in DOMAIN source : NamesDeclared(source, i)

(* Only one thing that type_check accepts makes a lookup of irgen fail, or *)
(* an initialiser turn out not to be constant: the name of a function in   *)
(* the place of a variable, which has a type but no value.  Every other    *)
(* name is found, although irgen builds its symbol table anew and in       *)
(* another order.                                                          *)
CheckSuffices == phase = "panicked" => NamesFunction(source, pos)

(* "If `expect` is `Some`, the expression is expected to be coerced to the *)
(* given type": an initialiser of a variable of type int has that type.    *)
Coerces ==
    phase \notin {"parse", "check", "rejected"} =>
        \A i \in DOMAIN ast :
           ast[i].kind \in {"const", "var"} => ast[i].init.ty = "int"

(* "Compute the logical AND": what a function returns that returns the     *)
(* conjunction of its parameters.                                          *)
LogicalAndMeansAnd ==
    phase = "done" =>
      \A k \in DOMAIN funcs :
        LET head == source[funcs[k].item]
            body == source[funcs[k].item + 1]
        IN head.params = <<"a", "b">>
             /\ body = Stmt("return", BinaryE("LogicalAnd", LValE("a"), LValE("b")))
           => \A args \in ArgsOf(head) :
                 Execute(funcs[k], args, globals).value
                    = IntVal(Truth(Logical("LogicalAnd", args[1], args[2])))

=============================================================================
