-------------------------------- MODULE SysY --------------------------------
(***************************************************************************)
(* What a SysY program means, as far as the front end supports it: a       *)
(* program is the sequence of its items as they stand in the text, blocks  *)
(* and function bodies delimited by "enter", "func" and "leave".  This is  *)
(* C's meaning, stated without reference to how the front end proceeds: a  *)
(* store, scopes that map names to places in it, and Undef for everything  *)
(* that C leaves undefined or forbids.                                     *)
(***************************************************************************)
EXTENDS Ast, SequencesExt

Undef == 2 ^ Width

Decl(kind, ident, init) == [kind |-> kind, ident |-> ident, init |-> init]
Stmt(kind, init) == [kind |-> kind, ident |-> "", init |-> init]
Func(ident, params, ret) ==
    [kind |-> "func", ident |-> ident, init |-> NoExpr,
     params |-> params, ret |-> ret]
(* The type of a function: its parameters, all of them ints, and its       *)
(* result.                                                                 *)
FuncTy(item) == "func" \o ToString(Len(item.params)) \o item.ret

Opens(item) == item.kind \in {"func", "enter"}
Depth(items) ==
    FoldLeft(LAMBDA n, item : CASE Opens(item) -> n + 1
                                [] item.kind = "leave" -> n - 1
                                [] OTHER -> n, 0, items)
DepthAt(items, i) == Depth(SubSeq(items, 1, i))
Funcs(items) == {i \in DOMAIN items : items[i].kind = "func"}

RECURSIVE Names(_)
Names(expr) == CASE expr.kind = "LVal" -> {expr.ident}
                 [] expr.kind = "Binary" -> Names(expr.lhs) \cup Names(expr.rhs)
                 [] OTHER -> {}

(* The names that item i uses stand for variables declared before it, in   *)
(* blocks that are still open where it stands, or for functions.           *)
Uses(item) ==
    Names(item.init) \cup (IF item.kind = "assign" THEN {item.ident} ELSE {})
Declares(item, x) ==
    \/ item.kind \in {"const", "var"} /\ item.ident = x
    \/ item.kind = "func" /\ x \in Range(item.params)
InScope(items, j, i) == \A k \in j..i : DepthAt(items, k) >= DepthAt(items, j)
NamesDeclared(items, i) ==
    \A x \in Uses(items[i]) :
      \E j \in 1..(i - 1) :
        \/ Declares(items[j], x) /\ InScope(items, j, i)
        \/ j \in Funcs(items) /\ items[j].ident = x

(* Item i uses a name that stands for a function there: no variable of     *)
(* that name has been declared since whose scope it is in.                 *)
NamesFunction(items, i) ==
    \E x \in Uses(items[i]), f \in Funcs(items) \cap 1..(i - 1) :
      /\ items[f].ident = x
      /\ ~ \E j \in f..(i - 1) : Declares(items[j], x) /\ InScope(items, j, i)

-----------------------------------------------------------------------------
(* The state of a run.  A place is an index of the store; value is what is *)
(* returned.                                                               *)
Begin == [scopes |-> << <<>> >>, constant |-> {}, store |-> <<>>,
          status |-> "run", value |-> Undef]

Visible(st, x) == {i \in DOMAIN st.scopes : x \in DOMAIN st.scopes[i]}
Place(st, x) == st.scopes[CHOOSE i \in Visible(st, x) :
                            \A j \in Visible(st, x) : j <= i][x]
Bound(st, x, value) ==
    [st EXCEPT !.store = Append(@, value),
               !.scopes[Len(st.scopes)] = (x :> (Len(st.store) + 1)) @@ @]

Defined(x) == IF InRange(x) THEN x ELSE Undef
Truth(b) == IF b THEN 1 ELSE 0

Operate(op, a, b) ==
    CASE op = "Add" -> Defined(a + b)
      [] op = "Sub" -> Defined(a - b)
      [] op = "Mul" -> Defined(a * b)
      [] op = "Div" -> IF Undivided(a, b) THEN Undef ELSE Quotient(a, b)
      [] op = "Mod" -> IF Undivided(a, b) THEN Undef ELSE Remainder(a, b)
      [] op \in CompareOps -> Truth(Compare(op, a, b))
      [] op = "LogicalAnd" -> Truth(b # 0)
      [] op = "LogicalOr" -> Truth(b # 0)

RECURSIVE Eval(_, _)
Eval(expr, st) ==
    CASE expr.kind = "Const" -> expr.val.n
      [] expr.kind = "LVal" ->
            IF Visible(st, expr.ident) = {} THEN Undef
            ELSE st.store[Place(st, expr.ident)]
      [] expr.kind = "Binary" ->
            LET a == Eval(expr.lhs, st)
                b == Eval(expr.rhs, st)
            IN CASE a = Undef -> Undef
                 [] expr.op = "LogicalAnd" /\ a = 0 -> 0
                 [] expr.op = "LogicalOr" /\ a # 0 -> 1
                 [] b = Undef -> Undef
                 [] OTHER -> Operate(expr.op, a, b)

Broken(st) == [st EXCEPT !.status = "undef"]

(* A declared name is in scope in its own initialiser, without a value. *)
Declare(st, item) ==
    LET own == Bound(st, item.ident, Undef)
        value == Eval(item.init, own)
    IN IF item.ident \in DOMAIN Last(st.scopes) \/ value = Undef THEN Broken(st)
       ELSE [own EXCEPT !.store[Len(own.store)] = value,
                        !.constant = IF item.kind = "const"
                                     THEN @ \cup {Len(own.store)} ELSE @]

Assign(st, item) ==
    LET value == Eval(item.init, st)
    IN IF \/ Visible(st, item.ident) = {}
          \/ Place(st, item.ident) \in st.constant
          \/ value = Undef
       THEN Broken(st)
       ELSE [st EXCEPT !.store[Place(st, item.ident)] = value]

Run(st, item) ==
    CASE st.status # "run" -> st
      [] item.kind \in {"const", "var"} -> Declare(st, item)
      [] item.kind = "assign" -> Assign(st, item)
      [] item.kind = "expr" ->
            IF Eval(item.init, st) = Undef THEN Broken(st) ELSE st
      [] item.kind = "return" ->
            [st EXCEPT !.status = "return",
                       !.value = IF item.init = NoExpr THEN Undef
                                 ELSE Eval(item.init, st)]
      [] item.kind = "enter" -> [st EXCEPT !.scopes = Append(@, <<>>)]
      [] item.kind = "leave" -> [st EXCEPT !.scopes = Front(@)]
      [] item.kind = "break" -> Broken(st)

(* The state in which the function at index f of items starts: the         *)
(* declarations at the top before it, then its arguments.                  *)
Before(items, f) ==
    {j \in 1..(f - 1) : items[j].kind \in {"const", "var"} /\ DepthAt(items, j) = 0}
Globals(items, f) ==
    FoldLeft(LAMBDA st, j : Run(st, items[j]), Begin,
             SetToSortSeq(Before(items, f), LAMBDA i, j : i < j))
Entered(items, f, args) ==
    LET st == [Globals(items, f) EXCEPT !.scopes = Append(@, <<>>)]
        top == {j \in DOMAIN items : DepthAt(items, j) = 0 \/ j \in Funcs(items)}
        named == {j \in top : items[j].kind \in {"const", "var", "func"}}
    IN IF /\ IsInjective(items[f].params)
          /\ \A i, j \in named : items[i].ident = items[j].ident => i = j
       THEN FoldLeft(LAMBDA s, i : Bound(s, items[f].params[i], args[i]), st,
                     [i \in DOMAIN items[f].params |-> i])
       ELSE Broken(st)
End(items, f) ==
    CHOOSE e \in (f + 1)..Len(items) :
      /\ DepthAt(items, e) = 0
      /\ \A k \in f..(e - 1) : DepthAt(items, k) > 0

(* The state in which that function ends.  One of type int must return a   *)
(* value; one of type void may reach its end.                              *)
Meaning(items, f, args) ==
    LET st == FoldLeft(Run, Entered(items, f, args),
                       SubSeq(items, f + 1, End(items, f) - 1))
        void == items[f].ret = "void"
    IN IF st.status = "undef" \/ (~void /\ st.value = Undef) THEN Broken(st)
       ELSE st
=============================================================================
