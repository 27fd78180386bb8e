-------------------------------- MODULE Ast --------------------------------
(***************************************************************************)
(* Expressions, the symbol table, constant folding and the type checking   *)
(* of expressions (frontend/ast.rs).  Not modelled: Unary, which no rule   *)
(* of the grammar builds, and FuncCall.                                    *)
(***************************************************************************)
EXTENDS Comptime, Sequences

(* ExprKind and ty; ty is "none" until the expression has been checked.    *)
ConstE(val) == [kind |-> "Const", val |-> val, ty |-> val.ty]
LValE(ident) == [kind |-> "LVal", ident |-> ident, ty |-> "none"]
BinaryE(op, lhs, rhs) ==
    [kind |-> "Binary", op |-> op, lhs |-> lhs, rhs |-> rhs, ty |-> "none"]
NoExpr == [kind |-> "NoExpr", ty |-> "none"]
PanicE == [kind |-> "Panic", ty |-> "panic"]

(* Expr::coercion: an expression that has the type already is not wrapped. *)
Coercion(expr, to) ==
    IF expr.ty = to THEN expr ELSE [kind |-> "Coercion", of |-> expr, ty |-> to]

-----------------------------------------------------------------------------
(* SymbolTable: the scopes from the outermost to the innermost one.        *)

Symbol(ty, comptime, ir) == [ty |-> ty, comptime |-> comptime, ir |-> ir]
NoIr == [kind |-> "none", id |-> 0]
FromTy(ty) == Symbol(ty, No, NoIr)
NoSymbol == Symbol("none", No, NoIr)

EnterScope(table) == Append(table, [x \in {} |-> NoSymbol])

LeaveScope(table) == SubSeq(table, 1, Len(table) - 1)

(* A symbol replaces what its scope had under that name. *)
InsertUpper(table, ident, symbol, upper) ==
    [table EXCEPT ![Len(table) - upper] =
        [x \in DOMAIN @ \cup {ident} |-> IF x = ident THEN symbol ELSE @[x]]]
Insert(table, ident, symbol) == InsertUpper(table, ident, symbol, 0)

Holding(table, ident) == {i \in DOMAIN table : ident \in DOMAIN table[i]}
IsBound(table, ident) == Holding(table, ident) # {}

(* lookup searches from the innermost scope. *)
Lookup(table, ident) ==
    LET i == CHOOSE i \in Holding(table, ident) :
                \A j \in Holding(table, ident) : j <= i
    IN table[i][ident]

-----------------------------------------------------------------------------
(* Expr::try_fold: a value, No, or Panic.  The left operand comes first:   *)
(* what it is not folded for, or panics for, hides the right one.          *)
RECURSIVE TryFold(_, _)
TryFold(expr, table) ==
    CASE expr.kind = "Const" -> expr.val
      [] expr.kind = "LVal" ->
            IF IsBound(table, expr.ident) THEN Lookup(table, expr.ident).comptime
            ELSE Panic
      [] expr.kind = "Binary" ->
            LET lhs == TryFold(expr.lhs, table)
                rhs == TryFold(expr.rhs, table)
            IN CASE ~IsValue(lhs) -> lhs
                 [] ~IsValue(rhs) -> rhs
                 [] OTHER -> Fold(expr.op, lhs, rhs)
      [] expr.kind = "Coercion" ->
            LET val == TryFold(expr.of, table)
            IN IF IsValue(val) THEN Coerced(val, expr.ty) ELSE val

(* The end of Expr::type_check: a constant where there is one. *)
Folded(expr, table) ==
    LET val == TryFold(expr, table)
    IN CASE IsValue(val) -> ConstE(val)
         [] val = Panic -> PanicE
         [] OTHER -> expr

(* The operands of a binary expression have one type, or meet in int. *)
Meet(lhs, rhs) == lhs.ty = rhs.ty \/ {lhs.ty, rhs.ty} = {"bool", "int"}
Meeting(expr, other) ==
    IF expr.ty = "bool" /\ other.ty = "int" THEN Coercion(expr, "int") ELSE expr

(* The type of a binary expression is that of its left operand, whatever   *)
(* the operator.                                                           *)
BinaryType(op, lhs) == lhs.ty

(* Expr::type_check; expect is "none" for no expectation, or a type.  What *)
(* has a type already is left alone unless a type is expected.  An         *)
(* expression has one of these types, or that of the function it names; to *)
(* another than int and bool nothing is coerced.                           *)
RECURSIVE TypeCheck(_, _, _)
TypeCheck(expr, expect, table) ==
    LET typed ==
          CASE expr.kind = "Const" -> expr
            [] expr.kind = "LVal" ->
                  IF IsBound(table, expr.ident)
                  THEN [expr EXCEPT !.ty = Lookup(table, expr.ident).ty]
                  ELSE PanicE
            [] expr.kind = "Binary" ->
                  LET lhs == TypeCheck(expr.lhs, "none", table)
                      rhs == TypeCheck(expr.rhs, "none", table)
                      left == Meeting(lhs, rhs)
                  IN IF PanicE \in {lhs, rhs} \/ ~Meet(lhs, rhs) THEN PanicE
                     ELSE [BinaryE(expr.op, left, Meeting(rhs, lhs))
                             EXCEPT !.ty = BinaryType(expr.op, left)]
        coerced == expect \in {"int", "bool"}
        expected == IF coerced THEN [Coercion(typed, expect) EXCEPT !.ty = expect]
                    ELSE typed
    IN CASE expr.ty # "none" /\ expect = "none" -> expr
         [] typed = PanicE -> PanicE
         [] ~coerced /\ expect \notin {"none", typed.ty} -> PanicE
         [] OTHER -> Folded(expected, table)
=============================================================================
