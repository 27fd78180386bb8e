------------------------------ MODULE Comptime ------------------------------
(***************************************************************************)
(* Values known at compile time and the arithmetic on them                 *)
(* (frontend/ast.rs: ComptimeVal), for integers of Width bits.  The code   *)
(* wraps a value in an Option and panics where Rust's arithmetic does: No  *)
(* is its None, and Panic stands for a panic on the way to the value.      *)
(***************************************************************************)
EXTENDS Integers

CONSTANTS Width,           \* the width of int; 32 in the code
          OverflowChecks   \* is the compiler built with overflow checks?

ASSUME ComptimeAssumption == Width \in Nat \ {0} /\ OverflowChecks \in BOOLEAN

MaxInt == 2 ^ (Width - 1) - 1
MinInt == -(2 ^ (Width - 1))
InRange(x) == MinInt <= x /\ x <= MaxInt
Wrapped(x) == ((x - MinInt) % (2 ^ Width)) + MinInt

(* A value is a type and a number; a bool is 0 or 1. *)
IntVal(n) == [ty |-> "int", n |-> n]
BoolVal(b) == [ty |-> "bool", n |-> IF b THEN 1 ELSE 0]
No == [ty |-> "none", n |-> 0]
Panic == [ty |-> "panic", n |-> 0]
IsValue(v) == v.ty \in {"int", "bool"}

(* Division truncates towards zero; the remainder has the sign of a. *)
Abs(x) == IF x < 0 THEN -x ELSE x
Quotient(a, b) ==
    IF (a < 0) = (b < 0) THEN Abs(a) \div Abs(b) ELSE -(Abs(a) \div Abs(b))
Remainder(a, b) == a - b * Quotient(a, b)
Undivided(a, b) == b = 0 \/ (a = MinInt /\ b = -1)

(* Mutation of Checked: the width is forgotten. *)
CheckedUnbounded(x) == IntVal(x)

Checked(x) == IF OverflowChecks /\ ~InRange(x) THEN Panic ELSE IntVal(Wrapped(x))

ArithOps == {"Add", "Sub", "Mul", "Div", "Mod"}
CompareOps == {"Lt", "Gt", "Le", "Ge", "Eq", "Ne"}
LogicalOps == {"LogicalAnd", "LogicalOr"}

(* impl Add, Sub, Mul, Div and Rem, of which bools are 0 and 1. *)
Arith(op, a, b) ==
    CASE op = "Add" -> Checked(a + b)
      [] op = "Sub" -> Checked(a - b)
      [] op = "Mul" -> Checked(a * b)
      [] op = "Div" -> IF Undivided(a, b) THEN Panic ELSE IntVal(Quotient(a, b))
      [] op = "Mod" -> IF Undivided(a, b) THEN Panic ELSE IntVal(Remainder(a, b))

(* impl PartialOrd and PartialEq. *)
Compare(op, a, b) ==
    CASE op = "Lt" -> a < b
      [] op = "Gt" -> a > b
      [] op = "Le" -> a <= b
      [] op = "Ge" -> a >= b
      [] op = "Eq" -> a = b
      [] op = "Ne" -> a # b

(* logical_and and logical_or. *)
Logical(op, a, b) ==
    CASE op = "LogicalAnd" -> a # 0 /\ b # 0
      [] op = "LogicalOr" -> a # 0 \/ b # 0

(* Two values under a binary operator. *)
Fold(op, lhs, rhs) ==
    CASE op \in ArithOps -> Arith(op, lhs.n, rhs.n)
      [] op \in CompareOps -> BoolVal(Compare(op, lhs.n, rhs.n))
      [] op \in LogicalOps -> BoolVal(Logical(op, lhs.n, rhs.n))

(* A value under a coercion to type ty. *)
Coerced(val, ty) == IF ty = "bool" THEN BoolVal(val.n # 0) ELSE IntVal(val.n)
=============================================================================
