----------------------------- MODULE MCFrontEnd -----------------------------
(* Instances of FrontEnd for TLC. *)
EXTENDS FrontEnd

N(n) == ConstE(IntVal(n))
V(x) == LValE(x)

(* const int a = 2; int a = (1 < 2) - 2; int b = a * a; int b; int b = f;  *)
Declarations == {
    Decl("const", "a", N(2)),
    Decl("var", "a", BinaryE("Sub", BinaryE("Lt", N(1), N(2)), N(2))),
    Decl("var", "b", BinaryE("Mul", V("a"), V("a"))),
    Decl("var", "b", NoExpr),
    Decl("var", "b", V("f"))}
(* a = b + a; f = f; f; return; return a - b % a; return a > b % a;        *)
Statements == {
    Decl("assign", "a", BinaryE("Add", V("b"), V("a"))),
    Decl("assign", "f", V("f")),
    Stmt("expr", V("f")),
    Stmt("return", NoExpr),
    Stmt("return", BinaryE("Sub", V("a"), BinaryE("Mod", V("b"), V("a")))),
    Stmt("return", BinaryE("Gt", V("a"), BinaryE("Mod", V("b"), V("a"))))}
Braces == {Stmt("enter", NoExpr), Stmt("leave", NoExpr)}
Functions == {Func("f", <<"b">>, "int"), Func("g", <<>>, "void")}

SomeItems == Declarations \cup Statements \cup Braces \cup Functions
               \cup {Stmt("break", NoExpr)}

(* int a = 1 < 2; int f(int a, int b); return a && b; return a;            *)
FewItems == {
    Decl("var", "a", BinaryE("Lt", N(1), N(2))),
    Func("f", <<"a", "b">>, "int"),
    Stmt("return", BinaryE("LogicalAnd", V("a"), V("b"))),
    Stmt("return", V("a")),
    Stmt("leave", NoExpr)}
=============================================================================
