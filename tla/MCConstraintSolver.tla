------------------------- MODULE MCConstraintSolver -------------------------
(***************************************************************************)
(* Three equations of a pool, in every order, followed by one of two lists *)
(* of sources the loop does not use, over four contexts.                   *)
(***************************************************************************)
EXTENDS ConstraintAnalysis, FiniteSetsExt

MCVariable == {"v.a", "w.a", "v.c", "v.d", "a", "b", "c", "d"}
MCAlias(q) == CASE q = "v.c" -> "c" [] q = "v.d" -> "d" [] OTHER -> "a"

A == Var("a")
B == Var("b")
C == Var("c")
D == Var("d")

Equation(e) == [kind |-> "Equation", parsed |-> TRUE, expr |-> e]
Requirement(e) == [kind |-> "Requirement", parsed |-> TRUE, expr |-> e]
Unparsed(kind) == [kind |-> kind, parsed |-> FALSE, expr |-> Num(0)]

\* Chains b from a, c from b and a; x on the right of "-" and "/"; products
\* with and without an operand around x; a value no equation gives.
Pool == {
    Equation(Compare("eq", A, Num(2))),
    Equation(Compare("eq", B, Bin("add", A, Num(3)))),
    Equation(Compare("eq", Bin("sub", A, B), C)),
    Equation(Compare("eq", Bin("div", A, B), Num(2))),
    Equation(Compare("eq", Bin("mul", B, C), Num(12))),
    Equation(Compare("eq", Neg(A), Bin("sub", Num(1), C))),
    Equation(Compare("eq", Bin("mul", Bin("add", A, Num(1)), Num(2)), Num(10)))}

Tails == {
    <<Equation(Compare("le", A, B)), Requirement(Compare("le", A, D))>>,
    <<Requirement(Compare("gt", C, B)), Requirement(Bin("add", A, B)),
      Unparsed("Equation"), Unparsed("Requirement")>>}

Contexts == {
    <<>>,
    [q \in {"v.a"} |-> <<0, 1>>],
    [q \in {"v.c", "v.d"} |-> IF q = "v.c" THEN <<6, 1>> ELSE <<4, 1>>],
    [q \in {"v.a", "w.a"} |-> IF q = "v.a" THEN <<1, 1>> ELSE <<2, 1>>]}

MCSource == Pool \cup UNION {{t[i] : i \in 1..Len(t)} : t \in Tails}

\* The expressions of the sources and everything in them.
RECURSIVE Parts(_)
Parts(e) == {e} \cup UNION {Parts(a) : a \in Operands(e)}
MCExpr == UNION {Parts(s.expr) : s \in {x \in MCSource : x.parsed}}

RECURSIVE MCHeight(_)
MCHeight(e) == IF Operands(e) = {} THEN 0 ELSE 1 + Max({MCHeight(a) : a \in Operands(e)})

Triples == {t \in [1..3 -> Pool] : t[1] # t[2] /\ t[1] # t[3] /\ t[2] # t[3]}

MCProblems == {[sources |-> t \o tail, context |-> c] : t \in Triples, tail \in Tails, c \in Contexts}
=============================================================================
