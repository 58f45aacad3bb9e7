--------------------------- MODULE ConstraintExpr ---------------------------
(***************************************************************************)
(* The arithmetic of crates/mercurio-sysml/src/constraints.rs: eval_number,*)
(* solve_for and the verdicts of the finalize functions, over expression   *)
(* trees. An f64 is an exact fraction <<n, d>> with d > 0, so nearly_equal *)
(* is equality; an Option is a set of at most one value. What the code     *)
(* computes by recursion over an expression is a function on expressions.  *)
(***************************************************************************)
EXTENDS Integers, FiniteSets

CONSTANTS
    Expr,       \* the expressions of the sources, with everything in them
    Height(_),  \* the height of an expression
    Depth       \* no expression is higher

Num(n) == [op |-> "num", value |-> <<n, 1>>]
Var(id) == [op |-> "var", id |-> id]
Neg(e) == [op |-> "neg", arg |-> e]
Bin(op, l, r) == [op |-> op, left |-> l, right |-> r]
Compare(op, l, r) == [op |-> op, left |-> l, right |-> r]

BinaryOps == {"add", "sub", "mul", "div"}
CompareOps == {"eq", "le", "ge", "lt", "gt"}

Fraction == Int \X (Nat \ {0})

Operands(e) ==
    CASE e.op \in {"num", "var"} -> {}
      [] e.op = "neg" -> {e.arg}
      [] OTHER -> {e.left, e.right}

ASSUME ExprAssumption ==
    /\ Depth \in Nat
    /\ \A e \in Expr :
          /\ e.op \in {"num", "var", "neg"} \cup BinaryOps \cup CompareOps
          /\ e.op = "num" => e.value \in Fraction
          /\ Height(e) \in 0..Depth
          /\ \A a \in Operands(e) : a \in Expr /\ Height(a) < Height(e)

Add(a, b) == <<a[1] * b[2] + b[1] * a[2], a[2] * b[2]>>
Minus(a) == <<-a[1], a[2]>>
Times(a, b) == <<a[1] * b[1], a[2] * b[2]>>
Zero(a) == a[1] = 0
Quot(a, b) == IF b[1] > 0 THEN <<a[1] * b[2], a[2] * b[1]>>
                          ELSE <<-(a[1] * b[2]), -(a[2] * b[1])>>

Holds(op, a, b) ==
    LET l == a[1] * b[2]
        r == b[1] * a[2]
    IN  CASE op = "eq" -> l = r
          [] op = "le" -> l <= r
          [] op = "ge" -> l >= r
          [] op = "lt" -> l < r
          [] op = "gt" -> l > r

Variables(e) ==
    LET names[y \in Expr] ==
            IF y.op = "var" THEN {y.id} ELSE UNION {names[a] : a \in Operands(y)}
    IN  names[e]

Operate(op, a, b) ==
    CASE op = "add" -> Add(a, b)
      [] op = "sub" -> Add(a, Minus(b))
      [] op = "mul" -> Times(a, b)
      [] op = "div" -> Quot(a, b)

\* eval_number: the value of e where it has one, of[o] being that of operand o.
\* A division by zero and a comparison have none.
ValueFrom(e, of, values) ==
    CASE e.op = "num" -> {e.value}
      [] e.op = "var" -> IF e.id \in DOMAIN values THEN {values[e.id]} ELSE {}
      [] e.op = "neg" -> {Minus(a) : a \in of[e.arg]}
      [] e.op \in BinaryOps ->
            {Operate(e.op, a, b) : a \in of[e.left],
                                   b \in {k \in of[e.right] : e.op = "div" => ~Zero(k)}}
      [] OTHER -> {}

Eval(e, values) ==
    LET val[y \in Expr] == ValueFrom(y, [o \in Operands(y) |-> val[o]], values)
    IN  val[e]

\* The inverse of an operator: what the operand that holds the unknown must be
\* for the whole to be the desired value, the other operand being known.
\* Seeded fault: a right operand is isolated like a left one.
GoalsOneSided(op, onLeft, desired, known) ==
    CASE op = "add" -> {Add(desired, Minus(known))}
      [] op = "sub" -> {Add(desired, known)}
      [] op = "mul" -> IF Zero(known) THEN {} ELSE {Quot(desired, known)}
      [] op = "div" -> {Times(desired, known)}

Goals(op, onLeft, desired, known) ==
    CASE op = "add" -> {Add(desired, Minus(known))}
      [] op = "sub" /\ onLeft -> {Add(desired, known)}
      [] op = "sub" /\ ~onLeft -> {Add(known, Minus(desired))}
      [] op = "mul" -> IF Zero(known) THEN {} ELSE {Quot(desired, known)}
      [] op = "div" /\ onLeft -> {Times(desired, known)}
      [] op = "div" /\ ~onLeft -> IF Zero(desired) THEN {} ELSE {Quot(known, desired)}

\* solve_for: the value of x that makes e the desired value d, where there is one,
\* of[o][g] being the one that makes operand o the value g. The operand of a
\* product that holds x is taken to be x itself.
SolutionFrom(e, of, x, d, values) ==
    IF e.op = "var" /\ e.id = x THEN {d}
    ELSE IF e.op = "neg" /\ x \in Variables(e.arg) THEN of[e.arg][Minus(d)]
    ELSE IF e.op \in BinaryOps /\ (x \in Variables(e.left)) # (x \in Variables(e.right))
    THEN LET onLeft == x \in Variables(e.left)
             operand == IF onLeft THEN e.left ELSE e.right
             other == IF onLeft THEN e.right ELSE e.left
             goals == UNION {Goals(e.op, onLeft, d, k) : k \in Eval(other, values)}
         IN  IF e.op = "mul" THEN goals ELSE UNION {of[operand][g] : g \in goals}
    ELSE {}

SolveFor(e, x, desired, values) ==
    LET solved[y \in Expr] ==
            [d \in Fraction |-> SolutionFrom(y, [o \in Operands(y) |-> solved[o]], x, d, values)]
    IN  solved[e][desired]

\* evaluate_equation's isolation of x: one side has a value, the other holds x.
IsolateIn(e, x, values) ==
    IF e.op # "eq" THEN {}
    ELSE LET l == Eval(e.left, values)
             r == Eval(e.right, values)
         IN  IF l # {} /\ r = {} THEN UNION {SolveFor(e.right, x, v, values) : v \in l}
             ELSE IF l = {} /\ r # {} THEN UNION {SolveFor(e.left, x, v, values) : v \in r}
             ELSE {}

\* The verdict on a comparison whose two sides have values, {} when one has none.
Verdict(e, values) ==
    {Holds(e.op, a, b) : a \in Eval(e.left, values), b \in Eval(e.right, values)}

\* finalize_equation
EquationStatus(e, values) ==
    IF e.op # "eq" THEN "Unsupported"
    ELSE IF Verdict(e, values) = {TRUE} THEN "Satisfied"
    ELSE IF Verdict(e, values) = {FALSE} THEN "Violated"
    ELSE IF Variables(e) \subseteq DOMAIN values THEN "Unsupported" ELSE "Blocked"

\* finalize_requirement
RequirementStatus(e, values) ==
    IF e.op \notin CompareOps THEN "Unsupported"
    ELSE IF Verdict(e, values) = {TRUE} THEN "Satisfied"
    ELSE IF Verdict(e, values) = {FALSE} THEN "Violated"
    ELSE "Unverifiable"

\* The expressions in e that x is in, down to x.
Way(e, x) ==
    LET way[y \in Expr] == {y} \cup UNION {way[a] : a \in {o \in Operands(y) : x \in Variables(o)}}
    IN  way[e]

\* Where isolating x cannot go wrong: x stands alone in every product on the
\* way to it, and no other operand of a quotient on that way is zero.
Isolable(e, x, values) ==
    \A y \in Way(e, x) : \A a \in Operands(y) :
        /\ y.op = "mul" /\ x \in Variables(a) => a.op = "var"
        /\ y.op = "div" /\ x \notin Variables(a) => \A k \in Eval(a, values) : ~Zero(k)
=============================================================================
