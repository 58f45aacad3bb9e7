------------------------- MODULE ConstraintAnalysis -------------------------
(***************************************************************************)
(* The solver over the arithmetic of the code: what the solver promises    *)
(* about the numbers it infers.                                            *)
(***************************************************************************)
EXTENDS ConstraintExpr, ConstraintSolver

ASSUME NumbersAssumption ==
    /\ \A s \in Source : s.parsed => s.expr \in Expr
    /\ \A p \in Problems : \A q \in DOMAIN p.context : p.context[q] \in Fraction

\* ParsedConstraintSource::variables; an unparsed source is never evaluated.
SourceVariables(s) == IF s.parsed THEN Variables(s.expr) ELSE {}

IsolateInSource(s, x, known) == IsolateIn(s.expr, x, known)

FinalStatus(s, known) ==
    IF s.kind = "Equation" THEN EquationStatus(s.expr, known) ELSE RequirementStatus(s.expr, known)

\* An equation that gave a variable its value holds with that value when the
\* solver reports, wherever the variable stands alone in the products it is in
\* and no divisor is zero.
InferencesHold ==
    phase = "done" =>
        \A i \in 1..Len(explanations) :
            LET e == explanations[i]
            IN  Isolable(Sources[e.source].expr, e.variable, values)
                    => records[e.source] = "Satisfied"

\* "isolated {target}" and "constraint {} is inconsistent" are never said of one
\* equation: an equation that gave its only unknown a value holds with it.
IsolatedIsNotInconsistent ==
    \A i \in 1..Len(explanations) :
        explanations[i].source \in 1..Len(records) => records[explanations[i].source] # "Violated"
=============================================================================
