-------------------------- MODULE ConstraintSolver --------------------------
(***************************************************************************)
(* solve_constraints and SysmlConstraintAnalysisCapability::run: rounds    *)
(* over the equations in id order, each inferring the one variable it does *)
(* not know, until a round changes nothing or the rounds run out; then a   *)
(* verdict on every source and the status of the run. The arithmetic is    *)
(* a parameter.                                                            *)
(***************************************************************************)
EXTENDS Integers, Sequences

CONSTANTS
    Variable,           \* the ids of variables, qualified and bare
    Source,             \* constraint sources: [kind, parsed, expr]
    Problems,           \* [sources, context]: sources sorted by id, given values
    VariablesOf(_),     \* the variables of a source
    AliasOf(_),         \* the bare feature name of a qualified variable
    Isolate(_, _, _),   \* {} or the one value a source gives a variable
    StatusOf(_, _)      \* the final status of a source

ASSUME SourcesAssumption ==
    \A s \in Source : /\ s.kind \in {"Equation", "Requirement"}
                      /\ s.parsed \in BOOLEAN
                      /\ VariablesOf(s) \subseteq Variable

ASSUME ProblemsAssumption ==
    \A p \in Problems : /\ p.sources \in Seq(Source)
                        /\ DOMAIN p.context \subseteq Variable
                        /\ \A q \in DOMAIN p.context : AliasOf(q) \in Variable

VARIABLES
    problem,        \* the sources and the context values
    values,         \* the value of every variable known so far
    explanations,   \* the inferences, in order: [variable, source]
    phase,          \* "solve", "finalize", "done"
    round,          \* the round of the solving loop, from 1
    position,       \* the next source of the round, or of the finalization
    changed,        \* this round inferred something
    records,        \* the status of every finalized source
    diagnostics     \* the kinds of diagnostics raised, with their source

vars == <<problem, values, explanations, phase, round, position, changed, records, diagnostics>>

Sources == problem.sources
Known == DOMAIN values

\* initial_state: every context value is given under its qualified name and
\* under its bare name. Of two values written to one name, the one whose entry
\* comes last in the context's map stays.
GivenValues(p) ==
    LET Writers(v) == {q \in DOMAIN p.context : v \in {q, AliasOf(q)}}
        names == {v \in Variable : Writers(v) # {}}
    IN  {[v \in names |-> p.context[last[v]]] :
            last \in {w \in [names -> DOMAIN p.context] : \A v \in names : w[v] \in Writers(v)}}

Init ==
    /\ problem \in Problems
    /\ values \in GivenValues(problem)
    /\ explanations = <<>>
    /\ phase = "solve" /\ round = 1 /\ position = 1 /\ changed = FALSE
    /\ records = <<>> /\ diagnostics = {}

-----------------------------------------------------------------------------
Unknowns(s) == VariablesOf(s) \ Known

IsSolvable(s) == s.kind = "Equation" /\ s.parsed

\* Seeded fault: an equation without unknowns is solved again.
InferableAgain(s) ==
    {i \in [variable : VariablesOf(s), value : UNION {Isolate(s, x,
                [v \in Known \ {x} |-> values[v]]) : x \in VariablesOf(s)}] :
        /\ IsSolvable(s) /\ Unknowns(s) \subseteq {i.variable}
        /\ i.value \in Isolate(s, i.variable, [v \in Known \ {i.variable} |-> values[v]])}

\* What evaluate_equation can add for source s: its only unknown, isolated.
Inferable(s) ==
    {i \in [variable : Unknowns(s), value : UNION {Isolate(s, x, values) : x \in Unknowns(s)}] :
        IsSolvable(s) /\ Unknowns(s) = {i.variable} /\ i.value \in Isolate(s, i.variable, values)}

Infer ==
    /\ phase = "solve" /\ position <= Len(Sources)
    /\ \E i \in Inferable(Sources[position]) :
          /\ values' = [v \in Known \cup {i.variable} |->
                            IF v = i.variable THEN i.value ELSE values[v]]
          /\ explanations' = Append(explanations, [variable |-> i.variable, source |-> position])
    /\ changed' = TRUE
    /\ position' = position + 1
    /\ UNCHANGED <<problem, phase, round, records, diagnostics>>

Skip ==
    /\ phase = "solve" /\ position <= Len(Sources)
    /\ Inferable(Sources[position]) = {}
    /\ position' = position + 1
    /\ UNCHANGED <<problem, values, explanations, phase, round, changed, records, diagnostics>>

\* Seeded fault: a single round.
OneRound == 1

RoundLimit == IF Len(Sources) = 0 THEN 1 ELSE 8 * Len(Sources)

NextRound ==
    /\ phase = "solve" /\ position > Len(Sources)
    /\ changed /\ round < RoundLimit
    /\ round' = round + 1 /\ position' = 1 /\ changed' = FALSE
    /\ UNCHANGED <<problem, values, explanations, phase, records, diagnostics>>

StopSolving ==
    /\ phase = "solve" /\ position > Len(Sources)
    /\ ~changed \/ round >= RoundLimit
    /\ phase' = "finalize" /\ position' = 1
    /\ UNCHANGED <<problem, values, explanations, round, changed, records, diagnostics>>

\* Seeded fault: a requirement that cannot be checked is passed over.
DiagnosticOfEquations(s, status) ==
    CASE s.kind = "Equation" /\ status = "Violated" -> {"constraint.violation"}
      [] s.kind = "Equation" /\ status = "Blocked" -> {"constraint.blocked"}
      [] ~s.parsed -> {"unsupported"}
      [] OTHER -> {}

\* The diagnostic a verdict raises. A violated requirement raises none.
DiagnosticOf(s, status) ==
    CASE s.kind = "Equation" /\ status = "Violated" -> {"constraint.violation"}
      [] s.kind = "Equation" /\ status = "Blocked" -> {"constraint.blocked"}
      [] s.kind = "Requirement" /\ status = "Unverifiable" -> {"requirement.unverifiable"}
      [] ~s.parsed -> {"unsupported"}
      [] OTHER -> {}

Finalize ==
    /\ phase = "finalize" /\ position <= Len(Sources)
    /\ LET s == Sources[position]
           status == IF s.parsed THEN StatusOf(s, values) ELSE "Unsupported"
       IN  /\ records' = Append(records, status)
           /\ diagnostics' = diagnostics \cup
                  {[kind |-> k, source |-> position] : k \in DiagnosticOf(s, status)}
    /\ position' = position + 1
    /\ UNCHANGED <<problem, values, explanations, phase, round, changed>>

Report ==
    /\ phase = "finalize" /\ position > Len(Sources)
    /\ phase' = "done"
    /\ UNCHANGED <<problem, values, explanations, round, position, changed, records, diagnostics>>

Next == Infer \/ Skip \/ NextRound \/ StopSolving \/ Finalize \/ Report

Spec == Init /\ [][Next]_vars

\* constraint_capability_status
RunStatus ==
    IF \E d \in diagnostics : d.kind = "constraint.violation" THEN "Failed"
    ELSE IF diagnostics # {} THEN "Partial" ELSE "Passed"

-----------------------------------------------------------------------------
TypeOK ==
    /\ problem \in Problems
    /\ Known \subseteq Variable
    /\ explanations \in Seq([variable : Variable, source : 1..Len(Sources)])
    /\ phase \in {"solve", "finalize", "done"}
    /\ round \in 1..RoundLimit
    /\ position \in 1..(Len(Sources) + 1)
    /\ changed \in BOOLEAN
    /\ Len(records) = CASE phase = "solve" -> 0
                        [] phase = "finalize" -> position - 1
                        [] phase = "done" -> Len(Sources)
    /\ \A d \in diagnostics : d.source \in 1..Len(records)

\* What is known stays known with the value it had: a given value is never
\* overwritten by an inference, nor an inferred one by a later equation.
KnowledgeIsStable ==
    [][Known \subseteq Known' /\ \A v \in Known : values'[v] = values[v]]_values

\* The rounds end because there is nothing left to infer, never because
\* parsed.len() * 8 of them ran out: every equation with one unknown that can
\* be isolated was used, whatever the order of the sources.
StopsAtFixpoint ==
    phase # "solve" => \A i \in 1..Len(Sources) : Inferable(Sources[i]) = {}

\* Explanations form a derivation: each names a variable of its equation that
\* was neither given nor explained before, every other variable of the equation
\* was, and no equation is used twice.
DerivationIsGrounded ==
    LET Before(i) == {explanations[j].variable : j \in 1..(i - 1)}
        All == {explanations[j].variable : j \in 1..Len(explanations)}
    IN  \A i \in 1..Len(explanations) :
            LET e == explanations[i]
                s == Sources[e.source]
            IN  /\ e.variable \in Known \ Before(i)
                /\ e.variable \in VariablesOf(s)
                /\ VariablesOf(s) \ {e.variable} \subseteq (Known \ All) \cup Before(i)
                /\ \A j \in 1..(i - 1) : explanations[j].source # e.source

\* A run that passed has decided everything it could be asked to decide: no
\* equation is violated or blocked, and every requirement is satisfied or
\* violated, or is no comparison at all. (A violated requirement does not keep
\* a run from passing: finalize_requirement raises no diagnostic for it.)
PassedMeansDecided ==
    phase = "done" /\ RunStatus = "Passed" =>
        \A i \in 1..Len(Sources) :
            /\ Sources[i].parsed
            /\ records[i] \in IF Sources[i].kind = "Equation"
                               THEN {"Satisfied", "Unsupported"}
                               ELSE {"Satisfied", "Violated", "Unsupported"}
=============================================================================
