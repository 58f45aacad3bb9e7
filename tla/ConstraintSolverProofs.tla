----------------------- MODULE ConstraintSolverProofs -----------------------
(***************************************************************************)
(* The solver for every list of sources and every arithmetic: knowledge    *)
(* only grows, explanations form a derivation, the rounds reach a fixpoint *)
(* before their limit, and a run that passed has decided all sources. With *)
(* the arithmetic of the code, for all expressions: an equation that       *)
(* isolated a variable holds with the value it gave.                       *)
(***************************************************************************)
EXTENDS ConstraintAnalysis, WellFoundedInduction, FiniteSetTheorems, SequenceTheorems, TLAPS

-----------------------------------------------------------------------------
(* The inductive invariant. *)

Explained == {explanations[j].variable : j \in 1..Len(explanations)}

\* Every round but the current one inferred something, and so did the current
\* one if it says so.
RoundsInfer ==
    phase = "solve" => round - 1 + (IF changed THEN 1 ELSE 0) <= Len(explanations)

\* The sources that nothing can be inferred from.
Exhausted == {i \in 1..Len(Sources) : Inferable(Sources[i]) = {}}

\* A round that has changed nothing has left nothing to infer behind it.
NothingLeftBehind ==
    phase = "solve" /\ ~changed => 1..(position - 1) \subseteq Exhausted

\* What finalization says of each source with the values known now.
Verdicts ==
    [i \in 1..Len(Sources) |->
        IF Sources[i].parsed THEN StatusOf(Sources[i], values) ELSE "Unsupported"]

\* Every record is the verdict on its source and has left its diagnostics.
RecordsAreVerdicts ==
    /\ phase = "solve" => records = <<>>
    /\ records \in Seq({Verdicts[i] : i \in 1..Len(Sources)})
    /\ \A i \in 1..Len(records) :
          /\ records[i] = Verdicts[i]
          /\ \A k \in DiagnosticOf(Sources[i], records[i]) :
                [kind |-> k, source |-> i] \in diagnostics

IInv ==
    /\ TypeOK /\ DerivationIsGrounded /\ StopsAtFixpoint
    /\ RoundsInfer /\ NothingLeftBehind /\ RecordsAreVerdicts

-----------------------------------------------------------------------------
\* What an inference adds is the only unknown of an equation.
LEMMA InferableFacts ==
    ASSUME NEW s, NEW i \in Inferable(s)
    PROVE  /\ i.variable \in VariablesOf(s) /\ i.variable \notin Known
           /\ VariablesOf(s) \subseteq Known \cup {i.variable}
  BY DEF Inferable, Unknowns

LEMMA SourceFacts ==
    ASSUME problem \in Problems
    PROVE  /\ Sources \in Seq(Source) /\ Len(Sources) \in Nat
           /\ \A i \in 1..Len(Sources) :
                 Sources[i] \in Source /\ VariablesOf(Sources[i]) \subseteq Variable
  BY ProblemsAssumption, SourcesAssumption DEF Sources

\* The equation of an explanation has no unknowns any more.
LEMMA ExplainedIsKnown ==
    ASSUME DerivationIsGrounded, NEW i \in 1..Len(explanations)
    PROVE  /\ explanations[i].variable \in Known
           /\ VariablesOf(Sources[explanations[i].source]) \subseteq Known
<1>1. \A j \in 1..Len(explanations) : explanations[j].variable \in Known
  BY DEF DerivationIsGrounded
<1>2. Len(explanations) \in Nat => 1..(i - 1) \subseteq 1..Len(explanations)
  OBVIOUS
<1>3. VariablesOf(Sources[explanations[i].source]) \ {explanations[i].variable}
        \subseteq (Known \ Explained) \cup {explanations[j].variable : j \in 1..(i - 1)}
  BY DEF DerivationIsGrounded, Explained
<1>. QED
  BY <1>1, <1>2, <1>3

\* No source is explained twice, so there are no more explanations than sources.
LEMMA FewExplanations ==
    ASSUME TypeOK, DerivationIsGrounded
    PROVE  Len(explanations) \in Nat /\ Len(explanations) <= Len(Sources)
<1>. DEFINE E == 1..Len(explanations)
            S == 1..Len(Sources)
            f == [i \in E |-> explanations[i].source]
<1>1. Len(explanations) \in Nat /\ Len(Sources) \in Nat /\ f \in [E -> S]
  <2>1. explanations \in Seq([variable : Variable, source : S]) /\ Len(Sources) \in Nat
    BY SourceFacts DEF TypeOK
  <2>2. \A i \in E : explanations[i] \in [variable : Variable, source : S]
    BY <2>1, ElementOfSeq
  <2>. QED
    BY <2>1, <2>2
<1>2. \A i, j \in E : i # j => f[i] # f[j]
  <2>1. \A i \in E : \A j \in 1..(i - 1) : explanations[j].source # explanations[i].source
    BY DEF DerivationIsGrounded
  <2>. SUFFICES ASSUME NEW i \in E, NEW j \in E, j < i
                PROVE  explanations[j].source # explanations[i].source
    BY <1>1
  <2>2. j \in 1..(i - 1)
    BY <1>1
  <2>. QED
    BY <2>1, <2>2
<1>3. IsFiniteSet(E) /\ IsFiniteSet(S) /\ Cardinality(E) = Len(explanations)
        /\ Cardinality(S) = Len(Sources)
  <2>. HIDE DEF f
  <2>1. \A n \in Nat : IsFiniteSet(1..n) /\ Cardinality(1..n) = n
    BY FS_Interval
  <2>. QED
    BY <1>1, <2>1
<1>4. ~ (Cardinality(S) < Cardinality(E))
  <2>. SUFFICES ASSUME Cardinality(S) < Cardinality(E) PROVE FALSE
    OBVIOUS
  <2>. HIDE DEF E, S, f
  <2>. QED
    BY <1>1, <1>2, <1>3, FS_PigeonHole
<1>. QED
  BY <1>1, <1>3, <1>4

\* The limit of the rounds is not reached by rounds that infer something.
LEMMA LimitIsFar ==
    ASSUME TypeOK, DerivationIsGrounded, RoundsInfer, phase = "solve", changed
    PROVE  round < RoundLimit
<1>1. Len(Sources) \in Nat /\ round \in Nat \ {0}
  BY SourceFacts DEF TypeOK, RoundLimit
<1>2. round <= Len(Sources)
  BY <1>1, FewExplanations DEF RoundsInfer
<1>. QED
  BY <1>1, <1>2 DEF RoundLimit

\* Verdicts and exhausted sources depend on the sources and the values alone.
LEMMA SameKnowledge ==
    ASSUME UNCHANGED <<problem, values>>
    PROVE  /\ Sources' = Sources /\ Known' = Known
           /\ Exhausted' = Exhausted /\ Verdicts' = Verdicts
  BY DEF Sources, Known, Exhausted, Verdicts, Inferable, Unknowns, IsSolvable

LEMMA FixpointIsExhaustion ==
    StopsAtFixpoint <=> (phase # "solve" => 1..Len(Sources) \subseteq Exhausted)
  BY DEF StopsAtFixpoint, Exhausted

\* Nothing is recorded before the rounds have ended.
LEMMA SolveRecords ==
    ASSUME IInv, phase = "solve"
    PROVE  records = <<>> /\ Len(records) = 0 /\ diagnostics = {}
<1>1. records = <<>> /\ Len(records) = 0
  BY DEF IInv, RecordsAreVerdicts
<1>2. \A d \in diagnostics : d.source \in 1..Len(records)
  BY DEF IInv, TypeOK
<1>. QED
  BY <1>1, <1>2

-----------------------------------------------------------------------------
LEMMA InitInv == Init => IInv
<1>. SUFFICES ASSUME Init PROVE IInv
  OBVIOUS
<1>1. Known \subseteq Variable
  <2>1. PICK p \in {problem} : values \in GivenValues(p)
    BY DEF Init
  <2>. QED
    BY <2>1 DEF GivenValues, Known
<1>2. Len(Sources) \in Nat /\ problem \in Problems
  BY SourceFacts DEF Init
<1>3. TypeOK
  <2>1. explanations = <<>> /\ <<>> \in Seq([variable : Variable, source : 1..Len(Sources)])
    BY DEF Init
  <2>2. Len(records) = 0 /\ phase = "solve" /\ diagnostics = {}
    BY DEF Init
  <2>3. RoundLimit \in Nat \ {0} /\ round = 1 /\ position = 1 /\ changed = FALSE
    BY <1>2 DEF Init, RoundLimit
  <2>4. Len(records) = CASE phase = "solve" -> 0
                        [] phase = "finalize" -> position - 1
                        [] phase = "done" -> Len(Sources)
    BY <2>2
  <2>5. problem \in Problems /\ Known \subseteq Variable /\ round \in 1..RoundLimit
          /\ position \in 1..(Len(Sources) + 1)
    BY <1>1, <1>2, <2>3
  <2>6. explanations \in Seq([variable : Variable, source : 1..Len(Sources)])
    BY <2>1
  <2>7. phase \in {"solve", "finalize", "done"}
          /\ \A d \in diagnostics : d.source \in 1..Len(records)
    BY <2>2
  <2>8. changed \in BOOLEAN
    BY <2>3
  <2>. QED
    BY <2>4, <2>5, <2>6, <2>7, <2>8 DEF TypeOK
<1>4. DerivationIsGrounded /\ StopsAtFixpoint /\ RoundsInfer
  BY DEF Init, DerivationIsGrounded, StopsAtFixpoint, RoundsInfer
<1>5. NothingLeftBehind
  BY DEF Init, NothingLeftBehind
<1>6. RecordsAreVerdicts
  BY DEF Init, RecordsAreVerdicts
<1>. QED
  BY <1>3, <1>4, <1>5, <1>6 DEF IInv

LEMMA InferInv == IInv /\ Infer => IInv'
<1>. SUFFICES ASSUME IInv, Infer PROVE IInv'
  OBVIOUS
<1>. DEFINE n == Len(explanations)
            s == Sources[position]
<1>1. PICK i \in Inferable(s) :
        /\ values' = [v \in Known \cup {i.variable} |->
                         IF v = i.variable THEN i.value ELSE values[v]]
        /\ explanations' = Append(explanations, [variable |-> i.variable, source |-> position])
  BY DEF Infer
<1>. DEFINE x == i.variable
<1>2. /\ phase = "solve" /\ phase' = "solve" /\ changed' = TRUE
      /\ position <= Len(Sources) /\ position' = position + 1
      /\ UNCHANGED <<problem, round, records, diagnostics>>
  BY DEF Infer
<1>3. /\ Sources' = Sources /\ RoundLimit' = RoundLimit
      /\ Len(Sources) \in Nat /\ position \in 1..Len(Sources)
  BY <1>2, SourceFacts DEF IInv, TypeOK, Sources, RoundLimit
<1>4. x \in VariablesOf(s) /\ x \notin Known /\ VariablesOf(s) \subseteq Known \cup {x}
  BY InferableFacts
<1>5. Known' = Known \cup {x} /\ x \in Variable
  BY <1>1, <1>3, <1>4, SourceFacts DEF Known, IInv, TypeOK
<1>6. explanations \in Seq([variable : Variable, source : 1..Len(Sources)])
  BY DEF IInv, TypeOK
<1>7. /\ n \in Nat /\ Len(explanations') = n + 1
      /\ explanations' \in Seq([variable : Variable, source : 1..Len(Sources)])
      /\ \A j \in 1..n : explanations'[j] = explanations[j]
      /\ explanations'[n + 1] = [variable |-> x, source |-> position]
  BY <1>1, <1>3, <1>5, <1>6
<1>8. records = <<>> /\ Len(records) = 0 /\ diagnostics = {}
  BY <1>2, SolveRecords
<1>9. TypeOK'
  <2>1. position' \in 1..(Len(Sources) + 1) /\ round \in 1..RoundLimit
    BY <1>2, <1>3 DEF IInv, TypeOK
  <2>2. problem \in Problems /\ Known' \subseteq Variable
    BY <1>5 DEF IInv, TypeOK
  <2>3. Len(records') = CASE phase' = "solve" -> 0
                          [] phase' = "finalize" -> position' - 1
                          [] phase' = "done" -> Len(Sources)
    BY <1>2, <1>8
  <2>. QED
    BY <1>2, <1>3, <1>7, <1>8, <2>1, <2>2, <2>3 DEF TypeOK
<1>10. DerivationIsGrounded'
  <2>. DEFINE Before(k) == {explanations[j].variable : j \in 1..(k - 1)}
  <2>1. Explained \subseteq Known /\ \A j \in 1..n : VariablesOf(Sources[explanations[j].source]) \subseteq Known
    BY ExplainedIsKnown DEF Explained, IInv
  <2>2. \A k \in 1..(n + 1) : {explanations'[j].variable : j \in 1..(k - 1)} = Before(k)
    BY <1>7
  <2>3. {explanations'[j].variable : j \in 1..Len(explanations')} = Explained \cup {x}
    BY <1>7 DEF Explained
  <2>4. Known' \ (Explained \cup {x}) = Known \ Explained
    BY <1>4, <1>5, <2>1
  <2>. SUFFICES ASSUME NEW k \in 1..(n + 1)
                PROVE  /\ explanations'[k].variable \in Known' \ Before(k)
                       /\ explanations'[k].variable \in VariablesOf(Sources[explanations'[k].source])
                       /\ VariablesOf(Sources[explanations'[k].source]) \ {explanations'[k].variable}
                            \subseteq (Known \ Explained) \cup Before(k)
                       /\ \A j \in 1..(k - 1) : explanations'[j].source # explanations'[k].source
    BY <1>3, <1>7, <2>2, <2>3, <2>4 DEF DerivationIsGrounded
  <2>5. CASE k \in 1..n
    <3>1. \A j \in 1..(k - 1) : explanations'[j] = explanations[j]
      BY <1>7, <2>5
    <3>. QED
      BY <1>5, <1>7, <2>5, <3>1 DEF IInv, DerivationIsGrounded, Explained
  <2>6. CASE k = n + 1
    <3>1. Before(k) = Explained
      BY <1>7, <2>6 DEF Explained
    <3>2. \A j \in 1..n : explanations[j].source # position
      BY <1>4, <2>1
    <3>3. \A j \in 1..(k - 1) : explanations'[j].source # position
      BY <1>7, <2>6, <3>2
    <3>. QED
      BY <1>4, <1>5, <1>7, <2>1, <2>6, <3>1, <3>3
  <2>. QED
    BY <1>7, <2>5, <2>6
<1>11. StopsAtFixpoint' /\ NothingLeftBehind'
  BY <1>2 DEF StopsAtFixpoint, NothingLeftBehind
<1>12. RoundsInfer'
  BY <1>2, <1>7 DEF IInv, TypeOK, RoundsInfer, RoundLimit
<1>13. RecordsAreVerdicts'
  BY <1>2, <1>8 DEF RecordsAreVerdicts
<1>. QED
  BY <1>9, <1>10, <1>11, <1>12, <1>13 DEF IInv

\* A step that keeps the problem, the values and the explanations keeps what
\* is said of them.
LEMMA KnowledgeKept ==
    ASSUME IInv, UNCHANGED <<problem, values, explanations>>
    PROVE  /\ DerivationIsGrounded'
           /\ Sources' = Sources /\ Known' = Known /\ RoundLimit' = RoundLimit
           /\ Exhausted' = Exhausted /\ Verdicts' = Verdicts
           /\ problem \in Problems /\ Known \subseteq Variable
           /\ explanations \in Seq([variable : Variable, source : 1..Len(Sources)])
           /\ Len(Sources) \in Nat /\ position \in 1..(Len(Sources) + 1)
           /\ round \in 1..RoundLimit /\ RoundLimit \in Nat
<1>1. Sources' = Sources /\ Known' = Known /\ Exhausted' = Exhausted /\ Verdicts' = Verdicts
  BY SameKnowledge
<1>2. DerivationIsGrounded'
  BY <1>1 DEF IInv, DerivationIsGrounded
<1>3. Len(Sources) \in Nat
  BY SourceFacts DEF IInv, TypeOK
<1>. QED
  BY <1>1, <1>2, <1>3 DEF IInv, TypeOK, RoundLimit

\* The type of the variables, for a step of the rounds or out of them.
LEMMA SolveType ==
    ASSUME IInv, UNCHANGED <<problem, values, explanations, records, diagnostics>>,
           phase = "solve", phase' \in {"solve", "finalize"},
           phase' = "finalize" => position' = 1,
           position' \in 1..(Len(Sources) + 1), round' \in 1..RoundLimit, changed' \in BOOLEAN
    PROVE  TypeOK'
<1>1. Len(records') = 0 /\ diagnostics' = {}
  BY SolveRecords
<1>2. Len(records') = CASE phase' = "solve" -> 0
                        [] phase' = "finalize" -> position' - 1
                        [] phase' = "done" -> Len(Sources)
  <2>1. CASE phase' = "solve"
    BY <1>1, <2>1
  <2>2. CASE phase' = "finalize"
    BY <1>1, <2>2
  <2>. QED
    BY <2>1, <2>2
<1>. QED
  BY <1>1, <1>2, KnowledgeKept DEF TypeOK

LEMMA SolveVerdicts ==
    ASSUME IInv, phase = "solve", UNCHANGED records
    PROVE  RecordsAreVerdicts'
  BY SolveRecords DEF RecordsAreVerdicts

LEMMA SkipInv == IInv /\ Skip => IInv'
<1>. SUFFICES ASSUME IInv, Skip PROVE IInv'
  OBVIOUS
<1>1. /\ UNCHANGED <<problem, values, explanations, records, diagnostics>>
      /\ phase = "solve" /\ phase' = "solve" /\ round' = round /\ changed' = changed
      /\ position <= Len(Sources) /\ position' = position + 1
      /\ Inferable(Sources[position]) = {}
  BY DEF Skip
<1>2. position \in 1..Len(Sources) /\ position' \in 1..(Len(Sources) + 1)
  BY <1>1, KnowledgeKept
<1>3. TypeOK'
  <2>1. round' \in 1..RoundLimit
    BY <1>1, KnowledgeKept
  <2>2. changed' \in BOOLEAN
    BY <1>1 DEF IInv, TypeOK
  <2>. QED
    BY <1>1, <1>2, <2>1, <2>2, SolveType
<1>4. NothingLeftBehind'
  <2>1. position \in Exhausted
    BY <1>1, <1>2 DEF Exhausted
  <2>2. 1..(position' - 1) = 1..(position - 1) \cup {position}
    BY <1>1, <1>2
  <2>. QED
    BY <1>1, <2>1, <2>2, KnowledgeKept DEF IInv, NothingLeftBehind
<1>5. RoundsInfer' /\ StopsAtFixpoint'
  BY <1>1 DEF IInv, RoundsInfer, StopsAtFixpoint
<1>. QED
  BY <1>1, <1>3, <1>4, <1>5, KnowledgeKept, SolveVerdicts DEF IInv

LEMMA NextRoundInv == IInv /\ NextRound => IInv'
<1>. SUFFICES ASSUME IInv, NextRound PROVE IInv'
  OBVIOUS
<1>1. /\ UNCHANGED <<problem, values, explanations, records, diagnostics>>
      /\ phase = "solve" /\ phase' = "solve"
      /\ changed /\ round < RoundLimit
      /\ round' = round + 1 /\ position' = 1 /\ changed' = FALSE
  BY DEF NextRound
<1>2. TypeOK'
  <2>1. round' \in 1..RoundLimit /\ position' \in 1..(Len(Sources) + 1)
    BY <1>1, KnowledgeKept
  <2>2. changed' \in BOOLEAN
    BY <1>1
  <2>. QED
    BY <1>1, <2>1, <2>2, SolveType
<1>3. NothingLeftBehind'
  BY <1>1 DEF NothingLeftBehind
<1>4. RoundsInfer'
  <2>1. round - 1 + 1 <= Len(explanations)
    BY <1>1 DEF IInv, RoundsInfer
  <2>. QED
    BY <1>1, <2>1, KnowledgeKept DEF RoundsInfer
<1>5. StopsAtFixpoint'
  BY <1>1 DEF StopsAtFixpoint
<1>. QED
  BY <1>1, <1>2, <1>3, <1>4, <1>5, KnowledgeKept, SolveVerdicts DEF IInv

\* The rounds only stop when the last one has changed nothing.
LEMMA StopSolvingInv == IInv /\ StopSolving => IInv'
<1>. SUFFICES ASSUME IInv, StopSolving PROVE IInv'
  OBVIOUS
<1>1. /\ UNCHANGED <<problem, values, explanations, records, diagnostics, round, changed>>
      /\ phase = "solve" /\ phase' = "finalize" /\ position' = 1
      /\ position > Len(Sources) /\ (~changed \/ round >= RoundLimit)
  BY DEF StopSolving
<1>2. TypeOK'
  <2>1. round' \in 1..RoundLimit /\ position' \in 1..(Len(Sources) + 1)
    BY <1>1, KnowledgeKept
  <2>2. changed' \in BOOLEAN
    BY <1>1 DEF IInv, TypeOK
  <2>. QED
    BY <1>1, <2>1, <2>2, SolveType
<1>3. ~changed
  <2>1. changed => round < RoundLimit
    BY <1>1, LimitIsFar DEF IInv
  <2>. QED
    BY <1>1, <2>1, KnowledgeKept
<1>4. StopsAtFixpoint'
  <2>1. 1..(position - 1) = 1..Len(Sources)
    BY <1>1, KnowledgeKept
  <2>2. 1..Len(Sources) \subseteq Exhausted
    BY <1>1, <1>3, <2>1 DEF IInv, NothingLeftBehind
  <2>3. (1..Len(Sources))' \subseteq Exhausted'
    BY <1>1, <2>2, KnowledgeKept
  <2>. QED
    BY <2>3 DEF StopsAtFixpoint, Exhausted
<1>5. NothingLeftBehind' /\ RoundsInfer'
  BY <1>1 DEF NothingLeftBehind, RoundsInfer
<1>. QED
  BY <1>1, <1>2, <1>4, <1>5, KnowledgeKept, SolveVerdicts DEF IInv

LEMMA FinalizeInv == IInv /\ Finalize => IInv'
<1>. SUFFICES ASSUME IInv, Finalize PROVE IInv'
  OBVIOUS
<1>. DEFINE s == Sources[position]
            status == IF s.parsed THEN StatusOf(s, values) ELSE "Unsupported"
            raised == {[kind |-> k, source |-> position] : k \in DiagnosticOf(s, status)}
<1>1. /\ UNCHANGED <<problem, values, explanations, phase, round, changed>>
      /\ phase = "finalize" /\ phase' = "finalize"
      /\ position <= Len(Sources) /\ position' = position + 1
      /\ records' = Append(records, status)
      /\ diagnostics' = diagnostics \cup raised
  BY DEF Finalize
<1>2. position \in 1..Len(Sources) /\ position' \in 1..(Len(Sources) + 1)
  BY <1>1, KnowledgeKept
<1>3. Len(records) = position - 1
  BY <1>1 DEF IInv, TypeOK
<1>4. status = Verdicts[position]
  BY <1>2 DEF Verdicts
<1>. DEFINE V == {Verdicts[i] : i \in 1..Len(Sources)}
<1>5. /\ records \in Seq(V) /\ records' \in Seq(V) /\ Len(records') = position
      /\ \A i \in 1..(position - 1) : records'[i] = records[i]
      /\ records'[position] = status
  <2>1. records \in Seq(V) /\ status \in V
    BY <1>2, <1>4 DEF IInv, RecordsAreVerdicts
  <2>. HIDE DEF status, V
  <2>. QED
    BY <1>1, <1>2, <1>3, <2>1
<1>6. TypeOK'
  <2>1. Len(records') = CASE phase' = "solve" -> 0
                          [] phase' = "finalize" -> position' - 1
                          [] phase' = "done" -> Len(Sources)
    BY <1>1, <1>2, <1>5
  <2>2. \A d \in diagnostics : d.source \in 1..(position - 1)
    BY <1>3 DEF IInv, TypeOK
  <2>3. \A d \in raised : d.source = position
    OBVIOUS
  <2>4. \A d \in diagnostics' : d.source \in 1..Len(records')
    BY <1>1, <1>2, <1>5, <2>2, <2>3
  <2>5. changed' \in BOOLEAN
    BY <1>1 DEF IInv, TypeOK
  <2>6. phase' \in {"solve", "finalize", "done"} /\ round' \in 1..RoundLimit
    BY <1>1, KnowledgeKept
  <2>. QED
    BY <1>1, <1>2, <2>1, <2>4, <2>5, <2>6, KnowledgeKept DEF TypeOK
<1>7. RecordsAreVerdicts'
  <2>1. \A i \in 1..(position - 1) :
           /\ records'[i] = Verdicts[i]
           /\ \A k \in DiagnosticOf(Sources[i], records'[i]) : [kind |-> k, source |-> i] \in diagnostics'
    <3>. HIDE DEF raised
    <3>. QED
      BY <1>1, <1>3, <1>5 DEF IInv, RecordsAreVerdicts
  <2>2. records'[position] = Verdicts[position]
    BY <1>4, <1>5
  <2>3. \A k \in DiagnosticOf(Sources[position], records'[position]) :
           [kind |-> k, source |-> position] \in diagnostics'
    BY <1>1, <1>5
  <2>4. \A i \in 1..position : i \in 1..(position - 1) \/ i = position
    BY <1>2
  <2>5. \A i \in 1..Len(records') :
           /\ records'[i] = Verdicts[i]
           /\ \A k \in DiagnosticOf(Sources[i], records'[i]) : [kind |-> k, source |-> i] \in diagnostics'
    BY <1>5, <2>1, <2>2, <2>3, <2>4
  <2>. QED
    BY <1>1, <1>5, <2>5, KnowledgeKept DEF RecordsAreVerdicts
<1>8. StopsAtFixpoint'
  BY <1>1, KnowledgeKept DEF IInv, StopsAtFixpoint, Inferable, Unknowns, IsSolvable
<1>9. NothingLeftBehind' /\ RoundsInfer'
  BY <1>1 DEF NothingLeftBehind, RoundsInfer
<1>. QED
  BY <1>1, <1>6, <1>7, <1>8, <1>9, KnowledgeKept DEF IInv

LEMMA ReportInv == IInv /\ Report => IInv'
<1>. SUFFICES ASSUME IInv, Report PROVE IInv'
  OBVIOUS
<1>1. /\ UNCHANGED <<problem, values, explanations, round, position, changed, records, diagnostics>>
      /\ phase = "finalize" /\ phase' = "done" /\ position > Len(Sources)
  BY DEF Report
<1>2. Len(records) = Len(Sources)
  <2>1. Len(records) = position - 1
    BY <1>1 DEF IInv, TypeOK
  <2>. QED
    BY <1>1, <2>1, KnowledgeKept
<1>3. TypeOK'
  <2>1. Len(records') = CASE phase' = "solve" -> 0
                          [] phase' = "finalize" -> position' - 1
                          [] phase' = "done" -> Len(Sources)
    BY <1>1, <1>2
  <2>2. changed' \in BOOLEAN /\ \A d \in diagnostics' : d.source \in 1..Len(records')
    BY <1>1 DEF IInv, TypeOK
  <2>3. phase' \in {"solve", "finalize", "done"}
    BY <1>1
  <2>. QED
    BY <1>1, <2>1, <2>2, <2>3, KnowledgeKept DEF TypeOK
<1>4. RecordsAreVerdicts'
  BY <1>1, KnowledgeKept DEF IInv, RecordsAreVerdicts
<1>5. StopsAtFixpoint'
  BY <1>1, KnowledgeKept DEF IInv, StopsAtFixpoint, Inferable, Unknowns, IsSolvable
<1>6. NothingLeftBehind' /\ RoundsInfer'
  BY <1>1 DEF NothingLeftBehind, RoundsInfer
<1>. QED
  BY <1>1, <1>3, <1>4, <1>5, <1>6, KnowledgeKept DEF IInv

LEMMA StutterInv == IInv /\ UNCHANGED vars => IInv'
<1>. SUFFICES ASSUME IInv, UNCHANGED vars PROVE IInv'
  OBVIOUS
<1>1. UNCHANGED <<problem, values, explanations, phase, round, position, changed, records, diagnostics>>
  BY DEF vars
<1>2. TypeOK' /\ RecordsAreVerdicts'
  BY <1>1, KnowledgeKept DEF IInv, TypeOK, RecordsAreVerdicts
<1>3. StopsAtFixpoint'
  BY <1>1, KnowledgeKept DEF IInv, StopsAtFixpoint, Inferable, Unknowns, IsSolvable
<1>4. NothingLeftBehind' /\ RoundsInfer'
  BY <1>1, KnowledgeKept DEF IInv, NothingLeftBehind, RoundsInfer
<1>. QED
  BY <1>1, <1>2, <1>3, <1>4, KnowledgeKept DEF IInv

-----------------------------------------------------------------------------
\* The inductive invariant holds in every run of solve_constraints.
THEOREM Invariance == Spec => []IInv
<1>1. IInv /\ [Next]_vars => IInv'
  BY InferInv, SkipInv, NextRoundInv, StopSolvingInv, FinalizeInv, ReportInv, StutterInv DEF Next
<1>. QED
  BY InitInv, <1>1, PTL DEF Spec

\* The variables of solve_constraints have their types.
THEOREM TypeCorrect == Spec => []TypeOK
  BY Invariance, PTL DEF IInv

\* evaluate_equation never overwrites a given or an inferred value.
THEOREM KnowledgeStays == Spec => KnowledgeIsStable
<1>. DEFINE Kept == Known \subseteq Known' /\ \A v \in Known : values'[v] = values[v]
<1>1. Infer => Kept
  <2>. SUFFICES ASSUME Infer PROVE Kept
    OBVIOUS
  <2>1. PICK i \in Inferable(Sources[position]) :
          values' = [v \in Known \cup {i.variable} |-> IF v = i.variable THEN i.value ELSE values[v]]
    BY DEF Infer
  <2>2. i.variable \notin Known
    BY InferableFacts
  <2>. QED
    BY <2>1, <2>2 DEF Known
<1>2. [Next]_vars => [Kept]_values
  BY <1>1 DEF Next, Skip, NextRound, StopSolving, Finalize, Report, vars
<1>. QED
  BY <1>2, PTL DEF Spec, KnowledgeIsStable

\* Each explanation rests on given values and earlier explanations, and no
\* equation explains two variables.
THEOREM DerivationsAreGrounded == Spec => []DerivationIsGrounded
  BY Invariance, PTL DEF IInv

\* parsed.len() * 8 rounds are always enough to reach the fixpoint.
THEOREM FixpointIsReached == Spec => []StopsAtFixpoint
  BY Invariance, PTL DEF IInv

\* The verdicts of finalize_equation and finalize_requirement.
LegalVerdicts ==
    \A s \in Source : \A known :
        StatusOf(s, known) \in IF s.kind = "Equation"
                               THEN {"Satisfied", "Violated", "Blocked", "Unsupported"}
                               ELSE {"Satisfied", "Violated", "Unverifiable", "Unsupported"}

\* A run without diagnostics has decided every source, whatever the arithmetic
\* behind the verdicts.
THEOREM PassedRunsAreDecided ==
    ASSUME LegalVerdicts
    PROVE  Spec => []PassedMeansDecided
<1>1. IInv => PassedMeansDecided
  <2>. SUFFICES ASSUME IInv, phase = "done", RunStatus = "Passed", NEW i \in 1..Len(Sources)
                PROVE  /\ Sources[i].parsed
                       /\ records[i] \in IF Sources[i].kind = "Equation"
                                         THEN {"Satisfied", "Unsupported"}
                                         ELSE {"Satisfied", "Violated", "Unsupported"}
    BY DEF PassedMeansDecided
  <2>1. diagnostics = {}
    BY DEF RunStatus
  <2>2. Len(records) = Len(Sources)
    BY DEF IInv, TypeOK
  <2>3. records[i] = Verdicts[i] /\ DiagnosticOf(Sources[i], records[i]) = {}
    BY <2>1, <2>2 DEF IInv, RecordsAreVerdicts
  <2>4. Sources[i] \in Source
    BY SourceFacts DEF IInv, TypeOK
  <2>5. Sources[i].parsed
    <3>1. CASE ~Sources[i].parsed
      <4>1. records[i] = "Unsupported"
        BY <2>3, <3>1 DEF Verdicts
      <4>. QED
        BY <2>3, <3>1, <4>1 DEF DiagnosticOf
    <3>. QED
      BY <3>1
  <2>6. records[i] = StatusOf(Sources[i], values)
    BY <2>3, <2>5 DEF Verdicts
  <2>7. CASE Sources[i].kind = "Equation"
    BY <2>3, <2>4, <2>5, <2>6, <2>7 DEF LegalVerdicts, DiagnosticOf
  <2>8. CASE Sources[i].kind = "Requirement"
    BY <2>3, <2>4, <2>5, <2>6, <2>8 DEF LegalVerdicts, DiagnosticOf
  <2>. QED
    BY <2>4, <2>5, <2>7, <2>8, SourcesAssumption
<1>. QED
  BY Invariance, <1>1, PTL

-----------------------------------------------------------------------------
(* The arithmetic of the code, for all expressions: induction over them, and *)
(* the functions defined by recursion over them.                             *)

NatLess == {p \in Nat \X Nat : p[1] < p[2]}

LEMMA LeastExists ==
    ASSUME NEW T, T \subseteq Nat, T # {}
    PROVE  \E n \in T : \A m \in T : n <= m
<1>1. IsWellFoundedOn(NatLess, Nat)
  BY NatLessThanWellFounded DEF OpToRel, NatLess
<1>2. PICK n \in T : \A m \in T : <<m, n>> \notin NatLess
  BY WFMin, <1>1
<1>3. \A m \in T : ~(m < n)
  BY <1>2 DEF NatLess
<1>. QED
  BY <1>3

\* What holds of an expression if it holds of all its operands holds of every
\* expression: with a set for what holds.
LEMMA ExprInduction ==
    ASSUME NEW T, \A e \in Expr : Operands(e) \subseteq T => e \in T
    PROVE  Expr \subseteq T
<1>. SUFFICES ASSUME Expr \ T # {} PROVE FALSE
  OBVIOUS
<1>. DEFINE H == {Height(e) : e \in Expr \ T}
<1>1. H \subseteq Nat /\ H # {}
  BY ExprAssumption
<1>. HIDE DEF H
<1>2. PICK n \in H : \A m \in H : n <= m
  BY <1>1, LeastExists
<1>3. PICK e \in Expr \ T : n = Height(e)
  BY <1>2 DEF H
<1>4. PICK a \in Operands(e) : a \notin T
  BY <1>3
<1>5. a \in Expr \ T /\ Height(a) < Height(e)
  BY <1>3, <1>4, ExprAssumption
<1>6. Height(a) \in H
  BY <1>5 DEF H
<1>7. n \in Nat /\ Height(a) \in Nat /\ n <= Height(a)
  BY <1>1, <1>2, <1>6
<1>. QED
  BY <1>3, <1>5, <1>7

\* B makes of a function on expressions and of an expression a value, and looks at
\* the function at the operands of the expression alone.
LooksAtOperands(R, B) ==
    /\ R # {} /\ B \in [[Expr -> R] \X Expr -> R]
    /\ \A f, g \in [Expr -> R], e \in Expr :
          (\A a \in Operands(e) : f[a] = g[a]) => B[<<f, e>>] = B[<<g, e>>]

\* There is a function that is what B makes of itself at each expression.
LEMMA ExprRecursion ==
    ASSUME NEW R, NEW B, LooksAtOperands(R, B)
    PROVE  \E f \in [Expr -> R] : \A e \in Expr : f[e] = B[<<f, e>>]
<1>. USE DEF LooksAtOperands
<1>. DEFINE Solves(f, n) == \A e \in Expr : Height(e) < n => f[e] = B[<<f, e>>]
            S == {n \in Nat : \E f \in [Expr -> R] : Solves(f, n)}
<1>1. 0 \in S
  <2>1. PICK r \in R : TRUE
    OBVIOUS
  <2>2. [e \in Expr |-> r] \in [Expr -> R]
    BY <2>1
  <2>3. Solves([e \in Expr |-> r], 0)
    BY ExprAssumption
  <2>. QED
    BY <2>2, <2>3
<1>2. ASSUME NEW n \in S
      PROVE  n + 1 \in S
  <2>1. PICK f \in [Expr -> R] : Solves(f, n)
    BY <1>2
  <2>. DEFINE g == [e \in Expr |-> B[<<f, e>>]]
  <2>2. g \in [Expr -> R] /\ \A e \in Expr : g[e] = B[<<f, e>>]
    <3>1. \A e \in Expr : <<f, e>> \in [Expr -> R] \X Expr
      OBVIOUS
    <3>. QED
      BY <3>1
  <2>. HIDE DEF g
  <2>3. ASSUME NEW e \in Expr, Height(e) < n + 1
        PROVE  g[e] = B[<<g, e>>]
    <3>1. \A a \in Operands(e) : f[a] = g[a]
      <4>. SUFFICES ASSUME NEW a \in Operands(e) PROVE f[a] = g[a]
        OBVIOUS
      <4>1. a \in Expr /\ Height(a) < n
        BY <2>3, ExprAssumption
      <4>. QED
        BY <2>1, <2>2, <4>1
    <3>2. B[<<f, e>>] = B[<<g, e>>]
      BY <2>1, <2>2, <3>1
    <3>. QED
      BY <2>2, <3>2
  <2>. QED
    BY <2>2, <2>3
<1>. HIDE DEF S
<1>3. Depth + 1 \in S
  <2>. SUFFICES ASSUME 0..Depth + 1 \ S # {} PROVE FALSE
    BY ExprAssumption
  <2>1. PICK n \in 0..Depth + 1 \ S : \A m \in 0..Depth + 1 \ S : n <= m
    BY LeastExists, 0..Depth + 1 \ S \subseteq Nat
  <2>2. n # 0 /\ n \in 0..Depth + 1
    BY <1>1, <2>1
  <2>3. n - 1 \in S
    BY <2>1, <2>2, ExprAssumption
  <2>4. (n - 1) + 1 \in S
    BY <1>2, <2>3
  <2>. QED
    BY <2>1, <2>2, <2>4
<1>4. PICK f \in [Expr -> R] : Solves(f, Depth + 1)
  BY <1>3 DEF S
<1>. QED
  BY <1>4, ExprAssumption

LEMMA FractionParts ==
    ASSUME NEW a \in Fraction
    PROVE  a[1] \in Int /\ a[2] \in Nat /\ a[2] > 0 /\ a = <<a[1], a[2]>>
  BY DEF Fraction

LEMMA PositiveProduct ==
    ASSUME NEW m \in Int, NEW n \in Int, m > 0, n > 0
    PROVE  m * n \in Nat \ {0}
  OBVIOUS

LEMMA ProductSigns ==
    ASSUME NEW m \in Int, NEW n \in Int
    PROVE  /\ m * n \in Int
           /\ m < 0 /\ n > 0 => -(n * m) \in Nat \ {0}
           /\ m # 0 /\ n # 0 => m * n # 0
  OBVIOUS

LEMMA FractionsClosed ==
    ASSUME NEW a \in Fraction, NEW b \in Fraction
    PROVE  /\ Minus(a) \in Fraction /\ Add(a, b) \in Fraction /\ Times(a, b) \in Fraction
           /\ ~Zero(b) => Quot(a, b) \in Fraction
<1>1. /\ a[1] \in Int /\ a[2] \in Nat /\ a[2] > 0
      /\ b[1] \in Int /\ b[2] \in Nat /\ b[2] > 0
  BY FractionParts
<1>2. \A n \in Int, d \in Nat \ {0} : <<n, d>> \in Fraction
  BY DEF Fraction
<1>. DEFINE a1 == a[1]
            a2 == a[2]
            b1 == b[1]
            b2 == b[2]
<1>. HIDE DEF a1, a2, b1, b2
<1>3. a1 \in Int /\ a2 \in Int /\ a2 > 0 /\ b1 \in Int /\ b2 \in Int /\ b2 > 0
  BY <1>1 DEF a1, a2, b1, b2
<1>4. -a1 \in Int /\ a2 \in Nat \ {0}
  BY <1>3
<1>5. a1 * b2 + b1 * a2 \in Int /\ a2 * b2 \in Nat \ {0} /\ a1 * b1 \in Int
  BY <1>3, PositiveProduct
<1>6. /\ b1 > 0 => a1 * b2 \in Int /\ a2 * b1 \in Nat \ {0}
      /\ b1 < 0 => -(a1 * b2) \in Int /\ -(a2 * b1) \in Nat \ {0}
  BY <1>3, PositiveProduct, ProductSigns
<1>7. Minus(a) = <<-a1, a2>> /\ Add(a, b) = <<a1 * b2 + b1 * a2, a2 * b2>>
      /\ Times(a, b) = <<a1 * b1, a2 * b2>>
  BY DEF Minus, Add, Times, a1, a2, b1, b2
<1>8. Quot(a, b) = IF b1 > 0 THEN <<a1 * b2, a2 * b1>> ELSE <<-(a1 * b2), -(a2 * b1)>>
  BY DEF Quot, a1, a2, b1, b2
<1>9. ~Zero(b) => b1 > 0 \/ b1 < 0
  BY <1>3 DEF Zero, b1
<1>10. Minus(a) \in Fraction /\ Add(a, b) \in Fraction /\ Times(a, b) \in Fraction
  BY <1>2, <1>4, <1>5, <1>7
<1>11. ~Zero(b) => Quot(a, b) \in Fraction
  <2>1. CASE b1 > 0
    BY <1>2, <1>6, <1>8, <2>1
  <2>2. CASE b1 < 0
    <3>1. ~(b1 > 0)
      BY <1>3, <2>2
    <3>. QED
      BY <1>2, <1>6, <1>8, <2>2, <3>1
  <2>. QED
    BY <1>9, <2>1, <2>2
<1>. QED
  BY <1>10, <1>11

\* The products of which an equality of fractions is made, reordered.
LEMMA Polynomials ==
    ASSUME NEW w1 \in Int, NEW w2 \in Int, NEW d1 \in Int, NEW d2 \in Int,
           NEW k1 \in Int, NEW k2 \in Int
    PROVE  /\ w1 * (d2 * k2) = (d1 * k2 + (-k1) * d2) * w2
                => (w1 * k2 + k1 * w2) * d2 = d1 * (w2 * k2)
           /\ w1 * (d2 * k2) = (d1 * k2 + (-k1) * d2) * w2
                => (k1 * w2 + w1 * k2) * d2 = d1 * (k2 * w2)
           /\ w1 * (d2 * k2) = (d1 * k2 + k1 * d2) * w2
                => (w1 * k2 + (-k1) * w2) * d2 = d1 * (w2 * k2)
           /\ w1 * (k2 * d2) = (k1 * d2 + (-d1) * k2) * w2
                => (k1 * w2 + (-w1) * k2) * d2 = d1 * (k2 * w2)
           /\ w1 * (d2 * k2) = (d1 * k1) * w2
                => /\ (w1 * k2) * d2 = d1 * (w2 * k1)
                   /\ (-(w1 * k2)) * d2 = d1 * (-(w2 * k1))
           /\ w1 * (k2 * d1) = (k1 * d2) * w2
                => /\ (k1 * w2) * d2 = d1 * (k2 * w1)
                   /\ (-(k1 * w2)) * d2 = d1 * (-(k2 * w1))
           /\ w1 * (-(k2 * d1)) = (-(k1 * d2)) * w2
                => /\ (k1 * w2) * d2 = d1 * (k2 * w1)
                   /\ (-(k1 * w2)) * d2 = d1 * (-(k2 * w1))
  OBVIOUS

LEMMA MorePolynomials ==
    ASSUME NEW w1 \in Int, NEW w2 \in Int, NEW d1 \in Int, NEW d2 \in Int,
           NEW k1 \in Int, NEW k2 \in Int,
           \/ w1 * (d2 * k1) = (d1 * k2) * w2
           \/ w1 * (-(d2 * k1)) = (-(d1 * k2)) * w2
    PROVE  (w1 * k1) * d2 = d1 * (w2 * k2) /\ (k1 * w1) * d2 = d1 * (k2 * w2)
  OBVIOUS

Equal(a, b) == a[1] * b[2] = b[1] * a[2]

\* The goal for an operand is what the operation takes to the desired value.
LEMMA GoalsInvert ==
    ASSUME NEW op \in BinaryOps, NEW onLeft \in BOOLEAN,
           NEW d \in Fraction, NEW k \in Fraction, NEW w \in Fraction,
           NEW g \in Goals(op, onLeft, d, k), Equal(w, g),
           op = "div" => ~Zero(k)
    PROVE  /\ op = "div" => ~Zero(IF onLeft THEN k ELSE w)
           /\ Equal(IF onLeft THEN Operate(op, w, k) ELSE Operate(op, k, w), d)
<1>. DEFINE w1 == w[1]
            w2 == w[2]
            d1 == d[1]
            d2 == d[2]
            k1 == k[1]
            k2 == k[2]
            v == IF onLeft THEN Operate(op, w, k) ELSE Operate(op, k, w)
<1>1. /\ w1 \in Int /\ w2 \in Int /\ d1 \in Int /\ d2 \in Int /\ k1 \in Int /\ k2 \in Int
      /\ w2 > 0 /\ d2 > 0 /\ k2 > 0
  BY FractionParts
<1>2. g[1] \in Int => Equal(w, g) = (w1 * g[2] = g[1] * w2)
  BY DEF Equal
<1>3. Equal(v, d) <=> v[1] * d2 = d1 * v[2]
  BY DEF Equal
<1>. HIDE DEF w1, w2, d1, d2, k1, k2, v
<1>4. CASE op = "add" /\ onLeft
  <2>1. g = <<d1 * k2 + (-k1) * d2, d2 * k2>>
    BY <1>4 DEF Goals, Add, Minus, d1, d2, k1, k2
  <2>2. w1 * (d2 * k2) = (d1 * k2 + (-k1) * d2) * w2
    BY <2>1 DEF Equal, w1, w2
  <2>3. v = <<w1 * k2 + k1 * w2, w2 * k2>>
    BY <1>4 DEF v, Operate, Add, w1, w2, k1, k2
  <2>4. (w1 * k2 + k1 * w2) * d2 = d1 * (w2 * k2)
    BY <1>1, <2>2, Polynomials
  <2>. QED
    BY <1>3, <1>4, <2>3, <2>4 DEF v
<1>5. CASE op = "add" /\ ~onLeft
  <2>1. g = <<d1 * k2 + (-k1) * d2, d2 * k2>>
    BY <1>5 DEF Goals, Add, Minus, d1, d2, k1, k2
  <2>2. w1 * (d2 * k2) = (d1 * k2 + (-k1) * d2) * w2
    BY <2>1 DEF Equal, w1, w2
  <2>3. v = <<k1 * w2 + w1 * k2, k2 * w2>>
    BY <1>5 DEF v, Operate, Add, w1, w2, k1, k2
  <2>4. (k1 * w2 + w1 * k2) * d2 = d1 * (k2 * w2)
    BY <1>1, <2>2, Polynomials
  <2>. QED
    BY <1>3, <1>5, <2>3, <2>4 DEF v
<1>6. CASE op = "sub" /\ onLeft
  <2>1. g = <<d1 * k2 + k1 * d2, d2 * k2>>
    BY <1>6 DEF Goals, Add, d1, d2, k1, k2
  <2>2. w1 * (d2 * k2) = (d1 * k2 + k1 * d2) * w2
    BY <2>1 DEF Equal, w1, w2
  <2>3. v = <<w1 * k2 + (-k1) * w2, w2 * k2>>
    BY <1>6 DEF v, Operate, Add, Minus, w1, w2, k1, k2
  <2>4. (w1 * k2 + (-k1) * w2) * d2 = d1 * (w2 * k2)
    BY <1>1, <2>2, Polynomials
  <2>. QED
    BY <1>3, <1>6, <2>3, <2>4 DEF v
<1>7. CASE op = "sub" /\ ~onLeft
  <2>1. g = <<k1 * d2 + (-d1) * k2, k2 * d2>>
    BY <1>7 DEF Goals, Add, Minus, d1, d2, k1, k2
  <2>2. w1 * (k2 * d2) = (k1 * d2 + (-d1) * k2) * w2
    BY <2>1 DEF Equal, w1, w2
  <2>3. v = <<k1 * w2 + (-w1) * k2, k2 * w2>>
    BY <1>7 DEF v, Operate, Add, Minus, w1, w2, k1, k2
  <2>4. (k1 * w2 + (-w1) * k2) * d2 = d1 * (k2 * w2)
    BY <1>1, <2>2, Polynomials
  <2>. QED
    BY <1>3, <1>7, <2>3, <2>4 DEF v
<1>8. CASE op = "mul"
  <2>1. g = Quot(d, k) /\ ~Zero(k)
    BY <1>8 DEF Goals
  <2>2. \/ w1 * (d2 * k1) = (d1 * k2) * w2
        \/ w1 * (-(d2 * k1)) = (-(d1 * k2)) * w2
    BY <2>1 DEF Quot, Equal, w1, w2, d1, d2, k1, k2
  <2>3. (w1 * k1) * d2 = d1 * (w2 * k2) /\ (k1 * w1) * d2 = d1 * (k2 * w2)
    BY <1>1, <2>2, MorePolynomials
  <2>4. v = IF onLeft THEN <<w1 * k1, w2 * k2>> ELSE <<k1 * w1, k2 * w2>>
    BY <1>8 DEF v, Operate, Times, w1, w2, k1, k2
  <2>5. v[1] * d2 = d1 * v[2]
    BY <2>3, <2>4
  <2>. QED
    BY <1>3, <1>8, <2>5 DEF v
<1>9. CASE op = "div" /\ onLeft
  <2>1. g = <<d1 * k1, d2 * k2>> /\ ~Zero(k)
    BY <1>9 DEF Goals, Times, d1, d2, k1, k2
  <2>2. w1 * (d2 * k2) = (d1 * k1) * w2
    BY <2>1 DEF Equal, w1, w2
  <2>3. v = IF k1 > 0 THEN <<w1 * k2, w2 * k1>> ELSE <<-(w1 * k2), -(w2 * k1)>>
    BY <1>9 DEF v, Operate, Quot, w1, w2, k1, k2
  <2>4. /\ (w1 * k2) * d2 = d1 * (w2 * k1)
        /\ (-(w1 * k2)) * d2 = d1 * (-(w2 * k1))
    BY <1>1, <2>2, Polynomials
  <2>5. v[1] * d2 = d1 * v[2]
    BY <2>3, <2>4
  <2>. QED
    BY <1>3, <1>9, <2>1, <2>5 DEF v
<1>10. CASE op = "div" /\ ~onLeft
  <2>1. g = Quot(k, d) /\ ~Zero(d) /\ ~Zero(k)
    BY <1>10 DEF Goals
  <2>2. \/ w1 * (k2 * d1) = (k1 * d2) * w2
        \/ w1 * (-(k2 * d1)) = (-(k1 * d2)) * w2
    BY <2>1 DEF Quot, Equal, w1, w2, d1, d2, k1, k2
  <2>3. w1 # 0
    <3>1. k1 # 0
      BY <2>1 DEF Zero, k1
    <3>2. k1 * d2 \in Int /\ k1 * d2 # 0
      BY <1>1, <3>1, ProductSigns
    <3>3. -(k1 * d2) \in Int /\ -(k1 * d2) # 0
      BY <3>2
    <3>4. (k1 * d2) * w2 # 0 /\ (-(k1 * d2)) * w2 # 0
      BY <1>1, <3>2, <3>3, ProductSigns
    <3>5. k2 * d1 \in Int /\ -(k2 * d1) \in Int
      BY <1>1, ProductSigns
    <3>6. w1 = 0 => w1 * (k2 * d1) = 0 /\ w1 * (-(k2 * d1)) = 0
      BY <3>5
    <3>. QED
      BY <2>2, <3>4, <3>6
  <2>4. v = IF w1 > 0 THEN <<k1 * w2, k2 * w1>> ELSE <<-(k1 * w2), -(k2 * w1)>>
    BY <1>10 DEF v, Operate, Quot, w1, w2, k1, k2
  <2>5. /\ (k1 * w2) * d2 = d1 * (k2 * w1)
        /\ (-(k1 * w2)) * d2 = d1 * (-(k2 * w1))
    BY <1>1, <2>2, Polynomials
  <2>6. v[1] * d2 = d1 * v[2]
    BY <2>4, <2>5
  <2>7. ~Zero(w)
    BY <2>3 DEF Zero, w1
  <2>. QED
    BY <1>3, <1>10, <2>6, <2>7 DEF v
<1>. QED
  BY <1>4, <1>5, <1>6, <1>7, <1>8, <1>9, <1>10 DEF BinaryOps

LEMMA GoalsAreFractions ==
    ASSUME NEW op \in BinaryOps, NEW onLeft \in BOOLEAN,
           NEW d \in Fraction, NEW k \in Fraction
    PROVE  Goals(op, onLeft, d, k) \subseteq Fraction
<1>1. Minus(k) \in Fraction /\ Minus(d) \in Fraction
  BY FractionsClosed
<1>2. Add(d, Minus(k)) \in Fraction /\ Add(d, k) \in Fraction /\ Add(k, Minus(d)) \in Fraction
  BY <1>1, FractionsClosed
<1>3. /\ ~Zero(k) => Quot(d, k) \in Fraction
      /\ ~Zero(d) => Quot(k, d) \in Fraction
      /\ Times(d, k) \in Fraction
  BY FractionsClosed
<1>. QED
  BY <1>2, <1>3 DEF Goals, BinaryOps

LEMMA OperandsOf ==
    ASSUME NEW e \in Expr
    PROVE  /\ Operands(e) \subseteq Expr
           /\ e.op \in {"num", "var", "neg"} \cup BinaryOps \cup CompareOps
           /\ e.op = "neg" => e.arg \in Operands(e)
           /\ e.op \in BinaryOps \cup CompareOps
                => e.left \in Operands(e) /\ e.right \in Operands(e)
  BY ExprAssumption DEF Operands, BinaryOps, CompareOps

-----------------------------------------------------------------------------
\* Each function on expressions is, at every expression, what its definition says.
NamesIn(names, y) == IF y.op = "var" THEN {y.id} ELSE UNION {names[a] : a \in Operands(y)}

LEMMA VariablesUnfold ==
    ASSUME NEW e \in Expr
    PROVE  Variables(e) = IF e.op = "var" THEN {e.id}
                          ELSE UNION {Variables(a) : a \in Operands(e)}
<1>. DEFINE R == SUBSET {y.id : y \in Expr}
            B == [p \in [Expr -> R] \X Expr |-> NamesIn(p[1], p[2])]
            names == CHOOSE f : f = [y \in Expr |-> NamesIn(f, y)]
<1>1. \A f \in [Expr -> R], y \in Expr : NamesIn(f, y) \in R
  BY OperandsOf DEF NamesIn
<1>2. \A f, g \in [Expr -> R], y \in Expr :
          (\A a \in Operands(y) : f[a] = g[a]) => NamesIn(f, y) = NamesIn(g, y)
  BY DEF NamesIn
<1>. HIDE DEF R
<1>3. /\ B \in [[Expr -> R] \X Expr -> R]
      /\ \A f \in [Expr -> R], y \in Expr : B[<<f, y>>] = NamesIn(f, y)
  BY <1>1
<1>. HIDE DEF B
<1>4. PICK f \in [Expr -> R] : \A y \in Expr : f[y] = B[<<f, y>>]
  <2>1. R # {}
    BY DEF R
  <2>2. ASSUME NEW g \in [Expr -> R], NEW h \in [Expr -> R], NEW y \in Expr,
               \A a \in Operands(y) : g[a] = h[a]
        PROVE  B[<<g, y>>] = B[<<h, y>>]
    <3>1. NamesIn(g, y) = NamesIn(h, y)
      BY <1>2, <2>2
    <3>. QED
      BY <1>3, <3>1
  <2>3. LooksAtOperands(R, B)
    BY <1>3, <2>1, <2>2 DEF LooksAtOperands
  <2>. QED
    BY <2>3, ExprRecursion
<1>5. f = [y \in Expr |-> NamesIn(f, y)]
  BY <1>3, <1>4
<1>6. names = [y \in Expr |-> NamesIn(names, y)]
  BY <1>5
<1>7. \A y : Variables(y) = names[y]
  BY DEF Variables, names, NamesIn
<1>. HIDE DEF names
<1>8. names[e] = NamesIn(names, e)
  BY <1>6
<1>. QED
  BY <1>7, <1>8 DEF NamesIn

\* Every known value is a number.
AreNumbers(known) == \A v \in DOMAIN known : known[v] \in Fraction

LEMMA OperateIsFraction ==
    ASSUME NEW op \in BinaryOps, NEW a \in Fraction, NEW b \in Fraction, op = "div" => ~Zero(b)
    PROVE  Operate(op, a, b) \in Fraction
<1>1. Minus(b) \in Fraction
  BY FractionsClosed
<1>. QED
  BY <1>1, FractionsClosed DEF Operate, BinaryOps

\* What the operands of e are.
OfOperands(f, e) == [o \in Operands(e) |-> f[o]]

LEMMA EvalUnfold ==
    ASSUME NEW known, AreNumbers(known), NEW e \in Expr
    PROVE  Eval(e, known) = ValueFrom(e, [o \in Operands(e) |-> Eval(o, known)], known)
<1>. DEFINE R == SUBSET Fraction
            Step(f, y) == ValueFrom(y, OfOperands(f, y), known)
            B == [p \in [Expr -> R] \X Expr |-> Step(p[1], p[2])]
            val == CHOOSE f : f = [y \in Expr |-> Step(f, y)]
<1>1. ASSUME NEW f \in [Expr -> R], NEW y \in Expr
      PROVE  Step(f, y) \in R
  <2>. DEFINE of == OfOperands(f, y)
  <2>1. \A o \in Operands(y) : of[o] \subseteq Fraction
    BY OperandsOf DEF OfOperands
  <2>. HIDE DEF of
  <2>2. CASE y.op \in {"num", "var"}
    BY <2>2, ExprAssumption DEF AreNumbers, ValueFrom, BinaryOps
  <2>3. CASE y.op = "neg"
    <3>1. of[y.arg] \subseteq Fraction
      BY <2>1, <2>3, OperandsOf
    <3>2. Step(f, y) = {Minus(a) : a \in of[y.arg]}
      BY <2>3 DEF ValueFrom, BinaryOps, of
    <3>. QED
      BY <3>1, <3>2, FractionsClosed
  <2>4. CASE y.op \in BinaryOps
    <3>1. of[y.left] \subseteq Fraction /\ of[y.right] \subseteq Fraction
      BY <2>1, <2>4, OperandsOf
    <3>2. \A a \in of[y.left], b \in {k \in of[y.right] : y.op = "div" => ~Zero(k)} :
              Operate(y.op, a, b) \in Fraction
      BY <2>4, <3>1, OperateIsFraction
    <3>3. Step(f, y) = {Operate(y.op, a, b) : a \in of[y.left],
                            b \in {k \in of[y.right] : y.op = "div" => ~Zero(k)}}
      BY <2>4 DEF ValueFrom, BinaryOps, of
    <3>. QED
      BY <3>2, <3>3
  <2>5. CASE y.op \in CompareOps
    BY <2>5 DEF ValueFrom, CompareOps, BinaryOps
  <2>. QED
    BY <2>2, <2>3, <2>4, <2>5, OperandsOf
<1>2. \A f, g \in [Expr -> R], y \in Expr :
          (\A o \in Operands(y) : f[o] = g[o]) => Step(f, y) = Step(g, y)
  BY DEF OfOperands
<1>. HIDE DEF R, Step
<1>3. /\ B \in [[Expr -> R] \X Expr -> R]
      /\ \A f \in [Expr -> R], y \in Expr : B[<<f, y>>] = Step(f, y)
  BY <1>1
<1>. HIDE DEF B
<1>4. PICK f \in [Expr -> R] : \A y \in Expr : f[y] = B[<<f, y>>]
  <2>1. R # {}
    BY DEF R
  <2>2. LooksAtOperands(R, B)
    BY <1>2, <1>3, <2>1 DEF LooksAtOperands
  <2>. QED
    BY <2>2, ExprRecursion
<1>5. f = [y \in Expr |-> Step(f, y)]
  BY <1>3, <1>4
<1>6. val = [y \in Expr |-> Step(val, y)]
  BY <1>5
<1>7. \A y : Eval(y, known) = val[y]
  BY DEF Eval, val, Step, OfOperands
<1>. HIDE DEF val
<1>8. Eval(e, known) = Step(val, e)
  BY <1>6, <1>7
<1>9. OfOperands(val, e) = [o \in Operands(e) |-> Eval(o, known)]
  BY <1>7 DEF OfOperands
<1>. QED
  BY <1>8, <1>9 DEF Step

\* What a binary operation can make of the values of its operands.
Results(op, L, R) == {Operate(op, a, b) : a \in L, b \in {k \in R : op = "div" => ~Zero(k)}}

LEMMA EvalOfBinary ==
    ASSUME NEW known, AreNumbers(known), NEW e \in Expr, e.op \in BinaryOps
    PROVE  Eval(e, known) = Results(e.op, Eval(e.left, known), Eval(e.right, known))
<1>. DEFINE of == [o \in Operands(e) |-> Eval(o, known)]
<1>1. Eval(e, known) = ValueFrom(e, of, known)
  BY EvalUnfold
<1>2. of[e.left] = Eval(e.left, known) /\ of[e.right] = Eval(e.right, known)
  BY OperandsOf
<1>. HIDE DEF of
<1>3. Eval(e, known) = Results(e.op, of[e.left], of[e.right])
  BY <1>1 DEF ValueFrom, BinaryOps, Results
<1>. QED
  BY <1>2, <1>3

LEMMA EvalOfOthers ==
    ASSUME NEW known, AreNumbers(known), NEW e \in Expr
    PROVE  /\ e.op = "num" => Eval(e, known) = {e.value}
           /\ e.op = "var" => Eval(e, known) =
                                  IF e.id \in DOMAIN known THEN {known[e.id]} ELSE {}
           /\ e.op = "neg" => Eval(e, known) = {Minus(a) : a \in Eval(e.arg, known)}
           /\ e.op \in CompareOps => Eval(e, known) = {}
<1>. DEFINE of == [o \in Operands(e) |-> Eval(o, known)]
<1>1. Eval(e, known) = ValueFrom(e, of, known)
  BY EvalUnfold
<1>2. e.op = "neg" => of[e.arg] = Eval(e.arg, known)
  BY OperandsOf
<1>. HIDE DEF of
<1>3. e.op \in {"num", "var"} \cup CompareOps =>
          /\ e.op = "num" => Eval(e, known) = {e.value}
          /\ e.op = "var" => Eval(e, known) =
                                  IF e.id \in DOMAIN known THEN {known[e.id]} ELSE {}
          /\ e.op \in CompareOps => Eval(e, known) = {}
  BY <1>1 DEF ValueFrom, CompareOps, BinaryOps
<1>4. e.op = "neg" => Eval(e, known) = {Minus(a) : a \in of[e.arg]}
  BY <1>1 DEF ValueFrom, BinaryOps
<1>. QED
  BY <1>2, <1>3, <1>4

\* An expression has at most one value, and it is a number.
LEMMA EvalIsOneNumber ==
    ASSUME NEW known, AreNumbers(known)
    PROVE  \A e \in Expr : /\ Eval(e, known) \subseteq Fraction
                           /\ \A a, b \in Eval(e, known) : a = b
<1>. DEFINE Good(e) == /\ Eval(e, known) \subseteq Fraction
                       /\ \A a, b \in Eval(e, known) : a = b
            T == {e \in Expr : Good(e)}
<1>1. ASSUME NEW e \in Expr, Operands(e) \subseteq T
      PROVE  Good(e)
  <2>1. CASE e.op = "num"
    BY <2>1, EvalOfOthers, ExprAssumption
  <2>2. CASE e.op = "var"
    BY <2>2, EvalOfOthers DEF AreNumbers
  <2>3. CASE e.op = "neg"
    <3>1. Good(e.arg)
      BY <1>1, <2>3, OperandsOf
    <3>2. Eval(e, known) = {Minus(a) : a \in Eval(e.arg, known)}
      BY <2>3, EvalOfOthers
    <3>. QED
      BY <3>1, <3>2, FractionsClosed
  <2>4. CASE e.op \in BinaryOps
    <3>1. Good(e.left) /\ Good(e.right)
      BY <1>1, <2>4, OperandsOf
    <3>2. Eval(e, known) = Results(e.op, Eval(e.left, known), Eval(e.right, known))
      BY <2>4, EvalOfBinary
    <3>3. \A a \in Eval(e.left, known), b \in Eval(e.right, known) :
              (e.op = "div" => ~Zero(b)) => Operate(e.op, a, b) \in Fraction
      BY <2>4, <3>1, OperateIsFraction
    <3>. QED
      BY <3>1, <3>2, <3>3 DEF Results
  <2>5. CASE e.op \in CompareOps
    BY <2>5, EvalOfOthers
  <2>. QED
    BY <2>1, <2>2, <2>3, <2>4, <2>5, OperandsOf
<1>2. \A e \in Expr : Operands(e) \subseteq T => e \in T
  BY <1>1
<1>. HIDE DEF T
<1>3. Expr \subseteq T
  BY <1>2, ExprInduction
<1>. QED
  BY <1>3 DEF T

\* More values are known, and the ones known before are the same.
Extends(more, known) ==
    /\ AreNumbers(more) /\ AreNumbers(known)
    /\ DOMAIN known \subseteq DOMAIN more
    /\ \A v \in DOMAIN known : more[v] = known[v]

\* What has a value keeps it when more is known.
LEMMA EvalGrows ==
    ASSUME NEW known, NEW more, Extends(more, known)
    PROVE  \A e \in Expr : Eval(e, known) \subseteq Eval(e, more)
<1>. DEFINE T == {e \in Expr : Eval(e, known) \subseteq Eval(e, more)}
<1>0. AreNumbers(known) /\ AreNumbers(more)
  BY DEF Extends
<1>1. ASSUME NEW e \in Expr, Operands(e) \subseteq T
      PROVE  Eval(e, known) \subseteq Eval(e, more)
  <2>1. CASE e.op = "num"
    BY <1>0, <2>1, EvalOfOthers
  <2>2. CASE e.op = "var"
    BY <1>0, <2>2, EvalOfOthers DEF Extends
  <2>3. CASE e.op = "neg"
    <3>1. Eval(e.arg, known) \subseteq Eval(e.arg, more)
      BY <1>1, <2>3, OperandsOf
    <3>2. /\ Eval(e, known) = {Minus(a) : a \in Eval(e.arg, known)}
          /\ Eval(e, more) = {Minus(a) : a \in Eval(e.arg, more)}
      BY <1>0, <2>3, EvalOfOthers
    <3>. QED
      BY <3>1, <3>2
  <2>4. CASE e.op \in BinaryOps
    <3>1. /\ Eval(e.left, known) \subseteq Eval(e.left, more)
          /\ Eval(e.right, known) \subseteq Eval(e.right, more)
      BY <1>1, <2>4, OperandsOf
    <3>2. Eval(e, known) = Results(e.op, Eval(e.left, known), Eval(e.right, known))
      BY <1>0, <2>4, EvalOfBinary
    <3>3. Eval(e, more) = Results(e.op, Eval(e.left, more), Eval(e.right, more))
      BY <1>0, <2>4, EvalOfBinary
    <3>. QED
      BY <3>1, <3>2, <3>3 DEF Results
  <2>5. CASE e.op \in CompareOps
    BY <1>0, <2>5, EvalOfOthers
  <2>. QED
    BY <2>1, <2>2, <2>3, <2>4, <2>5, OperandsOf
<1>2. \A e \in Expr : Operands(e) \subseteq T => e \in T
  BY <1>1
<1>. HIDE DEF T
<1>3. Expr \subseteq T
  BY <1>2, ExprInduction
<1>. QED
  BY <1>3 DEF T

-----------------------------------------------------------------------------
\* The operand that holds the unknown, and the other one.
OnLeft(e, x) == x \in Variables(e.left)
Holding(e, x) == IF OnLeft(e, x) THEN e.left ELSE e.right
Other(e, x) == IF OnLeft(e, x) THEN e.right ELSE e.left
GoalsFor(e, x, d, known) == UNION {Goals(e.op, OnLeft(e, x), d, k) : k \in Eval(Other(e, x), known)}
OnOneSide(e, x) == e.op \in BinaryOps /\ (x \in Variables(e.left)) # (x \in Variables(e.right))

LEMMA SolutionByOperator ==
    ASSUME NEW e \in Expr, NEW of, NEW x, NEW d, NEW known
    PROVE  /\ e.op = "var" /\ e.id = x => SolutionFrom(e, of, x, d, known) = {d}
           /\ e.op = "neg" /\ x \in Variables(e.arg)
                => SolutionFrom(e, of, x, d, known) = of[e.arg][Minus(d)]
           /\ OnOneSide(e, x) /\ e.op # "mul"
                => SolutionFrom(e, of, x, d, known)
                       = UNION {of[Holding(e, x)][g] : g \in GoalsFor(e, x, d, known)}
           /\ OnOneSide(e, x) /\ e.op = "mul"
                => SolutionFrom(e, of, x, d, known) = GoalsFor(e, x, d, known)
           /\ \/ e.op = "var" /\ e.id = x
              \/ e.op = "neg" /\ x \in Variables(e.arg)
              \/ OnOneSide(e, x)
              \/ SolutionFrom(e, of, x, d, known) = {}
  BY DEF SolutionFrom, OnOneSide, Holding, Other, OnLeft, GoalsFor, BinaryOps

LEMMA GoalsForAreFractions ==
    ASSUME NEW e \in Expr, NEW x, NEW d \in Fraction, NEW known, AreNumbers(known), OnOneSide(e, x)
    PROVE  /\ Other(e, x) \in Expr /\ Holding(e, x) \in Operands(e)
           /\ OnLeft(e, x) \in BOOLEAN
           /\ GoalsFor(e, x, d, known) \subseteq Fraction
<1>1. Other(e, x) \in Expr /\ Holding(e, x) \in Operands(e)
  BY OperandsOf DEF Other, Holding, OnOneSide
<1>2. OnLeft(e, x) \in BOOLEAN
  BY DEF OnLeft
<1>3. Eval(Other(e, x), known) \subseteq Fraction
  BY <1>1, EvalIsOneNumber
<1>. QED
  BY <1>1, <1>2, <1>3, GoalsAreFractions DEF GoalsFor, OnOneSide

LEMMA SolveForUnfold ==
    ASSUME NEW x, NEW known, AreNumbers(known), NEW e \in Expr, NEW d \in Fraction
    PROVE  /\ e.op = "var" /\ e.id = x => SolveFor(e, x, d, known) = {d}
           /\ e.op = "neg" /\ x \in Variables(e.arg)
                => SolveFor(e, x, d, known) = SolveFor(e.arg, x, Minus(d), known)
           /\ OnOneSide(e, x) /\ e.op # "mul"
                => SolveFor(e, x, d, known)
                       = UNION {SolveFor(Holding(e, x), x, g, known) : g \in GoalsFor(e, x, d, known)}
           /\ OnOneSide(e, x) /\ e.op = "mul"
                => SolveFor(e, x, d, known) = GoalsFor(e, x, d, known)
           /\ \/ e.op = "var" /\ e.id = x
              \/ e.op = "neg" /\ x \in Variables(e.arg)
              \/ OnOneSide(e, x)
              \/ SolveFor(e, x, d, known) = {}
<1>. DEFINE R == [Fraction -> SUBSET Fraction]
            Step(f, y) == [g \in Fraction |-> SolutionFrom(y, OfOperands(f, y), x, g, known)]
            B == [p \in [Expr -> R] \X Expr |-> Step(p[1], p[2])]
            solved == CHOOSE f : f = [y \in Expr |-> Step(f, y)]
<1>1. ASSUME NEW f \in [Expr -> R], NEW y \in Expr, NEW g \in Fraction
      PROVE  SolutionFrom(y, OfOperands(f, y), x, g, known) \subseteq Fraction
  <2>. DEFINE of == OfOperands(f, y)
  <2>1. \A o \in Operands(y) : of[o] \in R
    BY OperandsOf DEF OfOperands
  <2>. HIDE DEF of
  <2>2. CASE y.op = "var" /\ y.id = x
    BY <2>2, SolutionByOperator
  <2>3. CASE y.op = "neg" /\ x \in Variables(y.arg)
    <3>1. of[y.arg] \in R /\ Minus(g) \in Fraction
      BY <2>1, <2>3, OperandsOf, FractionsClosed
    <3>2. SolutionFrom(y, of, x, g, known) = of[y.arg][Minus(g)]
      BY <2>3, SolutionByOperator
    <3>. QED
      BY <3>1, <3>2 DEF of
  <2>4. CASE OnOneSide(y, x)
    <3>1. GoalsFor(y, x, g, known) \subseteq Fraction /\ of[Holding(y, x)] \in R
      BY <2>1, <2>4, GoalsForAreFractions
    <3>2. \/ SolutionFrom(y, of, x, g, known) = GoalsFor(y, x, g, known)
          \/ SolutionFrom(y, of, x, g, known)
                 = UNION {of[Holding(y, x)][h] : h \in GoalsFor(y, x, g, known)}
      BY <2>4, SolutionByOperator
    <3>. QED
      BY <3>1, <3>2 DEF of
  <2>5. CASE SolutionFrom(y, of, x, g, known) = {}
    BY <2>5 DEF of
  <2>. QED
    BY <2>2, <2>3, <2>4, <2>5, SolutionByOperator
<1>2. \A f, g \in [Expr -> R], y \in Expr :
          (\A o \in Operands(y) : f[o] = g[o]) => Step(f, y) = Step(g, y)
  <2>. SUFFICES ASSUME NEW f \in [Expr -> R], NEW g \in [Expr -> R], NEW y \in Expr,
                       \A o \in Operands(y) : f[o] = g[o]
                PROVE  Step(f, y) = Step(g, y)
    OBVIOUS
  <2>1. OfOperands(f, y) = OfOperands(g, y)
    BY DEF OfOperands
  <2>. QED
    BY <2>1
<1>3. \A f \in [Expr -> R], y \in Expr : Step(f, y) \in R
  BY <1>1
<1>. HIDE DEF R, Step
<1>4. /\ B \in [[Expr -> R] \X Expr -> R]
      /\ \A f \in [Expr -> R], y \in Expr : B[<<f, y>>] = Step(f, y)
  BY <1>3
<1>. HIDE DEF B
<1>5. PICK f \in [Expr -> R] : \A y \in Expr : f[y] = B[<<f, y>>]
  <2>1. R # {}
    <3>1. [g \in Fraction |-> {}] \in R
      BY DEF R
    <3>. QED
      BY <3>1
  <2>2. LooksAtOperands(R, B)
    BY <1>2, <1>4, <2>1 DEF LooksAtOperands
  <2>. QED
    BY <2>2, ExprRecursion
<1>6. f = [y \in Expr |-> Step(f, y)]
  BY <1>4, <1>5
<1>7. solved = [y \in Expr |-> Step(solved, y)]
  BY <1>6
<1>8. \A y, g : SolveFor(y, x, g, known) = solved[y][g]
  BY DEF SolveFor, solved, Step, OfOperands
<1>. HIDE DEF solved
<1>9. solved[e] = Step(solved, e)
  BY <1>7
<1>. DEFINE of == OfOperands(solved, e)
<1>10. SolveFor(e, x, d, known) = SolutionFrom(e, of, x, d, known)
  BY <1>8, <1>9 DEF Step
<1>11. \A o \in Operands(e) : of[o] = solved[o]
  BY DEF OfOperands
<1>. HIDE DEF of
<1>12. CASE e.op = "var" /\ e.id = x
  BY <1>10, <1>12, SolutionByOperator DEF OnOneSide, BinaryOps
<1>13. CASE e.op = "neg" /\ x \in Variables(e.arg)
  <2>1. of[e.arg][Minus(d)] = SolveFor(e.arg, x, Minus(d), known)
    BY <1>8, <1>11, <1>13, OperandsOf
  <2>2. SolveFor(e, x, d, known) = of[e.arg][Minus(d)]
    BY <1>10, <1>13, SolutionByOperator
  <2>. QED
    BY <1>13, <2>1, <2>2 DEF OnOneSide, BinaryOps
<1>14. CASE OnOneSide(e, x)
  <2>1. of[Holding(e, x)] = solved[Holding(e, x)]
    BY <1>11, <1>14, GoalsForAreFractions
  <2>2. \A g : of[Holding(e, x)][g] = SolveFor(Holding(e, x), x, g, known)
    BY <1>8, <2>1
  <2>3. e.op \notin {"var", "neg"}
    BY <1>14 DEF OnOneSide, BinaryOps
  <2>4. CASE e.op = "mul"
    BY <1>10, <1>14, <2>3, <2>4, SolutionByOperator
  <2>5. CASE e.op # "mul"
    <3>1. SolveFor(e, x, d, known) = UNION {of[Holding(e, x)][g] : g \in GoalsFor(e, x, d, known)}
      BY <1>10, <1>14, <2>5, SolutionByOperator
    <3>2. SolveFor(e, x, d, known)
              = UNION {SolveFor(Holding(e, x), x, g, known) : g \in GoalsFor(e, x, d, known)}
      BY <2>2, <3>1
    <3>. QED
      BY <1>14, <2>3, <2>5, <3>2
  <2>. QED
    BY <2>4, <2>5
<1>15. CASE /\ SolutionFrom(e, of, x, d, known) = {}
            /\ ~(e.op = "var" /\ e.id = x) /\ ~(e.op = "neg" /\ x \in Variables(e.arg))
            /\ ~OnOneSide(e, x)
  BY <1>10, <1>15
<1>. QED
  BY <1>12, <1>13, <1>14, <1>15, SolutionByOperator

WayFrom(way, y, x) == {y} \cup UNION {way[a] : a \in {o \in Operands(y) : x \in Variables(o)}}

LEMMA WayUnfold ==
    ASSUME NEW x, NEW e \in Expr
    PROVE  Way(e, x) = {e} \cup UNION {Way(a, x) : a \in {o \in Operands(e) : x \in Variables(o)}}
<1>. DEFINE R == SUBSET Expr
            B == [p \in [Expr -> R] \X Expr |-> WayFrom(p[1], p[2], x)]
            way == CHOOSE f : f = [y \in Expr |-> WayFrom(f, y, x)]
<1>1. \A f \in [Expr -> R], y \in Expr : WayFrom(f, y, x) \in R
  BY OperandsOf DEF WayFrom
<1>2. \A f, g \in [Expr -> R], y \in Expr :
          (\A a \in Operands(y) : f[a] = g[a]) => WayFrom(f, y, x) = WayFrom(g, y, x)
  BY DEF WayFrom
<1>. HIDE DEF R
<1>3. /\ B \in [[Expr -> R] \X Expr -> R]
      /\ \A f \in [Expr -> R], y \in Expr : B[<<f, y>>] = WayFrom(f, y, x)
  BY <1>1
<1>. HIDE DEF B
<1>4. PICK f \in [Expr -> R] : \A y \in Expr : f[y] = B[<<f, y>>]
  <2>1. R # {}
    BY DEF R
  <2>2. LooksAtOperands(R, B)
    BY <1>2, <1>3, <2>1 DEF LooksAtOperands
  <2>. QED
    BY <2>2, ExprRecursion
<1>5. f = [y \in Expr |-> WayFrom(f, y, x)]
  BY <1>3, <1>4
<1>6. way = [y \in Expr |-> WayFrom(way, y, x)]
  BY <1>5
<1>7. \A y : Way(y, x) = way[y]
  BY DEF Way, way, WayFrom
<1>. HIDE DEF way
<1>8. way[e] = WayFrom(way, e, x)
  BY <1>6
<1>. QED
  BY <1>7, <1>8 DEF WayFrom

\* Isolating x in an expression is isolating it in the operand that holds it.
LEMMA IsolableWithin ==
    ASSUME NEW x, NEW known, NEW e \in Expr, Isolable(e, x, known), NEW a \in Operands(e)
    PROVE  /\ x \in Variables(a) => Isolable(a, x, known)
           /\ e.op = "mul" /\ x \in Variables(a) => a.op = "var"
           /\ e.op = "div" /\ x \notin Variables(a) => \A k \in Eval(a, known) : ~Zero(k)
<1>1. e \in Way(e, x) /\ (x \in Variables(a) => Way(a, x) \subseteq Way(e, x))
  BY WayUnfold
<1>. QED
  BY <1>1 DEF Isolable

\* Only a variable of the expression is isolated.
LEMMA SolvedIsWithin ==
    ASSUME NEW x, NEW known, AreNumbers(known), NEW e \in Expr, NEW d \in Fraction,
           SolveFor(e, x, d, known) # {}
    PROVE  x \in Variables(e)
<1>1. CASE e.op = "var" /\ e.id = x
  BY <1>1, VariablesUnfold
<1>2. CASE e.op = "neg" /\ x \in Variables(e.arg)
  BY <1>2, VariablesUnfold, OperandsOf
<1>3. CASE OnOneSide(e, x)
  <2>1. e.op # "var"
    BY <1>3 DEF OnOneSide, BinaryOps
  <2>2. Variables(e) = UNION {Variables(a) : a \in Operands(e)}
    BY <2>1, VariablesUnfold
  <2>3. e.left \in Operands(e) /\ e.right \in Operands(e)
    BY <1>3, OperandsOf DEF OnOneSide
  <2>. QED
    BY <1>3, <2>2, <2>3 DEF OnOneSide
<1>. QED
  BY <1>1, <1>2, <1>3, SolveForUnfold

\* What is isolated is a number.
LEMMA SolvedIsNumber ==
    ASSUME NEW x, NEW known, AreNumbers(known)
    PROVE  \A e \in Expr : \A d \in Fraction : SolveFor(e, x, d, known) \subseteq Fraction
<1>. DEFINE T == {e \in Expr : \A d \in Fraction : SolveFor(e, x, d, known) \subseteq Fraction}
<1>1. ASSUME NEW e \in Expr, Operands(e) \subseteq T, NEW d \in Fraction
      PROVE  SolveFor(e, x, d, known) \subseteq Fraction
  <2>1. CASE e.op = "var" /\ e.id = x
    <3>1. SolveFor(e, x, d, known) = {d}
      BY <2>1, SolveForUnfold
    <3>. QED
      BY <3>1
  <2>2. CASE e.op = "neg" /\ x \in Variables(e.arg)
    <3>1. Minus(d) \in Fraction /\ e.arg \in T
      BY <1>1, <2>2, FractionsClosed, OperandsOf
    <3>. QED
      BY <2>2, <3>1, SolveForUnfold
  <2>3. CASE OnOneSide(e, x)
    <3>1. GoalsFor(e, x, d, known) \subseteq Fraction /\ Holding(e, x) \in T
      BY <1>1, <2>3, GoalsForAreFractions
    <3>2. \/ SolveFor(e, x, d, known) = GoalsFor(e, x, d, known)
          \/ SolveFor(e, x, d, known)
                 = UNION {SolveFor(Holding(e, x), x, g, known) : g \in GoalsFor(e, x, d, known)}
      BY <2>3, SolveForUnfold
    <3>. QED
      BY <3>1, <3>2
  <2>. QED
    BY <2>1, <2>2, <2>3, SolveForUnfold
<1>2. \A e \in Expr : Operands(e) \subseteq T => e \in T
  BY <1>1
<1>. HIDE DEF T
<1>3. Expr \subseteq T
  BY <1>2, ExprInduction
<1>. QED
  BY <1>3 DEF T

-----------------------------------------------------------------------------
\* An expression has the desired value once the unknown has the one isolated for it.
LEMMA SolutionSolves ==
    ASSUME NEW x, NEW known, NEW more, Extends(more, known), x \in DOMAIN more
    PROVE  \A e \in Expr : \A d \in Fraction :
               Isolable(e, x, more) /\ more[x] \in SolveFor(e, x, d, known)
                   => \E w \in Eval(e, more) : Equal(w, d)
<1>. DEFINE Solved(e, d) == \E w \in Eval(e, more) : Equal(w, d)
            Good(e) == \A d \in Fraction :
                Isolable(e, x, more) /\ more[x] \in SolveFor(e, x, d, known) => Solved(e, d)
            T == {e \in Expr : Good(e)}
<1>0. AreNumbers(known) /\ AreNumbers(more) /\ more[x] \in Fraction
  BY DEF Extends, AreNumbers
<1>1. ASSUME NEW e \in Expr, Operands(e) \subseteq T, NEW d \in Fraction,
             Isolable(e, x, more), more[x] \in SolveFor(e, x, d, known)
      PROVE  Solved(e, d)
  <2>1. CASE e.op = "var" /\ e.id = x
    <3>1. SolveFor(e, x, d, known) = {d}
      <4>1. AreNumbers(known)
        BY <1>0
      <4>. HIDE DEF T
      <4>. QED
        BY <2>1, <4>1, SolveForUnfold
    <3>2. Eval(e, more) = {more[x]}
      BY <1>0, <2>1, EvalOfOthers
    <3>. QED
      BY <1>1, <3>1, <3>2 DEF Equal
  <2>2. CASE e.op = "neg" /\ x \in Variables(e.arg)
    <3>1. Minus(d) \in Fraction /\ e.arg \in Operands(e) /\ e.arg \in Expr /\ e.arg \in T
      BY <1>1, <2>2, FractionsClosed, OperandsOf
    <3>2. more[x] \in SolveFor(e.arg, x, Minus(d), known)
      BY <1>0, <1>1, <2>2, SolveForUnfold
    <3>3. PICK w \in Eval(e.arg, more) : Equal(w, Minus(d))
      BY <1>1, <2>2, <3>1, <3>2, IsolableWithin
    <3>4. w \in Fraction
      BY <1>0, <3>1, <3>3, EvalIsOneNumber
    <3>5. Minus(w) \in Eval(e, more)
      BY <1>0, <2>2, <3>3, EvalOfOthers
    <3>6. Equal(Minus(w), d)
      <4>1. w[1] \in Int /\ w[2] \in Int /\ d[1] \in Int /\ d[2] \in Int
        BY <3>4, FractionParts
      <4>2. w[1] * d[2] = (-d[1]) * w[2]
        BY <3>3 DEF Equal, Minus
      <4>3. (-w[1]) * d[2] = d[1] * w[2]
        BY <4>1, <4>2
      <4>. QED
        BY <4>3 DEF Equal, Minus
    <3>. QED
      BY <3>5, <3>6
  <2>3. CASE OnOneSide(e, x)
    <3>. DEFINE h == Holding(e, x)
                o == Other(e, x)
    <3>1. /\ o \in Expr /\ h \in Expr /\ h \in T
          /\ h \in Operands(e) /\ o \in Operands(e)
          /\ x \in Variables(h) /\ x \notin Variables(o)
      BY <1>1, <2>3, OperandsOf DEF Holding, Other, OnOneSide, OnLeft
    <3>2. Isolable(h, x, more)
      BY <1>1, <3>1, IsolableWithin
    <3>3. PICK g \in GoalsFor(e, x, d, known) :
              \E w \in Eval(h, more) : Equal(w, g)
      <4>1. CASE e.op = "mul"
        <5>1. more[x] \in GoalsFor(e, x, d, known)
          BY <1>0, <1>1, <2>3, <4>1, SolveForUnfold
        <5>2. h.op = "var"
          BY <1>1, <3>1, <4>1, IsolableWithin
        <5>3. h.id = x
          BY <3>1, <5>2, VariablesUnfold
        <5>4. Eval(h, more) = {more[x]}
          BY <1>0, <3>1, <5>2, <5>3, EvalOfOthers
        <5>. QED
          BY <5>1, <5>4 DEF Equal
      <4>2. CASE e.op # "mul"
        <5>1. PICK g \in GoalsFor(e, x, d, known) : more[x] \in SolveFor(h, x, g, known)
          BY <1>0, <1>1, <2>3, <4>2, SolveForUnfold
        <5>2. g \in Fraction
          BY <1>0, <2>3, <5>1, GoalsForAreFractions
        <5>. QED
          BY <3>1, <3>2, <5>1, <5>2
      <4>. QED
        BY <4>1, <4>2
    <3>4. PICK w \in Eval(h, more) : Equal(w, g)
      BY <3>3
    <3>5. PICK k \in Eval(o, known) : g \in Goals(e.op, OnLeft(e, x), d, k)
      BY <3>3 DEF GoalsFor
    <3>6. k \in Eval(o, more)
      BY <3>1, <3>5, EvalGrows
    <3>7. w \in Fraction /\ k \in Fraction
      BY <1>0, <3>1, <3>4, <3>6, EvalIsOneNumber
    <3>8. e.op = "div" => ~Zero(k)
      BY <1>1, <3>1, <3>6, IsolableWithin
    <3>9. e.op \in BinaryOps /\ OnLeft(e, x) \in BOOLEAN
      BY <2>3 DEF OnOneSide, OnLeft
    <3>. DEFINE left == OnLeft(e, x)
                v == IF left THEN Operate(e.op, w, k) ELSE Operate(e.op, k, w)
    <3>10. (e.op = "div" => ~Zero(IF left THEN k ELSE w)) /\ Equal(v, d)
      BY <3>4, <3>5, <3>7, <3>8, <3>9, GoalsInvert
    <3>11. v \in Results(e.op, Eval(e.left, more), Eval(e.right, more))
      <4>1. CASE left
        <5>1. w \in Eval(e.left, more) /\ k \in Eval(e.right, more)
          BY <3>4, <3>6, <4>1 DEF Holding, Other
        <5>. QED
          BY <3>10, <4>1, <5>1 DEF Results
      <4>2. CASE ~left
        <5>1. k \in Eval(e.left, more) /\ w \in Eval(e.right, more)
          BY <3>4, <3>6, <4>2 DEF Holding, Other
        <5>. QED
          BY <3>10, <4>2, <5>1 DEF Results
      <4>. QED
        BY <4>1, <4>2
    <3>12. Eval(e, more) = Results(e.op, Eval(e.left, more), Eval(e.right, more))
      BY <1>0, <3>9, EvalOfBinary
    <3>. QED
      BY <3>10, <3>11, <3>12
  <2>. QED
    BY <1>0, <1>1, <2>1, <2>2, <2>3, SolveForUnfold
<1>2. \A e \in Expr : Operands(e) \subseteq T => e \in T
  BY <1>1
<1>. HIDE DEF T
<1>3. Expr \subseteq T
  BY <1>2, ExprInduction
<1>. QED
  BY <1>3 DEF T

\* An equation that isolated x holds when x has that value, whatever else is known.
LEMMA IsolatedHolds ==
    ASSUME NEW e \in Expr, NEW x, NEW known, NEW more, Extends(more, known), x \in DOMAIN more,
           Isolable(e, x, more), more[x] \in IsolateIn(e, x, known)
    PROVE  EquationStatus(e, more) = "Satisfied"
<1>1. e.op = "eq" /\ e.left \in Expr /\ e.right \in Expr
      /\ e.left \in Operands(e) /\ e.right \in Operands(e)
  BY OperandsOf DEF IsolateIn, CompareOps
<1>2. AreNumbers(known) /\ AreNumbers(more)
  BY DEF Extends
<1>3. \/ \E v \in Eval(e.left, known) : more[x] \in SolveFor(e.right, x, v, known)
      \/ \E v \in Eval(e.right, known) : more[x] \in SolveFor(e.left, x, v, known)
  BY <1>1 DEF IsolateIn
<1>4. \E a \in Eval(e.left, more), b \in Eval(e.right, more) : Holds("eq", a, b)
  <2>1. ASSUME NEW v \in Eval(e.left, known), more[x] \in SolveFor(e.right, x, v, known)
        PROVE  \E a \in Eval(e.left, more), b \in Eval(e.right, more) : Holds("eq", a, b)
    <3>1. v \in Fraction /\ v \in Eval(e.left, more)
      BY <1>1, <1>2, EvalIsOneNumber, EvalGrows
    <3>2. Isolable(e.right, x, more)
      BY <1>1, <1>2, <2>1, <3>1, SolvedIsWithin, IsolableWithin
    <3>3. PICK w \in Eval(e.right, more) : Equal(w, v)
      BY <1>1, <2>1, <3>1, <3>2, SolutionSolves
    <3>. QED
      BY <3>1, <3>3 DEF Equal, Holds
  <2>2. ASSUME NEW v \in Eval(e.right, known), more[x] \in SolveFor(e.left, x, v, known)
        PROVE  \E a \in Eval(e.left, more), b \in Eval(e.right, more) : Holds("eq", a, b)
    <3>1. v \in Fraction /\ v \in Eval(e.right, more)
      BY <1>1, <1>2, EvalIsOneNumber, EvalGrows
    <3>2. Isolable(e.left, x, more)
      BY <1>1, <1>2, <2>2, <3>1, SolvedIsWithin, IsolableWithin
    <3>3. PICK w \in Eval(e.left, more) : Equal(w, v)
      BY <1>1, <2>2, <3>1, <3>2, SolutionSolves
    <3>. QED
      BY <3>1, <3>3 DEF Equal, Holds
  <2>. QED
    BY <1>3, <2>1, <2>2
<1>5. /\ \A a, b \in Eval(e.left, more) : a = b
      /\ \A a, b \in Eval(e.right, more) : a = b
  BY <1>1, <1>2, EvalIsOneNumber
<1>6. Verdict(e, more) = {TRUE}
  <2>1. PICK a \in Eval(e.left, more), b \in Eval(e.right, more) : Holds("eq", a, b)
    BY <1>4
  <2>2. Eval(e.left, more) = {a} /\ Eval(e.right, more) = {b}
    BY <1>5, <2>1
  <2>3. Verdict(e, more) = {Holds("eq", a, b)}
    BY <1>1, <2>2 DEF Verdict
  <2>4. Holds("eq", a, b) = TRUE
    BY <2>1 DEF Holds
  <2>. QED
    BY <2>3, <2>4
<1>. QED
  BY <1>1, <1>6 DEF EquationStatus

\* What an equation isolates is a number.
LEMMA IsolatedIsNumber ==
    ASSUME NEW e \in Expr, NEW x, NEW known, AreNumbers(known)
    PROVE  IsolateIn(e, x, known) \subseteq Fraction
<1>1. e.op = "eq" => e.left \in Expr /\ e.right \in Expr
  BY OperandsOf DEF CompareOps
<1>. QED
  BY <1>1, EvalIsOneNumber, SolvedIsNumber DEF IsolateIn

-----------------------------------------------------------------------------
(* What the solver infers by that arithmetic. *)

\* The solver is given the arithmetic of the code.
CodeArithmetic ==
    \A s \in Source : \A known :
        /\ VariablesOf(s) = SourceVariables(s)
        /\ StatusOf(s, known) = FinalStatus(s, known)
        /\ \A x : Isolate(s, x, known) = IsolateInSource(s, x, known)

\* Its verdicts are the legal ones.
LEMMA CodeIsLegal == CodeArithmetic => LegalVerdicts
<1>. SUFFICES ASSUME CodeArithmetic, NEW s \in Source, NEW known
              PROVE  FinalStatus(s, known) \in
                         IF s.kind = "Equation"
                         THEN {"Satisfied", "Violated", "Blocked", "Unsupported"}
                         ELSE {"Satisfied", "Violated", "Unverifiable", "Unsupported"}
  BY DEF CodeArithmetic, LegalVerdicts
<1>. QED
  BY DEF FinalStatus, EquationStatus, RequirementStatus

\* An explained variable has the value its equation isolated from what was known then.
IsolatedBy(e) ==
    /\ IsSolvable(Sources[e.source])
    /\ \E V \in SUBSET Known :
          values[e.variable] \in
              IsolateIn(Sources[e.source].expr, e.variable, [v \in V |-> values[v]])

InferenceInv ==
    /\ values = [v \in Known |-> values[v]] /\ AreNumbers(values)
    /\ \A i \in 1..Len(explanations) : IsolatedBy(explanations[i])

LEMMA GivenAreNumbers == Init => InferenceInv
<1>. SUFFICES ASSUME Init PROVE InferenceInv
  OBVIOUS
<1>. DEFINE Writers(v) == {q \in DOMAIN problem.context : v \in {q, AliasOf(q)}}
            names == {v \in Variable : Writers(v) # {}}
<1>1. PICK last \in [names -> DOMAIN problem.context] :
          values = [v \in names |-> problem.context[last[v]]]
  BY DEF Init, GivenValues
<1>. HIDE DEF names
<1>2. \A v \in names : problem.context[last[v]] \in Fraction
  BY <1>1, NumbersAssumption DEF Init
<1>3. Known = names /\ values = [v \in Known |-> values[v]] /\ AreNumbers(values)
  BY <1>1, <1>2 DEF Known, AreNumbers
<1>4. Len(explanations) = 0
  BY DEF Init
<1>. QED
  BY <1>3, <1>4 DEF InferenceInv

LEMMA InferIsolates ==
    ASSUME CodeArithmetic, IInv, InferenceInv, Infer
    PROVE  InferenceInv'
<1>. DEFINE s == Sources[position]
            L == Len(explanations)
<1>1. PICK i \in Inferable(s) :
          /\ values' = [v \in Known \cup {i.variable} |-> IF v = i.variable THEN i.value ELSE values[v]]
          /\ explanations' = Append(explanations, [variable |-> i.variable, source |-> position])
  BY DEF Infer
<1>2. Sources' = Sources /\ Sources \in Seq(Source) /\ position \in 1..Len(Sources)
  BY SourceFacts DEF IInv, TypeOK, Infer, Sources
<1>3. s \in Source
  BY <1>2
<1>4. IsSolvable(s) /\ i.variable \notin Known /\ i.value \in IsolateIn(s.expr, i.variable, values)
  BY <1>1, <1>3 DEF Inferable, Unknowns, CodeArithmetic, IsolateInSource
<1>5. s.expr \in Expr
  BY <1>3, <1>4, NumbersAssumption DEF IsSolvable
<1>6. i.value \in Fraction
  BY <1>4, <1>5, IsolatedIsNumber DEF InferenceInv
<1>7. /\ Known' = Known \cup {i.variable} /\ values'[i.variable] = i.value
      /\ \A v \in Known : values'[v] = values[v]
      /\ values' = [v \in Known' |-> values'[v]]
  BY <1>1, <1>4 DEF Known
<1>8. AreNumbers(values)'
  BY <1>6, <1>7 DEF InferenceInv, AreNumbers, Known
<1>9. \A V \in SUBSET Known : [v \in V |-> values'[v]] = [v \in V |-> values[v]]
  BY <1>7
<1>10. /\ L \in Nat /\ Len(explanations)' = L + 1
       /\ explanations'[L + 1] = [variable |-> i.variable, source |-> position]
       /\ \A j \in 1..L : explanations'[j] = explanations[j]
  BY <1>1 DEF IInv, TypeOK
<1>11. ASSUME NEW j \in 1..L
       PROVE  IsolatedBy(explanations[j])'
  <2>. DEFINE e == explanations[j]
  <2>1. e.variable \in Known
    BY ExplainedIsKnown DEF IInv
  <2>2. IsSolvable(Sources[e.source])
    BY DEF InferenceInv, IsolatedBy
  <2>3. PICK V \in SUBSET Known :
            values[e.variable] \in IsolateIn(Sources[e.source].expr, e.variable, [v \in V |-> values[v]])
    BY DEF InferenceInv, IsolatedBy
  <2>4. V \in SUBSET Known' /\ values'[e.variable] = values[e.variable]
    BY <1>7, <2>1
  <2>. QED
    BY <1>2, <1>9, <1>10, <2>2, <2>3, <2>4 DEF IsolatedBy, IsSolvable
<1>12. ASSUME NEW j, j = L + 1
       PROVE  IsolatedBy(explanations[j])'
  <2>1. [v \in Known |-> values'[v]] = values
    BY <1>9 DEF InferenceInv
  <2>2. Known \in SUBSET Known'
    BY <1>7
  <2>3. /\ explanations'[j].variable = i.variable
        /\ explanations'[j].source = position
    BY <1>10, <1>12
  <2>4. values'[i.variable] \in IsolateIn(s.expr, i.variable, [v \in Known |-> values'[v]])
    BY <1>4, <1>7, <2>1
  <2>. DEFINE e == explanations'[j]
  <2>5. Sources'[e.source] = s /\ e.variable = i.variable
    BY <1>2, <2>3
  <2>6. \E V \in SUBSET Known' :
            values'[e.variable] \in
                IsolateIn(Sources'[e.source].expr, e.variable, [v \in V |-> values'[v]])
    BY <2>2, <2>4, <2>5
  <2>7. IsSolvable(Sources'[e.source])
    BY <1>4, <2>5
  <2>. QED
    BY <2>6, <2>7 DEF IsolatedBy, IsSolvable
<1>13. \A j \in 1..Len(explanations)' : IsolatedBy(explanations[j])'
  <2>. SUFFICES ASSUME NEW j \in 1..Len(explanations)' PROVE IsolatedBy(explanations[j])'
    OBVIOUS
  <2>1. j \in 1..L \/ j = L + 1
    BY <1>10
  <2>. QED
    BY <1>11, <1>12, <2>1
<1>. QED
  BY <1>7, <1>8, <1>13 DEF InferenceInv

LEMMA InferenceInvariance ==
    ASSUME CodeArithmetic
    PROVE  Spec => []InferenceInv
<1>1. IInv /\ InferenceInv /\ [Next]_vars => InferenceInv'
  <2>. SUFFICES ASSUME IInv, InferenceInv, [Next]_vars PROVE InferenceInv'
    OBVIOUS
  <2>1. CASE Infer
    BY <2>1, InferIsolates
  <2>2. CASE UNCHANGED <<problem, values, explanations>>
    BY <2>2 DEF InferenceInv, IsolatedBy, IsSolvable, Sources, Known
  <2>. QED
    BY <2>1, <2>2 DEF Next, Skip, NextRound, StopSolving, Finalize, Report, vars
<1>. QED
  BY <1>1, GivenAreNumbers, Invariance, PTL DEF Spec

\* For every set of equations over any expressions and numbers: an equation that
\* gave a variable its value is reported as satisfied, wherever isolating that
\* variable could not go wrong.
THEOREM IsolatedValuesHold ==
    ASSUME CodeArithmetic
    PROVE  Spec => []InferencesHold
<1>1. IInv /\ InferenceInv => InferencesHold
  <2>. SUFFICES ASSUME IInv, InferenceInv, phase = "done", NEW i \in 1..Len(explanations),
                       Isolable(Sources[explanations[i].source].expr, explanations[i].variable, values)
                PROVE  records[explanations[i].source] = "Satisfied"
    BY DEF InferencesHold
  <2>. DEFINE e == explanations[i]
              s == Sources[e.source]
  <2>1. e.source \in 1..Len(Sources) /\ Sources \in Seq(Source)
    <3>1. explanations \in Seq([variable : Variable, source : 1..Len(Sources)])
      BY DEF IInv, TypeOK
    <3>2. e \in [variable : Variable, source : 1..Len(Sources)]
      BY <3>1, ElementOfSeq
    <3>. QED
      BY <3>2, SourceFacts DEF IInv, TypeOK
  <2>2. s \in Source /\ IsSolvable(s) /\ e.variable \in Known
    BY <2>1, ExplainedIsKnown DEF IInv, InferenceInv, IsolatedBy
  <2>3. s.expr \in Expr
    BY <2>2, NumbersAssumption DEF IsSolvable
  <2>4. PICK V \in SUBSET Known :
            values[e.variable] \in IsolateIn(s.expr, e.variable, [v \in V |-> values[v]])
    BY DEF InferenceInv, IsolatedBy
  <2>5. Extends(values, [v \in V |-> values[v]])
    BY DEF Extends, InferenceInv, AreNumbers, Known
  <2>6. EquationStatus(s.expr, values) = "Satisfied"
    BY <2>2, <2>3, <2>4, <2>5, IsolatedHolds DEF Known
  <2>7. records[e.source] = Verdicts[e.source]
    <3>1. Len(records) = Len(Sources)
      BY DEF IInv, TypeOK
    <3>. QED
      BY <2>1, <3>1 DEF IInv, RecordsAreVerdicts
  <2>8. Verdicts[e.source] = EquationStatus(s.expr, values)
    BY <2>1, <2>2 DEF Verdicts, IsSolvable, CodeArithmetic, FinalStatus
  <2>. QED
    BY <2>6, <2>7, <2>8
<1>. QED
  BY <1>1, InferenceInvariance, Invariance, PTL
=============================================================================
