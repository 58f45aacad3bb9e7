---------------------- MODULE ActivityExecutionProofs ----------------------
(***************************************************************************)
(* The execution of an activity, for every activity: the steps are its     *)
(* layers, what is left over is what cycles lead to, and a Passed report   *)
(* leaves nothing out. And the run of an analysis case, for every case: it *)
(* executes all its activities, each like that, and is Passed only whole.  *)
(***************************************************************************)
EXTENDS AnalysisRun, FiniteSetTheorems, WellFoundedInduction, TLAPS

\* No set whose nodes all wait for one another has been entered.
StuckIsNotCompleted == \A S \in StuckSets : S \cap completed = {}

\* A report is only made when no node is enabled.
ReportedIsFinished ==
    /\ phase = "run" => Nodes # {} /\ diagnostics = FlowDiagnostics /\ status = "Running"
    /\ phase = "collect" => completed = {} /\ status = "Running"
    /\ phase = "done" => Enabled = {}

Before(s, k) == UNION {s[j] : j \in 1..k}

\* Whoever still waits was already waiting when the last round began.
LastRoundTookAll ==
    steps # <<>> => \A n \in Nodes \ completed :
                        ~ (Predecessors(n) \subseteq Before(steps, Len(steps) - 1))

IInv ==
    /\ TypeOK /\ LastRoundTookAll /\ StuckIsNotCompleted /\ ReportedIsFinished
    /\ StepsAreLayers /\ PassedMeansAllExecuted

LEMMA InitInv == Init => IInv
<1>. SUFFICES ASSUME Init PROVE IInv
  OBVIOUS
<1>1. TypeOK
  BY DEF Init, TypeOK
<1>2. LastRoundTookAll /\ StuckIsNotCompleted /\ ReportedIsFinished /\ PassedMeansAllExecuted
  BY DEF Init, LastRoundTookAll, StuckIsNotCompleted, ReportedIsFinished, PassedMeansAllExecuted
<1>3. StepsAreLayers
  BY DEF Init, StepsAreLayers
<1>. QED
  BY <1>1, <1>2, <1>3 DEF IInv

\* A round leaves the earlier steps alone and adds its own.
LEMMA AppendBefore ==
    ASSUME NEW T, NEW s \in Seq(T), NEW e \in T
    PROVE  LET t == Append(s, e)
           IN  /\ t \in Seq(T) /\ Len(t) = Len(s) + 1 /\ t[Len(s) + 1] = e
               /\ \A i \in 1..Len(s) : t[i] = s[i]
               /\ \A k \in 0..Len(s) : Before(t, k) = Before(s, k)
               /\ Before(t, Len(t)) = Before(s, Len(s)) \cup e
<1>. DEFINE t == Append(s, e)
<1>1. t \in Seq(T) /\ Len(t) = Len(s) + 1 /\ t[Len(s) + 1] = e
      /\ \A i \in 1..Len(s) : t[i] = s[i]
  OBVIOUS
<1>2. ASSUME NEW k \in 0..Len(s)
      PROVE  Before(t, k) = Before(s, k)
  <2>1. \A j \in 1..k : j \in 1..Len(s) /\ t[j] = s[j]
    BY <1>1
  <2>. QED
    BY <2>1 DEF Before
<1>3. Before(t, Len(t)) = Before(s, Len(s)) \cup e
  <2>1. 1..Len(t) = (1..Len(s)) \cup {Len(s) + 1}
    BY <1>1
  <2>2. \A j \in 1..Len(t) : t[j] = IF j = Len(s) + 1 THEN e ELSE s[j]
    BY <1>1, <2>1
  <2>3. ASSUME NEW x
        PROVE  x \in Before(t, Len(t)) <=> x \in Before(s, Len(s)) \cup e
    <3>1. x \in Before(t, Len(t)) <=> \E j \in 1..Len(t) : x \in t[j]
      BY DEF Before
    <3>2. x \in Before(s, Len(s)) <=> \E j \in 1..Len(s) : x \in s[j]
      BY DEF Before
    <3>3. ~ (Len(s) + 1 \in 1..Len(s))
      OBVIOUS
    <3>. QED
      BY <1>1, <2>1, <3>1, <3>2, <3>3
  <2>. QED
    BY <2>3
<1>. QED
  BY <1>1, <1>2, <1>3

\* The layers, with the nodes of earlier steps named.
LEMMA Layers ==
    StepsAreLayers <=>
        \A i \in 1..Len(steps) :
            /\ steps[i] # {} /\ steps[i] \cap Before(steps, i - 1) = {}
            /\ \A n \in steps[i] :
                  /\ Predecessors(n) \subseteq Before(steps, i - 1)
                  /\ i > 1 => Predecessors(n) \cap steps[i - 1] # {}
  BY DEF StepsAreLayers, Before

-----------------------------------------------------------------------------
\* The round: its own layer is the nodes whose last predecessor came with the
\* round before.
LEMMA RoundStep ==
    ASSUME IInv, Round
    PROVE  IInv'
<1>. USE DEF IInv
<1>1. Nodes' = Nodes /\ Edges' = Edges /\ (\A n : Predecessors(n)' = Predecessors(n))
  BY DEF Round, Nodes, Edges, Predecessors
<1>2. Enabled \subseteq Nodes \ completed /\ completed \subseteq Nodes /\ steps \in Seq(SUBSET Nodes)
  BY DEF Enabled, TypeOK
<1>3. /\ steps' \in Seq(SUBSET Nodes) /\ Len(steps') = Len(steps) + 1
      /\ steps'[Len(steps) + 1] = Enabled
      /\ \A i \in 1..Len(steps) : steps'[i] = steps[i]
      /\ \A k \in 0..Len(steps) : Before(steps', k) = Before(steps, k)
      /\ Before(steps', Len(steps')) = Before(steps, Len(steps)) \cup Enabled
  BY <1>2, AppendBefore DEF Round
<1>4. completed = Before(steps, Len(steps)) /\ completed' = completed \cup Enabled
  BY DEF TypeOK, Before, Round
<1>5. TypeOK'
  <2>1. completed' = UNION {steps'[i] : i \in 1..Len(steps')}
    BY <1>3, <1>4 DEF Before
  <2>. QED
    BY <1>1, <1>2, <1>3, <1>4, <2>1 DEF TypeOK, Round
<1>6. LastRoundTookAll'
  <2>1. Before(steps', Len(steps') - 1) = completed
    BY <1>3, <1>4
  <2>2. ASSUME NEW n \in Nodes \ completed'
        PROVE  ~ (Predecessors(n) \subseteq completed)
    BY <1>4 DEF Enabled
  <2>. QED
    BY <1>1, <2>1, <2>2 DEF LastRoundTookAll
<1>7. StuckIsNotCompleted'
  <2>1. StuckSets' = StuckSets
    BY <1>1 DEF StuckSets
  <2>2. ASSUME NEW S \in StuckSets
        PROVE  S \cap completed' = {}
    <3>1. S \cap completed = {} /\ (\A n \in S : Predecessors(n) \cap S # {})
      BY DEF StuckIsNotCompleted, StuckSets
    <3>2. S \cap Enabled = {}
      BY <3>1 DEF Enabled
    <3>. QED
      BY <1>4, <3>1, <3>2
  <2>. QED
    BY <2>1, <2>2 DEF StuckIsNotCompleted
<1>8. ReportedIsFinished'
  BY <1>1 DEF ReportedIsFinished, Round, FlowDiagnostics
<1>9. StepsAreLayers'
  <2>1. ASSUME NEW i \in 1..Len(steps)
        PROVE  /\ steps'[i] = steps[i]
               /\ Before(steps', i - 1) = Before(steps, i - 1)
               /\ i > 1 => steps'[i - 1] = steps[i - 1]
    BY <1>2, <1>3
  <2>2. ASSUME NEW n \in Enabled
        PROVE  /\ Predecessors(n) \subseteq completed
               /\ Len(steps) + 1 > 1 => Predecessors(n) \cap steps[Len(steps)] # {}
    <3>1. Predecessors(n) \subseteq completed
      BY DEF Enabled
    <3>2. ASSUME Len(steps) + 1 > 1
          PROVE  Predecessors(n) \cap steps[Len(steps)] # {}
      <4>1. steps # <<>> /\ Len(steps) \in 1..Len(steps)
        BY <1>2, <3>2
      <4>2. ~ (Predecessors(n) \subseteq Before(steps, Len(steps) - 1))
        BY <1>2, <4>1 DEF LastRoundTookAll
      <4>3. completed \subseteq Before(steps, Len(steps) - 1) \cup steps[Len(steps)]
        <5>1. \A j \in 1..Len(steps) : j = Len(steps) \/ j \in 1..(Len(steps) - 1)
          BY <1>2
        <5>. QED
          BY <1>4, <5>1 DEF Before
      <4>. QED
        BY <3>1, <4>2, <4>3
    <3>. QED
      BY <3>1, <3>2
  <2>3. ASSUME NEW i \in 1..Len(steps')
        PROVE  /\ steps'[i] # {} /\ steps'[i] \cap Before(steps', i - 1) = {}
               /\ \A n \in steps'[i] :
                     /\ Predecessors(n) \subseteq Before(steps', i - 1)
                     /\ i > 1 => Predecessors(n) \cap steps'[i - 1] # {}
    <3>1. CASE i \in 1..Len(steps)
      BY <2>1, <3>1, Layers
    <3>2. CASE i = Len(steps) + 1
      <4>1. steps'[i] = Enabled /\ Before(steps', i - 1) = completed
            /\ (i > 1 => steps'[i - 1] = steps[Len(steps)])
        BY <1>2, <1>3, <1>4, <3>2
      <4>2. Enabled # {}
        BY DEF Round
      <4>. QED
        BY <1>2, <2>2, <3>2, <4>1, <4>2
    <3>. QED
      BY <1>2, <1>3, <3>1, <3>2
  <2>4. \A i \in 1..Len(steps') :
          LET B(k) == UNION {steps'[j] : j \in 1..k}
          IN  /\ steps'[i] # {} /\ steps'[i] \cap B(i - 1) = {}
              /\ \A n \in steps'[i] :
                    /\ Predecessors(n) \subseteq B(i - 1)
                    /\ i > 1 => Predecessors(n) \cap steps'[i - 1] # {}
    BY <2>3 DEF Before
  <2>. QED
    BY <1>1, <2>4 DEF StepsAreLayers
<1>10. PassedMeansAllExecuted'
  BY DEF PassedMeansAllExecuted, ReportedIsFinished, Round
<1>. QED
  BY <1>5, <1>6, <1>7, <1>8, <1>9, <1>10

\* The other steps execute nothing.
LEMMA NothingExecuted ==
    ASSUME IInv, UNCHANGED <<activity, completed, steps>>
    PROVE  LastRoundTookAll' /\ StuckIsNotCompleted' /\ StepsAreLayers' /\ Enabled' = Enabled
<1>1. Nodes' = Nodes /\ Edges' = Edges /\ (\A n : Predecessors(n)' = Predecessors(n))
  BY DEF Nodes, Edges, Predecessors
<1>2. LastRoundTookAll'
  BY <1>1 DEF IInv, LastRoundTookAll, Before
<1>3. StuckIsNotCompleted'
  BY <1>1 DEF IInv, StuckIsNotCompleted, StuckSets
<1>4. StepsAreLayers'
  BY <1>1 DEF IInv, StepsAreLayers
<1>5. Enabled' = Enabled
  BY <1>1 DEF Enabled
<1>. QED
  BY <1>2, <1>3, <1>4, <1>5

LEMMA OtherSteps ==
    ASSUME IInv, NoNodes \/ Collect \/ Report \/ UNCHANGED vars
    PROVE  IInv'
<1>. USE DEF IInv
<1>1. UNCHANGED <<activity, completed, steps>>
  BY DEF NoNodes, Collect, Report, vars
<1>2. LastRoundTookAll' /\ StuckIsNotCompleted' /\ StepsAreLayers' /\ Enabled' = Enabled
  BY <1>1, NothingExecuted
<1>3. Nodes' = Nodes /\ Edges' = Edges /\ FlowDiagnostics' = FlowDiagnostics
  BY <1>1 DEF Nodes, Edges, FlowDiagnostics
<1>4. TypeOK'
  BY <1>1, <1>3 DEF TypeOK, NoNodes, Collect, Report, vars
<1>5. ReportedIsFinished'
  <2>1. Nodes = {} => Enabled = {}
    BY DEF Enabled
  <2>. QED
    BY <1>2, <1>3, <2>1 DEF ReportedIsFinished, NoNodes, Collect, Report, vars
<1>6. PassedMeansAllExecuted'
  <2>1. ASSUME Report, status' = "Passed"
        PROVE  /\ Nodes # {} /\ completed = Nodes
               /\ \A f \in activity.flows : Complete(f) => f \in Edges
    <3>1. diagnostics = {} /\ completed = Nodes /\ phase = "run"
      BY <2>1 DEF Report
    <3>2. FlowDiagnostics = {} /\ Nodes # {}
      BY <3>1 DEF ReportedIsFinished
    <3>. QED
      BY <3>1, <3>2 DEF FlowDiagnostics, Edges
  <2>. QED
    BY <1>1, <1>3, <2>1 DEF PassedMeansAllExecuted, NoNodes, Collect, Report, vars, Complete
<1>. QED
  BY <1>2, <1>4, <1>5, <1>6

THEOREM Invariance == Spec => []IInv
<1>1. IInv /\ [Next]_vars => IInv'
  BY RoundStep, OtherSteps DEF Next
<1>. QED
  BY InitInv, <1>1, PTL DEF Spec

\* The variables have their types, and the steps add up to what is completed.
THEOREM TypeCorrect == Spec => []TypeOK
  BY Invariance, PTL DEF IInv

\* The steps of every activity are its layers.
THEOREM EveryStepIsALayer == Spec => []StepsAreLayers
  BY Invariance, PTL DEF IInv

\* A Passed activity was executed whole.
THEOREM PassedIsWhole == Spec => []PassedMeansAllExecuted
  BY Invariance, PTL DEF IInv

\* What a report leaves over is a set of nodes that wait for one another,
\* and no such set is ever executed.
LEMMA LeftOverIsStuck == IInv => BlockedIsStuck
<1>. SUFFICES ASSUME IInv, phase = "done"
              PROVE  Nodes \ completed = UNION StuckSets
  BY DEF BlockedIsStuck
<1>1. Nodes \ completed \in StuckSets
  <2>1. ASSUME NEW n \in Nodes \ completed
        PROVE  Predecessors(n) \cap (Nodes \ completed) # {}
    <3>1. ~ (Predecessors(n) \subseteq completed)
      BY DEF IInv, ReportedIsFinished, Enabled
    <3>2. Predecessors(n) \subseteq Nodes
      BY DEF Predecessors, Edges
    <3>. QED
      BY <3>1, <3>2
  <2>. QED
    BY <2>1 DEF StuckSets
<1>2. \A S \in StuckSets : S \subseteq Nodes \ completed
  BY DEF IInv, StuckIsNotCompleted, StuckSets
<1>. QED
  BY <1>1, <1>2

\* Blocked is what a cycle leads to, and nothing else.
THEOREM BlockedNodesAreStuck == Spec => []BlockedIsStuck
  BY Invariance, LeftOverIsStuck, PTL

-----------------------------------------------------------------------------
(* The run of a case. *)

Idling == phase = "idle" /\ steps = <<>> /\ status = "Running"

Executing == IF phase \in {"collect", "run"} THEN 1 ELSE 0

\* Every binding is left, being executed, or has its status.
BindingsAreCounted ==
    /\ todo \subseteq ActivityBindings(case) /\ IsFiniteSet(todo)
    /\ stage \in {"simulate", "constraints", "activities", "report"} =>
          Len(ended) + Cardinality(todo) + Executing = Cardinality(ActivityBindings(case))
    /\ stage \in {"project", "simulate", "constraints"} => phase = "idle" /\ ended = <<>>
    /\ stage = "report" => todo = {} /\ Executing = 0

\* What the stages before this one had to report is reported.
ReportsAreMade ==
    LET capabilities == {reports[i].capability : i \in 1..Len(reports)}
    IN  /\ stage \in {"constraints", "activities", "report"} =>
              (MachineBindings(case) # {} => "simulation" \in capabilities)
        /\ stage \in {"activities", "report"} =>
              (ConstraintsRequired(case) => "constraints" \in capabilities)
        /\ stage = "report" /\ ended # <<>> =>
              \E i \in 1..Len(reports) :
                 reports[i] = [capability |-> "activities", status |-> Aggregate(Range(ended))]

CaseInv ==
    /\ case \in Cases /\ stage \in {"project", "simulate", "constraints", "activities", "report", "over"}
    /\ ended \in Seq({"Passed", "Partial"})
    /\ reports \in Seq([capability : {"simulation", "constraints", "activities"},
                         status : {"Passed", "Partial", "Failed", "NotApplicable"}])
    /\ stage # "over" => outcome = "none"
    /\ Idling \/ IInv
    /\ BindingsAreCounted /\ ReportsAreMade
    /\ PassedCaseIsWhole

LEMMA CaseInitInv == CaseInit => CaseInv
<1>. SUFFICES ASSUME CaseInit PROVE CaseInv
  OBVIOUS
<1>1. Idling /\ PassedCaseIsWhole
  BY DEF CaseInit, Idling, PassedCaseIsWhole
<1>2. BindingsAreCounted
  BY FS_EmptySet DEF CaseInit, BindingsAreCounted
<1>3. ReportsAreMade
  BY DEF CaseInit, ReportsAreMade
<1>. QED
  BY <1>1, <1>2, <1>3 DEF CaseInit, CaseInv

\* A status that is Passed is that of everything it is made of.
LEMMA AggregatePassed ==
    ASSUME NEW statuses, Aggregate(statuses) = "Passed"
    PROVE  statuses = {"Passed"}
  BY DEF Aggregate

LEMMA AggregateStatus ==
    ASSUME NEW statuses
    PROVE  Aggregate(statuses) \in {"Passed", "Partial", "Failed", "NotApplicable"}
  BY DEF Aggregate

\* A report is added to those made before.
LEMMA ReportAdded ==
    ASSUME CaseInv, NEW k \in {"simulation", "constraints", "activities"},
           NEW s \in {"Passed", "Partial", "Failed", "NotApplicable"}, Reported(k, s)
    PROVE  /\ reports' \in Seq([capability : {"simulation", "constraints", "activities"},
                                status : {"Passed", "Partial", "Failed", "NotApplicable"}])
           /\ {reports'[i].capability : i \in 1..Len(reports')}
                = {reports[i].capability : i \in 1..Len(reports)} \cup {k}
           /\ Len(reports') \in 1..Len(reports')
           /\ reports'[Len(reports')] = [capability |-> k, status |-> s]
<1>. DEFINE r == [capability |-> k, status |-> s]
<1>1. reports \in Seq([capability : {"simulation", "constraints", "activities"},
                      status : {"Passed", "Partial", "Failed", "NotApplicable"}])
  BY DEF CaseInv
<1>2. reports' = Append(reports, r)
  BY DEF Reported
<1>3. Len(reports') = Len(reports) + 1 /\ Len(reports) \in Nat
  BY <1>1, <1>2
<1>4. \A i \in 1..Len(reports') : reports'[i] = IF i = Len(reports) + 1 THEN r ELSE reports[i]
  BY <1>1, <1>2
<1>5. 1..Len(reports') = (1..Len(reports)) \cup {Len(reports) + 1}
  BY <1>3
<1>6. ~ (Len(reports) + 1 \in 1..Len(reports))
  BY <1>3
<1>7. {reports'[i].capability : i \in 1..Len(reports')}
        = {reports[i].capability : i \in 1..Len(reports)} \cup {k}
  BY <1>4, <1>5, <1>6
<1>8. reports' \in Seq([capability : {"simulation", "constraints", "activities"},
                        status : {"Passed", "Partial", "Failed", "NotApplicable"}])
  BY <1>1, <1>2
<1>. QED
  BY <1>3, <1>4, <1>5, <1>7, <1>8

-----------------------------------------------------------------------------
\* The stages before the activities leave the execution idle.
LEMMA IdleStage ==
    ASSUME CaseInv, UNCHANGED activityVars
    PROVE  (Idling \/ IInv)' /\ Executing' = Executing
<1>1. CASE Idling
  BY <1>1 DEF Idling, Executing, activityVars
<1>2. CASE IInv
  <2>1. UNCHANGED vars
    BY DEF activityVars, vars
  <2>. QED
    BY <1>2, <2>1, OtherSteps DEF Executing, vars
<1>. QED
  BY <1>1, <1>2 DEF CaseInv

LEMMA ProjectStep ==
    ASSUME CaseInv, Project
    PROVE  CaseInv'
<1>. USE DEF CaseInv, Project
<1>1. (Idling \/ IInv)' /\ Executing' = Executing
  BY IdleStage
<1>2. todo' = ActivityBindings(case) /\ ActivityBindings(case)' = ActivityBindings(case)
  BY DEF ActivityBindings, Subjects, Elements, Candidates, TypeOf, Binding
<1>3. IsFiniteSet(ActivityBindings(case))
  BY CasesAssumption
<1>4. Cardinality(ActivityBindings(case)) \in Nat
  BY <1>3, FS_CardinalityType
<1>5. Executing = 0 /\ Len(ended) = 0 /\ phase = "idle" /\ ended = <<>>
  BY DEF BindingsAreCounted, Executing
<1>6. BindingsAreCounted'
  BY <1>1, <1>2, <1>3, <1>4, <1>5 DEF BindingsAreCounted, activityVars
<1>7. ReportsAreMade' /\ PassedCaseIsWhole'
  BY DEF ReportsAreMade, PassedCaseIsWhole
<1>. QED
  BY <1>1, <1>6, <1>7

\* A run that fails has nothing to show.
LEMMA FailedStep ==
    ASSUME CaseInv, Fails, UNCHANGED <<case, activityVars>>
    PROVE  CaseInv'
<1>. USE DEF CaseInv, Fails
<1>1. (Idling \/ IInv)'
  BY IdleStage
<1>2. ActivityBindings(case)' = ActivityBindings(case)
  BY DEF ActivityBindings, Subjects, Elements, Candidates, TypeOf, Binding
<1>3. BindingsAreCounted' /\ ReportsAreMade' /\ PassedCaseIsWhole'
  BY <1>2 DEF BindingsAreCounted, ReportsAreMade, PassedCaseIsWhole
<1>. QED
  BY <1>1, <1>3

\* What the counts say of a stage that executes nothing.
LEMMA CountsStay ==
    ASSUME CaseInv, UNCHANGED <<case, todo, ended, activityVars>>,
           \/ stage = "simulate" /\ stage' = "constraints"
           \/ stage = "constraints" /\ stage' = "activities"
           \/ stage = "activities" /\ stage' = "report" /\ todo = {} /\ Executing = 0
    PROVE  BindingsAreCounted' /\ (Idling \/ IInv)'
<1>1. (Idling \/ IInv)' /\ Executing' = Executing
  BY IdleStage
<1>2. ActivityBindings(case)' = ActivityBindings(case)
  BY DEF ActivityBindings, Subjects, Elements, Candidates, TypeOf, Binding
<1>. QED
  BY <1>1, <1>2 DEF CaseInv, BindingsAreCounted, activityVars

LEMMA SimulateStep ==
    ASSUME CaseInv, Simulate \/ NothingToSimulate
    PROVE  CaseInv'
<1>. USE DEF CaseInv
<1>1. CASE Simulate /\ Fails
  BY <1>1, FailedStep DEF Simulate
<1>2. ASSUME Simulate, ~ Fails
      PROVE  CaseInv'
  <2>1. /\ UNCHANGED <<case, todo, ended, activityVars, outcome>>
        /\ stage = "simulate" /\ stage' = "constraints"
    BY <1>2 DEF Simulate
  <2>2. PICK s \in {"Passed", "Partial", "Failed"} : Reported("simulation", s)
    BY <1>2 DEF Simulate
  <2>3. /\ reports' \in Seq([capability : {"simulation", "constraints", "activities"},
                             status : {"Passed", "Partial", "Failed", "NotApplicable"}])
        /\ {reports'[i].capability : i \in 1..Len(reports')}
             = {reports[i].capability : i \in 1..Len(reports)} \cup {"simulation"}
    BY <2>2, ReportAdded
  <2>4. ReportsAreMade'
    BY <2>1, <2>3 DEF ReportsAreMade
  <2>5. PassedCaseIsWhole'
    BY <2>1 DEF PassedCaseIsWhole
  <2>. QED
    BY <2>1, <2>3, <2>4, <2>5, CountsStay
<1>3. CASE NothingToSimulate
  <2>1. BindingsAreCounted' /\ (Idling \/ IInv)'
    BY <1>3, CountsStay DEF NothingToSimulate
  <2>2. MachineBindings(case)' = {}
    BY <1>3 DEF NothingToSimulate
  <2>3. ReportsAreMade' /\ PassedCaseIsWhole'
    BY <1>3, <2>2 DEF NothingToSimulate, ReportsAreMade, PassedCaseIsWhole
  <2>. QED
    BY <1>3, <2>1, <2>3 DEF NothingToSimulate
<1>. QED
  BY <1>1, <1>2, <1>3

LEMMA ConstraintsStep ==
    ASSUME CaseInv, AnalyseConstraints
    PROVE  CaseInv'
<1>. USE DEF CaseInv
<1>1. CASE AnalyseConstraints /\ Fails
  BY <1>1, FailedStep DEF AnalyseConstraints
<1>2. CASE ~ Fails
  <2>1. /\ UNCHANGED <<case, todo, ended, activityVars, outcome>>
        /\ stage = "constraints" /\ stage' = "activities"
    BY <1>2 DEF AnalyseConstraints
  <2>2. BindingsAreCounted' /\ (Idling \/ IInv)'
    BY <2>1, CountsStay
  <2>3. PassedCaseIsWhole'
    BY <2>1 DEF PassedCaseIsWhole
  <2>4. CASE ConstraintsRequired(case)
    <3>1. PICK s \in {"Passed", "Partial", "Failed", "NotApplicable"} : Reported("constraints", s)
      BY <1>2, <2>4 DEF AnalyseConstraints
    <3>2. /\ reports' \in Seq([capability : {"simulation", "constraints", "activities"},
                               status : {"Passed", "Partial", "Failed", "NotApplicable"}])
          /\ {reports'[i].capability : i \in 1..Len(reports')}
               = {reports[i].capability : i \in 1..Len(reports)} \cup {"constraints"}
      BY <3>1, ReportAdded
    <3>3. MachineBindings(case)' = MachineBindings(case)
      BY <2>1
    <3>4. ReportsAreMade'
      BY <2>1, <3>2, <3>3 DEF ReportsAreMade
    <3>. QED
      BY <2>1, <2>2, <2>3, <3>2, <3>4
  <2>5. CASE ~ ConstraintsRequired(case)
    <3>1. UNCHANGED reports
      BY <1>2, <2>5 DEF AnalyseConstraints
    <3>2. MachineBindings(case)' = MachineBindings(case) /\ ~ ConstraintsRequired(case)'
      BY <2>1, <2>5
    <3>3. ReportsAreMade'
      BY <2>1, <3>1, <3>2 DEF ReportsAreMade
    <3>. QED
      BY <2>1, <2>2, <2>3, <3>1, <3>3
  <2>. QED
    BY <2>4, <2>5
<1>. QED
  BY <1>1, <1>2

\* Starting an activity is the initial state of its execution.
LEMMA StartStep ==
    ASSUME CaseInv, StartActivity
    PROVE  CaseInv'
<1>. USE DEF CaseInv
<1>1. PICK b \in todo : todo' = todo \ {b} /\ activity' = ActivityOf(case, b.behavior)
  BY DEF StartActivity
<1>2. activity' \in Activities
  BY <1>1, CasesAssumption DEF BindingsAreCounted
<1>3. Init'
  BY <1>2 DEF Init, StartActivity
<1>4. Init' => IInv'
  BY InitInv, PTL
<1>5. UNCHANGED <<case, ended, reports, outcome>> /\ stage = "activities" /\ stage' = "activities"
  BY DEF StartActivity
<1>6. IsFiniteSet(todo') /\ Cardinality(todo') = Cardinality(todo) - 1
      /\ Cardinality(todo) \in Nat /\ Cardinality(todo') \in Nat
  BY <1>1, FS_RemoveElement, FS_CardinalityType DEF BindingsAreCounted
<1>7. Executing = 0 /\ Executing' = 1
  BY DEF Executing, StartActivity
<1>8. Len(ended) \in Nat
  OBVIOUS
<1>9. ActivityBindings(case)' = ActivityBindings(case) /\ todo' \subseteq todo
  BY <1>1, <1>5
<1>10. BindingsAreCounted'
  BY <1>5, <1>6, <1>7, <1>8, <1>9 DEF BindingsAreCounted
<1>11. ReportsAreMade'
  BY <1>5 DEF ReportsAreMade
<1>12. PassedCaseIsWhole'
  BY <1>5 DEF PassedCaseIsWhole
<1>. QED
  BY <1>3, <1>4, <1>5, <1>10, <1>11, <1>12

\* Only a step that ends the execution adds its status.
LEMMA ExecuteStep ==
    ASSUME CaseInv, ExecuteActivity
    PROVE  CaseInv'
<1>. USE DEF CaseInv
<1>1. UNCHANGED <<case, todo, reports, outcome>> /\ stage = "activities" /\ stage' = "activities"
  BY DEF ExecuteActivity
<1>2. phase \in {"collect", "run"} /\ Next
  BY DEF ExecuteActivity, Next, NoNodes, Collect, Round, Report
<1>3. IInv
  BY <1>2 DEF Idling
<1>4. IInv'
  BY <1>2, <1>3, RoundStep, OtherSteps DEF Next
<1>5. phase' \in {"collect", "run", "done"} /\ (phase' = "done" => status' \in {"Passed", "Partial"})
  BY <1>2 DEF Next, NoNodes, Collect, Round, Report
<1>6. ended' \in Seq({"Passed", "Partial"}) /\ Len(ended) \in Nat
      /\ Len(ended') + Executing' = Len(ended) + Executing
  <2>1. CASE phase' = "done"
    <3>1. ended' = Append(ended, status') /\ status' \in {"Passed", "Partial"}
      BY <1>5, <2>1 DEF ExecuteActivity
    <3>2. Len(ended') = Len(ended) + 1 /\ ended' \in Seq({"Passed", "Partial"}) /\ Len(ended) \in Nat
      BY <3>1
    <3>3. Executing = 1 /\ Executing' = 0
      BY <1>2, <2>1 DEF Executing
    <3>. QED
      BY <3>2, <3>3
  <2>2. CASE phase' # "done"
    <3>1. ended' = ended
      BY <2>2 DEF ExecuteActivity
    <3>2. Executing = 1 /\ Executing' = 1
      BY <1>2, <1>5, <2>2 DEF Executing
    <3>. QED
      BY <3>1, <3>2
  <2>. QED
    BY <2>1, <2>2
<1>7. ActivityBindings(case)' = ActivityBindings(case)
  BY <1>1
<1>8. Cardinality(todo) \in Nat /\ Executing \in Nat /\ Executing' \in Nat /\ Len(ended') \in Nat
  BY <1>6, FS_CardinalityType DEF BindingsAreCounted, Executing
<1>9. BindingsAreCounted'
  <2>1. todo' = todo /\ Cardinality(todo') = Cardinality(todo)
        /\ Cardinality(ActivityBindings(case))' = Cardinality(ActivityBindings(case))
    BY <1>1, <1>7
  <2>2. Len(ended') + Cardinality(todo') + Executing' = Len(ended) + Cardinality(todo) + Executing
    BY ONLY <1>6, <1>8, <2>1
  <2>. QED
    BY <1>1, <1>7, <2>1, <2>2 DEF BindingsAreCounted
<1>10. ReportsAreMade' /\ PassedCaseIsWhole'
  BY <1>1 DEF ReportsAreMade, PassedCaseIsWhole
<1>. QED
  BY <1>1, <1>4, <1>6, <1>9, <1>10

LEMMA ReportStep ==
    ASSUME CaseInv, ReportActivities
    PROVE  CaseInv'
<1>. USE DEF CaseInv
<1>1. /\ UNCHANGED <<case, todo, ended, activityVars, outcome>>
      /\ stage = "activities" /\ stage' = "report" /\ todo = {} /\ Executing = 0
  BY DEF ReportActivities, Executing
<1>2. BindingsAreCounted' /\ (Idling \/ IInv)'
  BY <1>1, CountsStay
<1>3. PassedCaseIsWhole'
  BY <1>1 DEF PassedCaseIsWhole
<1>4. MachineBindings(case)' = MachineBindings(case)
      /\ ConstraintsRequired(case)' = ConstraintsRequired(case)
  BY <1>1
<1>5. CASE ended = <<>>
  <2>1. UNCHANGED reports
    BY <1>5 DEF ReportActivities
  <2>2. ReportsAreMade'
    BY <1>1, <1>4, <1>5, <2>1 DEF ReportsAreMade
  <2>. QED
    BY <1>1, <1>2, <1>3, <2>1, <2>2
<1>6. CASE ended # <<>>
  <2>1. Reported("activities", Aggregate(Range(ended)))
    BY <1>6 DEF ReportActivities
  <2>2. Aggregate(Range(ended)) \in {"Passed", "Partial", "Failed", "NotApplicable"}
    BY AggregateStatus
  <2>3. /\ reports' \in Seq([capability : {"simulation", "constraints", "activities"},
                             status : {"Passed", "Partial", "Failed", "NotApplicable"}])
        /\ {reports'[i].capability : i \in 1..Len(reports')}
             = {reports[i].capability : i \in 1..Len(reports)} \cup {"activities"}
        /\ Len(reports') \in 1..Len(reports')
        /\ reports'[Len(reports')] = [capability |-> "activities", status |-> Aggregate(Range(ended))]
    BY <2>1, <2>2, ReportAdded
  <2>4. Aggregate(Range(ended))' = Aggregate(Range(ended))
    BY <1>1
  <2>5. ReportsAreMade'
    BY <1>1, <1>4, <2>3, <2>4 DEF ReportsAreMade
  <2>. QED
    BY <1>1, <1>2, <1>3, <2>3, <2>5
<1>. QED
  BY <1>5, <1>6

LEMMA ConcludeStep ==
    ASSUME CaseInv, Conclude
    PROVE  CaseInv'
<1>. USE DEF CaseInv
<1>1. UNCHANGED <<case, todo, ended, reports, activityVars>> /\ stage = "report" /\ stage' = "over"
  BY DEF Conclude
<1>2. (Idling \/ IInv)' /\ Executing' = Executing
  BY <1>1, IdleStage
<1>3. /\ ActivityBindings(case)' = ActivityBindings(case) /\ MachineBindings(case)' = MachineBindings(case)
      /\ Artifacts(case)' = Artifacts(case) /\ Plan(case)' = Plan(case) /\ Made' = Made
      /\ Range(reports)' = Range(reports) /\ Range(ended)' = Range(ended)
  BY <1>1 DEF Made
<1>4. BindingsAreCounted' /\ ReportsAreMade'
  BY <1>1, <1>3 DEF BindingsAreCounted, ReportsAreMade
<1>5. ASSUME outcome' = "Passed"
      PROVE  /\ \A r \in Range(reports) : r.status = "Passed"
             /\ Len(ended) = Cardinality(ActivityBindings(case)) /\ Range(ended) \subseteq {"Passed"}
             /\ \A kind \in {"constraint_analysis_summary", "activity_execution_summary"} :
                   kind \in Artifacts(case) => kind \in Made
             /\ MachineBindings(case) # {} => "simulation_trace" \in Made
             /\ Plan(case) \cap {"calculation", "constraint", "requirement", "verification"} # {}
                   => "constraint_analysis_summary" \in Made
  <2>1. \A r \in Range(reports) : r.status = "Passed"
    <3>1. Range(reports) = {reports[i] : i \in 1..Len(reports)} /\ Len(reports) \in Nat
      BY DEF Range
    <3>2. CASE Len(reports) = 1
      BY <1>5, <3>1, <3>2 DEF Conclude
    <3>3. CASE Len(reports) > 1
      <4>1. Aggregate({r.status : r \in Range(reports)}) = "Passed"
        BY <1>5, <3>3 DEF Conclude
      <4>. QED
        BY <4>1, AggregatePassed
    <3>4. ~ (Len(reports) = 0)
      BY <1>5 DEF Conclude
    <3>5. Len(reports) = 1 \/ Len(reports) > 1
      BY ONLY <3>1, <3>4
    <3>. QED
      BY <3>2, <3>3, <3>5
  <2>2. \A i \in 1..Len(reports) : reports[i] \in Range(reports)
    BY DEF Range
  <2>3. Len(ended) = Cardinality(ActivityBindings(case))
    <3>1. Cardinality(todo) = 0 /\ Len(ended) \in Nat
      BY <1>1, FS_EmptySet DEF BindingsAreCounted
    <3>. QED
      BY <1>1, <3>1 DEF BindingsAreCounted
  <2>4. ended = <<>> \/ \E i \in 1..Len(reports) :
                           reports[i] = [capability |-> "activities", status |-> Aggregate(Range(ended))]
    BY <1>1 DEF ReportsAreMade
  <2>5. Range(ended) \subseteq {"Passed"}
    <3>1. CASE ended = <<>>
      BY <3>1 DEF Range
    <3>2. CASE ended # <<>>
      <4>1. Aggregate(Range(ended)) = "Passed"
        BY <2>1, <2>2, <2>4, <3>2
      <4>. QED
        BY <4>1, AggregatePassed
    <3>. QED
      BY <3>1, <3>2
  <2>6. /\ (\E i \in 1..Len(reports) : reports[i].capability = "simulation") => "simulation_trace" \in Made
        /\ (\E i \in 1..Len(reports) : reports[i].capability = "constraints")
              => "constraint_analysis_summary" \in Made
        /\ (\E i \in 1..Len(reports) : reports[i].capability = "activities")
              => "activity_execution_summary" \in Made
    BY <2>2 DEF Made
  <2>7. MachineBindings(case) # {} => "simulation_trace" \in Made
    BY <1>1, <2>6 DEF ReportsAreMade
  <2>8. ConstraintsRequired(case) => "constraint_analysis_summary" \in Made
    BY <1>1, <2>6 DEF ReportsAreMade
  <2>9. Plan(case) \cap {"calculation", "constraint", "requirement", "verification"} # {}
          => ConstraintsRequired(case)
    BY DEF Plan, ConstraintsRequired, Techniques
  <2>10. "constraint_analysis_summary" \in Artifacts(case) => ConstraintsRequired(case)
    BY DEF Artifacts, ConstraintsRequired
  <2>11. "activity_execution_summary" \in Artifacts(case) => ended # <<>>
    <3>1. "activity_execution_summary" \in Artifacts(case) => ActivityBindings(case) # {}
      BY DEF Artifacts
    <3>2. ActivityBindings(case) # {} => Cardinality(ActivityBindings(case)) # 0
      BY CasesAssumption, FS_EmptySet
    <3>. QED
      BY <2>3, <3>1, <3>2
  <2>. QED
    BY <2>1, <2>3, <2>4, <2>5, <2>6, <2>7, <2>8, <2>9, <2>10, <2>11
<1>6. PassedCaseIsWhole'
  BY <1>1, <1>3, <1>5 DEF PassedCaseIsWhole
<1>7. stage' # "over" => outcome' = "none"
  BY <1>1
<1>. QED
  BY <1>1, <1>2, <1>4, <1>6, <1>7

-----------------------------------------------------------------------------
\* The inductive invariant holds in every run of every case.
THEOREM CaseInvariance == CaseSpec => []CaseInv
<1>1. CaseInv /\ [CaseNext]_CaseVars => CaseInv'
  <2>. SUFFICES ASSUME CaseInv, [CaseNext]_CaseVars PROVE CaseInv'
    OBVIOUS
  <2>1. CASE UNCHANGED CaseVars
    <3>1. UNCHANGED <<case, stage, todo, ended, reports, outcome, activityVars>>
      BY <2>1 DEF CaseVars, runVars
    <3>2. (Idling \/ IInv)' /\ Executing' = Executing
      BY <3>1, IdleStage
    <3>. QED
      BY <3>1, <3>2 DEF CaseInv, BindingsAreCounted, ReportsAreMade, PassedCaseIsWhole, Made, activityVars
  <2>2. CASE CaseNext
    BY <2>2, ProjectStep, SimulateStep, ConstraintsStep, StartStep, ExecuteStep, ReportStep, ConcludeStep
       DEF CaseNext
  <2>. QED
    BY <2>1, <2>2
<1>. QED
  BY CaseInitInv, <1>1, PTL DEF CaseSpec

\* In the run of a case, too, every activity is executed in layers, is blocked
\* only by cycles, and passes only whole.
THEOREM ActivitiesOfACase == CaseSpec => [](StepsAreLayers /\ BlockedIsStuck /\ PassedMeansAllExecuted)
<1>1. Idling => StepsAreLayers /\ BlockedIsStuck /\ PassedMeansAllExecuted
  BY DEF Idling, StepsAreLayers, BlockedIsStuck, PassedMeansAllExecuted
<1>2. IInv => StepsAreLayers /\ BlockedIsStuck /\ PassedMeansAllExecuted
  BY LeftOverIsStuck DEF IInv
<1>3. CaseInv => StepsAreLayers /\ BlockedIsStuck /\ PassedMeansAllExecuted
  BY <1>1, <1>2 DEF CaseInv
<1>. QED
  BY CaseInvariance, <1>3, PTL

\* A case is Passed only when all that it binds or asks for was carried out.
THEOREM PassedCasesAreWhole == CaseSpec => []PassedCaseIsWhole
  BY CaseInvariance, PTL DEF CaseInv

-----------------------------------------------------------------------------
(* The two readings of a case. *)

Less == {p \in Nat \X Nat : p[1] < p[2]}

\* The first of some places of a sequence is one of them.
LEMMA FirstIsOne ==
    ASSUME NEW S, S \subseteq Nat, S # {}
    PROVE  Min(S) \in S
<1>1. IsWellFoundedOn(Less, Nat)
  BY NatLessThanWellFounded DEF OpToRel, Less
<1>2. PICK n \in S : \A m \in S : <<m, n>> \notin Less
  BY <1>1, WFMin
<1>3. \A m \in S : ~(m < n)
  BY <1>2 DEF Less
<1>4. \A m \in S : n =< m
  BY <1>3
<1>5. \E x \in S : \A y \in S : x =< y
  BY <1>4
<1>. QED
  BY ONLY <1>5 DEF Min

\* A regular list gives each of its subjects the machine it is simulated with.
LEMMA ListsAgree ==
    ASSUME NEW c \in Cases, Regular(c), c.listed
    PROVE  /\ ~ ScenarioFails(c) /\ ~ Blocking(c)
           /\ Pairs(c) = {Pair(b.subject, b.behavior)
                            : b \in {x \in MachineBindings(c) :
                                       \E e \in Range(c.entries) : e.subject = x.subject}}
           /\ \A p \in Pairs(c) : p.subject \in Subjects(c)
<1>1. /\ c.entries # <<>> /\ c.entries \in Seq(Range(c.entries))
      /\ \A i, j \in DOMAIN c.entries :
            /\ ~ BadEntry(c.entries[i]) /\ c.entries[i].subject \in Elements(c)
            /\ i # j => c.entries[i].subject # c.entries[j].subject
  BY CasesAssumption DEF Regular
<1>2. DOMAIN c.entries # {} /\ DOMAIN c.entries \subseteq Nat
  BY <1>1
<1>3. \A i \in DOMAIN c.entries :
         LET e == c.entries[i]
         IN  /\ e.object /\ e.subject # None /\ e.machine # None /\ e.events # "bad"
             /\ e.subject \in Elements(c)
  BY <1>1 DEF BadEntry
<1>4. \A i \in DOMAIN c.entries : c.entries[i].subject \in Subjects(c)
  BY <1>3 DEF Subjects, Range
<1>5. ~ Blocking(c)
  BY <1>2, <1>3, <1>4 DEF Blocking, SubjectFaults, Range
<1>6. ~ ScenarioFails(c)
  BY <1>2, <1>3 DEF Regular, ScenarioFails, Simulated, Range, BadEntry
<1>7. \A i \in DOMAIN c.entries :
         EntriesFor(c, c.entries[i].subject) = {i} /\ Min(EntriesFor(c, c.entries[i].subject)) = i
  <2>. SUFFICES ASSUME NEW i \in DOMAIN c.entries
                PROVE  EntriesFor(c, c.entries[i].subject) = {i} /\ Min({i}) = i
    OBVIOUS
  <2>1. EntriesFor(c, c.entries[i].subject) = {i}
    BY <1>1, <1>3 DEF EntriesFor, Listed
  <2>2. Min({i}) \in {i}
    BY <1>2, FirstIsOne
  <2>. QED
    BY <2>1, <2>2
<1>. DEFINE Of(s) == LET given == EntriesFor(c, s)
                         own == MachinesOf(c, Candidates(c, s))
                     IN  CASE given # {} -> {Binding(s, c.entries[Min(given)].machine, "state machine")}
                           [] given = {} /\ own # {} -> {Binding(s, c.machines[Min(own)].id, "state machine")}
                           [] OTHER -> {}
<1>8. MachineBindings(c) = UNION {Of(s) : s \in Subjects(c)}
  BY DEF MachineBindings
<1>9. \A i \in DOMAIN c.entries :
         Of(c.entries[i].subject)
           = {Binding(c.entries[i].subject, c.entries[i].machine, "state machine")}
  BY <1>7
<1>10. ASSUME NEW s
       PROVE  \A x \in Of(s) : x.subject = s
  <2>1. \E behavior : Of(s) \subseteq {Binding(s, behavior, "state machine")}
    <3>1. CASE EntriesFor(c, s) # {}
      <4>1. Of(s) = {Binding(s, c.entries[Min(EntriesFor(c, s))].machine, "state machine")}
        BY <3>1
      <4>. QED
        BY ONLY <4>1
    <3>2. CASE EntriesFor(c, s) = {} /\ MachinesOf(c, Candidates(c, s)) # {}
      <4>1. Of(s) = {Binding(s, c.machines[Min(MachinesOf(c, Candidates(c, s)))].id, "state machine")}
        BY <3>2
      <4>. QED
        BY ONLY <4>1
    <3>3. CASE EntriesFor(c, s) = {} /\ MachinesOf(c, Candidates(c, s)) = {}
      BY <3>3
    <3>. QED
      BY <3>1, <3>2, <3>3
  <2>2. PICK behavior : Of(s) \subseteq {Binding(s, behavior, "state machine")}
    BY ONLY <2>1
  <2>3. Binding(s, behavior, "state machine").subject = s
    BY DEF Binding
  <2>. HIDE DEF Of
  <2>. QED
    BY ONLY <2>2, <2>3
<1>. HIDE DEF Of
<1>. DEFINE Bound == {x \in MachineBindings(c) : \E e \in Range(c.entries) : e.subject = x.subject}
<1>11. Bound = {Binding(c.entries[i].subject, c.entries[i].machine, "state machine") : i \in DOMAIN c.entries}
  <2>1. ASSUME NEW x \in Bound
        PROVE  \E i \in DOMAIN c.entries :
                  x = Binding(c.entries[i].subject, c.entries[i].machine, "state machine")
    <3>1. PICK i \in DOMAIN c.entries : c.entries[i].subject = x.subject
      BY DEF Range
    <3>2. PICK s \in Subjects(c) : x \in Of(s)
      BY <1>8
    <3>. QED
      BY <1>9, <1>10, <3>1, <3>2
  <2>2. ASSUME NEW i \in DOMAIN c.entries
        PROVE  Binding(c.entries[i].subject, c.entries[i].machine, "state machine") \in Bound
    <3>. DEFINE x == Binding(c.entries[i].subject, c.entries[i].machine, "state machine")
    <3>1. x \in MachineBindings(c)
      BY <1>4, <1>8, <1>9
    <3>2. x.subject = c.entries[i].subject /\ c.entries[i] \in Range(c.entries)
      BY DEF Binding, Range
    <3>. QED
      BY <3>1, <3>2
  <2>. QED
    BY <2>1, <2>2
<1>. HIDE DEF Bound
<1>12. Pairs(c) = {Pair(c.entries[i].subject, c.entries[i].machine) : i \in DOMAIN c.entries}
  BY DEF Pairs, Range
<1>13. {Pair(b.subject, b.behavior) : b \in Bound}
         = {Pair(c.entries[i].subject, c.entries[i].machine) : i \in DOMAIN c.entries}
  <2>. DEFINE b(i) == Binding(c.entries[i].subject, c.entries[i].machine, "state machine")
  <2>1. \A i : b(i).subject = c.entries[i].subject /\ b(i).behavior = c.entries[i].machine
    BY DEF Binding
  <2>2. Bound = {b(i) : i \in DOMAIN c.entries}
    BY <1>11
  <2>. HIDE DEF b
  <2>. QED
    BY <2>1, <2>2
<1>14. \A p \in Pairs(c) : p.subject \in Subjects(c)
  BY <1>4, <1>12 DEF Pair
<1>. QED
  BY <1>5, <1>6, <1>12, <1>13, <1>14 DEF Bound

\* Natives whose types own a machine each are simulated with it.
LEMMA NativesAgree ==
    ASSUME NEW c \in Cases, Regular(c), ~ c.listed
    PROVE  /\ ~ ScenarioFails(c) /\ ~ Blocking(c)
           /\ Pairs(c) = {Pair(b.subject, b.behavior) : b \in MachineBindings(c)}
           /\ \A p \in Pairs(c) : p.subject \in Subjects(c)
<1>1. /\ c.native # {} /\ Subjects(c) = c.native
      /\ \A s \in c.native : /\ \E m \in Range(c.machines) : TypeOf(c, s) \in m.roots
                             /\ \A m \in Range(c.machines) : s \notin m.roots
  BY DEF Regular, Subjects
<1>2. /\ c.machines \in Seq(Range(c.machines))
      /\ \A m \in Range(c.machines) : None \notin m.roots
  BY CasesAssumption
<1>3. \A s \in c.native : TypeOf(c, s) # None
  BY <1>1, <1>2
<1>4. \A s \in c.native : MachinesOf(c, {TypeOf(c, s)}) # {}
  BY <1>1 DEF MachinesOf, Range
<1>5. \A s \in c.native : MachinesOf(c, Candidates(c, s)) = MachinesOf(c, {TypeOf(c, s)})
  BY <1>1, <1>3 DEF MachinesOf, Candidates, Range
<1>6. \A s \in c.native : EntriesFor(c, s) = {}
  BY DEF EntriesFor, Listed
<1>7. ~ Blocking(c)
  BY <1>1 DEF Blocking
<1>8. ~ ScenarioFails(c)
  BY <1>1, <1>3, <1>4 DEF Regular, ScenarioFails, Simulated, Typed
<1>. DEFINE Id(s) == c.machines[Min(MachinesOf(c, {TypeOf(c, s)}))].id
<1>9. MachineBindings(c) = UNION {{Binding(s, Id(s), "state machine")} : s \in c.native}
  <2>. DEFINE Of(s) == LET given == EntriesFor(c, s)
                           own == MachinesOf(c, Candidates(c, s))
                       IN  CASE given # {} -> {Binding(s, c.entries[Min(given)].machine, "state machine")}
                             [] given = {} /\ own # {} -> {Binding(s, c.machines[Min(own)].id, "state machine")}
                             [] OTHER -> {}
  <2>1. MachineBindings(c) = UNION {Of(s) : s \in c.native}
    BY <1>1 DEF MachineBindings
  <2>2. ASSUME NEW s \in c.native
        PROVE  Of(s) = {Binding(s, Id(s), "state machine")}
    <3>1. /\ EntriesFor(c, s) = {} /\ MachinesOf(c, Candidates(c, s)) # {}
          /\ MachinesOf(c, Candidates(c, s)) = MachinesOf(c, {TypeOf(c, s)})
      BY <1>4, <1>5, <1>6
    <3>. QED
      BY <3>1
  <2>. HIDE DEF Of, Id
  <2>. QED
    BY <2>1, <2>2
<1>10. Pairs(c) = {Pair(s, Id(s)) : s \in c.native}
  BY DEF Pairs
<1>. HIDE DEF Id
<1>11. {Pair(b.subject, b.behavior) : b \in MachineBindings(c)} = {Pair(s, Id(s)) : s \in c.native}
  <2>. DEFINE b(s) == Binding(s, Id(s), "state machine")
  <2>1. \A s : b(s).subject = s /\ b(s).behavior = Id(s)
    BY DEF Binding
  <2>2. MachineBindings(c) = {b(s) : s \in c.native}
    BY <1>9
  <2>. HIDE DEF b
  <2>. QED
    BY <2>1, <2>2
<1>12. \A p \in Pairs(c) : p.subject \in Subjects(c)
  BY <1>1, <1>10 DEF Pair
<1>. QED
  BY <1>7, <1>8, <1>10, <1>11, <1>12

\* An initial value is the same in both readings, but for what only one knows of.
LEMMA ValuesAgree ==
    ASSUME NEW c, NEW s \in Subjects(c)
    PROVE  \/ SpecValue(c, s) = ScenarioValue(c, s)
           \/ SpecValue(c, s) = None /\ ScenarioValue(c, s) = "default"
           \/ s \in c.assumed \ c.native
<1>1. CASE s \in c.assumed
  BY <1>1 DEF SpecValue, ScenarioValue
<1>2. CASE s \notin c.assumed /\ s \in c.direct
  BY <1>2 DEF SpecValue, ScenarioValue
<1>3. CASE s \notin c.assumed /\ s \notin c.direct
  BY <1>3 DEF SpecValue, ScenarioValue
<1>. QED
  BY <1>1, <1>2, <1>3

\* For every case with a regular list or regular natives: its simulation is given
\* the machines and the values that the specification of the case says.
THEOREM ReadingsOfACaseAgree == CaseSpec => []ReadingsAgree
<1>1. ASSUME CaseInv
      PROVE  ReadingsAgree
  <2>. SUFFICES ASSUME Regular(case) PROVE
          /\ ~ ScenarioFails(case) /\ Readiness(case) # "Blocked"
          /\ Pairs(case) = {Pair(b.subject, b.behavior)
                              : b \in {x \in MachineBindings(case) : case.listed =>
                                         \E e \in Range(case.entries) : e.subject = x.subject}}
          /\ \A p \in Pairs(case) :
                LET s == p.subject IN
                \/ SpecValue(case, s) = ScenarioValue(case, s)
                \/ SpecValue(case, s) = None /\ ScenarioValue(case, s) = "default"
                \/ s \in case.assumed \ case.native
    BY DEF ReadingsAgree
  <2>1. case \in Cases
    BY <1>1 DEF CaseInv
  <2>2. CASE case.listed
    <3>1. /\ ~ ScenarioFails(case) /\ ~ Blocking(case)
          /\ Pairs(case) = {Pair(b.subject, b.behavior)
                              : b \in {x \in MachineBindings(case) :
                                         \E e \in Range(case.entries) : e.subject = x.subject}}
          /\ \A p \in Pairs(case) : p.subject \in Subjects(case)
      BY <2>1, <2>2, ListsAgree
    <3>. QED
      BY <2>2, <3>1, ValuesAgree DEF Readiness
  <2>3. CASE ~ case.listed
    <3>1. /\ ~ ScenarioFails(case) /\ ~ Blocking(case)
          /\ Pairs(case) = {Pair(b.subject, b.behavior) : b \in MachineBindings(case)}
          /\ \A p \in Pairs(case) : p.subject \in Subjects(case)
      BY <2>1, <2>3, NativesAgree
    <3>. QED
      BY <2>3, <3>1, ValuesAgree DEF Readiness
  <2>. QED
    BY <2>2, <2>3
<1>2. CaseInv => ReadingsAgree
  BY <1>1
<1>. QED
  BY CaseInvariance, <1>2, PTL
=============================================================================
