---------------------------- MODULE AnalysisRun ----------------------------
(***************************************************************************)
(* run_analysis_case (crates/mercurio-sysml/src/simulation/mod.rs): the    *)
(* specification of a case (AnalysisCase) is projected, its state machines *)
(* are simulated, its constraints analysed and its activities executed     *)
(* (ActivityExecution), one after the other, and what was reported becomes *)
(* one report. The readiness of the case is not asked for.                 *)
(*                                                                         *)
(* The simulation engine belongs to another crate, and the analysis of     *)
(* constraints is ConstraintSolver over the whole model: each returns any  *)
(* status it may return.                                                   *)
(***************************************************************************)
EXTENDS AnalysisCase, ActivityExecution

CONSTANTS
    Cases,    \* the cases, with their models
    IdOrder   \* the ids of actions, as a BTreeSet orders them

VARIABLES
    case,     \* the case that is run
    stage,    \* what is done next
    todo,     \* the activity bindings that are left
    ended,    \* the statuses of the activities executed
    reports,  \* the reports so far: [capability, status]
    outcome   \* the status of the report, or "error"

activityVars == <<activity, phase, completed, steps, status, diagnostics>>
runVars == <<case, stage, todo, ended, reports, outcome>>

-----------------------------------------------------------------------------
(* The activity of an action: nodes are ids, sequences of segments. *)

\* activity_execution_nodes. An action that owns none is its own node.
NodesOf(c, behavior) ==
    LET owned == {n \in DOMAIN c.owner : c.owner[n] = behavior}
    IN  IF owned = {} /\ behavior \in DOMAIN c.owner THEN {behavior} ELSE owned

First(nodes) == SelectInSeq(IdOrder, LAMBDA n : n \in nodes)

\* resolve_activity_reference: an id, or else the first id that ends with the
\* first or the last segment of the reference.
Resolve(reference, nodes) ==
    LET near == {n \in nodes : Len(n) > 1 /\ Last(n) \in {reference[1], Last(reference)}}
    IN  CASE reference \in nodes -> reference
          [] reference \notin nodes /\ near # {} -> IdOrder[First(near)]
          [] OTHER -> Unknown

End(reference, nodes) == IF reference = <<>> THEN Absent ELSE Resolve(reference, nodes)

\* flow_touches_nodes: a flow of another activity counts when one of its ends
\* is taken for a node of this one.
Touches(f, nodes) ==
    f.source # <<>> /\ f.target # <<>> /\ {Resolve(f.source, nodes), Resolve(f.target, nodes)} \cap nodes # {}

ActivityOf(c, behavior) ==
    LET nodes == NodesOf(c, behavior)
    IN  [nodes |-> nodes,
         flows |-> {[source |-> End(f.source, nodes), target |-> End(f.target, nodes)]
                      : f \in {g \in c.flows : g.owner = behavior \/ Touches(g, nodes)}}]

\* A case lists its entries and machines in an order, no machine is owned by what
\* is not there, and finitely many activities are bound, each of the kind
\* ActivityExecution is about.
ASSUME CasesAssumption ==
    /\ \A c \in Cases : /\ c.entries \in Seq(Range(c.entries)) /\ c.machines \in Seq(Range(c.machines))
                        /\ \A m \in Range(c.machines) : None \notin m.roots
    /\ \A c \in Cases : IsFiniteSet(ActivityBindings(c))
    /\ UNION {{ActivityOf(c, b.behavior) : b \in ActivityBindings(c)} : c \in Cases} \subseteq Activities

-----------------------------------------------------------------------------
Idle == [nodes |-> {}, flows |-> {}]

CaseInit ==
    /\ case \in Cases
    /\ stage = "project" /\ outcome = "none"
    /\ todo = {} /\ ended = <<>> /\ reports = <<>>
    /\ activity = Idle /\ phase = "idle"
    /\ completed = {} /\ steps = <<>> /\ status = "Running" /\ diagnostics = {}

Fails ==
    /\ stage' = "over" /\ outcome' = "error"
    /\ UNCHANGED <<todo, ended, reports>>

Reported(capability, s) == reports' = Append(reports, [capability |-> capability, status |-> s])

Project ==
    /\ stage = "project"
    /\ stage' = "simulate" /\ todo' = ActivityBindings(case)
    /\ UNCHANGED <<case, ended, reports, outcome, activityVars>>

\* The adapter or the engine may refuse. The status of the report is that of
\* the trace: Completed, Blocked, Failed.
Simulate ==
    /\ stage = "simulate" /\ MachineBindings(case) # {}
    /\ UNCHANGED <<case, activityVars>>
    /\ \/ Fails
       \/ /\ ~ ScenarioFails(case) /\ Handled(case)
          /\ stage' = "constraints"
          /\ \E s \in {"Passed", "Partial", "Failed"} : Reported("simulation", s)
          /\ UNCHANGED <<todo, ended, outcome>>

NothingToSimulate ==
    /\ stage = "simulate" /\ MachineBindings(case) = {}
    /\ stage' = "constraints"
    /\ UNCHANGED <<case, todo, ended, reports, outcome, activityVars>>

\* requires_constraint_analysis
ConstraintsRequired(c) == Techniques(c) \cap {"calculation", "constraint", "verification"} # {}

\* constraint_analysis_report, which fails when the workspace cannot be made of
\* the graph or the capability refuses the request.
AnalyseConstraints ==
    /\ stage = "constraints"
    /\ UNCHANGED <<case, activityVars>>
    /\ \/ ConstraintsRequired(case) /\ Fails
       \/ /\ stage' = "activities"
          /\ IF ConstraintsRequired(case)
               THEN \E s \in {"Passed", "Partial", "Failed", "NotApplicable"} : Reported("constraints", s)
               ELSE UNCHANGED reports
          /\ UNCHANGED <<todo, ended, outcome>>

\* execute_activity_binding of the next binding. Their order makes no difference.
StartActivity ==
    /\ stage = "activities" /\ phase \in {"idle", "done"}
    /\ \E b \in todo :
          /\ todo' = todo \ {b}
          /\ activity' = ActivityOf(case, b.behavior)
    /\ phase' = "collect" /\ completed' = {} /\ steps' = <<>>
    /\ status' = "Running" /\ diagnostics' = {}
    /\ UNCHANGED <<case, stage, ended, reports, outcome>>

\* A step of the execution; the last one returns its status.
ExecuteActivity ==
    /\ stage = "activities"
    /\ Next
    /\ ended' = IF phase' = "done" THEN Append(ended, status') ELSE ended
    /\ UNCHANGED <<case, stage, todo, reports, outcome>>

\* Seeded fault: what is not applicable does not count.
AggregateOfApplicable(statuses) ==
    CASE "Failed" \in statuses -> "Failed"
      [] "Failed" \notin statuses /\ "Partial" \in statuses -> "Partial"
      [] statuses \cap {"Failed", "Partial"} = {} /\ "Passed" \in statuses -> "Passed"
      [] OTHER -> "NotApplicable"

\* aggregate_capability_status. None is an Error or Inconclusive.
Aggregate(statuses) ==
    CASE "Failed" \in statuses -> "Failed"
      [] "Failed" \notin statuses /\ ("Partial" \in statuses \/ {"Passed", "NotApplicable"} \subseteq statuses) -> "Partial"
      [] statuses = {"Passed"} -> "Passed"
      [] OTHER -> "NotApplicable"

\* activity_execution_report
ReportActivities ==
    /\ stage = "activities" /\ todo = {} /\ phase \in {"idle", "done"}
    /\ stage' = "report"
    /\ IF ended = <<>> THEN UNCHANGED reports ELSE Reported("activities", Aggregate(Range(ended)))
    /\ UNCHANGED <<case, todo, ended, outcome, activityVars>>

\* composite_analysis_report, or the only report there is.
Conclude ==
    /\ stage = "report"
    /\ stage' = "over"
    /\ outcome' = CASE Len(reports) = 0 -> "error"
                    [] Len(reports) = 1 -> reports[1].status
                    [] Len(reports) > 1 -> Aggregate({r.status : r \in Range(reports)})
    /\ UNCHANGED <<case, todo, ended, reports, activityVars>>

CaseNext ==
    \/ Project
    \/ Simulate
    \/ NothingToSimulate
    \/ AnalyseConstraints
    \/ StartActivity
    \/ ExecuteActivity
    \/ ReportActivities
    \/ Conclude

CaseVars == <<runVars, activityVars>>

\* A run is one call that runs to its return.
CaseSpec == CaseInit /\ [][CaseNext]_CaseVars /\ WF_CaseVars(CaseNext)

-----------------------------------------------------------------------------
\* A case is Passed only when all that it binds or asks for was carried out:
\* the machines were simulated to their end, every activity was executed
\* whole, and where the plan has constraints, calculations or verdicts, they were
\* found in order (aggregate_capability_status, infer_techniques, execution_plan).
\* What is expected was made, a trace excepted that nothing is bound for.
Made ==
    {CASE r.capability = "simulation" -> "simulation_trace"
       [] r.capability = "constraints" -> "constraint_analysis_summary"
       [] r.capability = "activities" -> "activity_execution_summary" : r \in Range(reports)}

PassedCaseIsWhole ==
    outcome = "Passed" =>
        /\ \A r \in Range(reports) : r.status = "Passed"
        /\ Len(ended) = Cardinality(ActivityBindings(case)) /\ Range(ended) \subseteq {"Passed"}
        /\ \A kind \in {"constraint_analysis_summary", "activity_execution_summary"} :
              kind \in Artifacts(case) => kind \in Made
        /\ MachineBindings(case) # {} => "simulation_trace" \in Made
        /\ Plan(case) \cap {"calculation", "constraint", "requirement", "verification"} # {}
              => "constraint_analysis_summary" \in Made

\* The cases the two readings are made for: a definition that is asked for by
\* its id or name, and either a list that gives every subject its own machine,
\* or natives whose types own a machine each, and they themselves none.
Regular(c) ==
    /\ ~ NotFound(c) /\ ~ ScriptFails(c)
    /\ IF c.listed
         THEN /\ c.entries # <<>>
              /\ \A i, j \in DOMAIN c.entries :
                    /\ ~ BadEntry(c.entries[i]) /\ c.entries[i].subject \in Elements(c)
                    /\ i # j => c.entries[i].subject # c.entries[j].subject
         ELSE /\ c.native # {} /\ c.named \subseteq c.native
              /\ \A s \in c.native : /\ \E m \in Range(c.machines) : TypeOf(c, s) \in m.roots
                                     /\ \A m \in Range(c.machines) : s \notin m.roots

\* What is simulated is what the specification of the case says: the same
\* machine for each of its subjects, and the initial values it gives, which
\* the constraints of the same run are given, where it gives any; nothing in
\* its readiness blocks it (analysis.rs,
\* collect_dynamic_behavior_bindings, initial_values_from_assumptions;
\* adapter.rs, native_analysis_subjects, native_analysis_initial_values).
ReadingsAgree ==
    (stage # "project" /\ Regular(case)) =>
        /\ ~ ScenarioFails(case) /\ Readiness(case) # "Blocked"
        /\ Pairs(case) = {Pair(b.subject, b.behavior)
                            : b \in {x \in MachineBindings(case) : case.listed =>
                                       \E e \in Range(case.entries) : e.subject = x.subject}}
        /\ \A p \in Pairs(case) :
              LET s == p.subject IN
              \/ SpecValue(case, s) = ScenarioValue(case, s)
              \/ SpecValue(case, s) = None /\ ScenarioValue(case, s) = "default"
              \/ s \in case.assumed \ case.native

\* Every run comes to an end, whatever the case and its activities are.
EveryRunEnds == <>(stage = "over")
=============================================================================
