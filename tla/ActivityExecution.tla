-------------------------- MODULE ActivityExecution --------------------------
(***************************************************************************)
(* execute_activity_binding (crates/mercurio-sysml/src/simulation/mod.rs): *)
(* the flows of an activity become edges between its nodes, and rounds     *)
(* execute every node whose predecessors are all completed, until a round  *)
(* finds none. Every node waits for all its predecessors, whatever its     *)
(* kind: a merge is executed like a join.                                  *)
(***************************************************************************)
EXTENDS Naturals, Sequences, FiniteSets

CONSTANTS
    Node,           \* what the ends of flows may resolve to
    Unknown,        \* an end that names nothing
    Absent,         \* a flow without this end
    Activities      \* [nodes, flows]; a flow is [source, target]

ASSUME ActivitiesAssumption ==
    \A a \in Activities :
        /\ a.nodes \subseteq Node /\ IsFiniteSet(a.nodes)
        /\ a.flows \subseteq [source : Node \cup {Unknown, Absent},
                              target : Node \cup {Unknown, Absent}]

ASSUME NoEnds == Unknown \notin Node /\ Absent \notin Node

VARIABLES
    activity,       \* the activity
    phase,          \* "collect", "run", "done"
    completed,      \* the nodes executed so far
    steps,          \* the nodes of every round
    status,         \* "Running", then the status of the report
    diagnostics     \* the codes of the diagnostics

vars == <<activity, phase, completed, steps, status, diagnostics>>

Nodes == activity.nodes

\* A flow with both ends: one without is skipped silently.
Complete(f) == f.source # Absent /\ f.target # Absent

\* activity_flows: the edges, and what is said of flows that give none. A
\* target is only looked at when the source resolves.
Edges == {f \in activity.flows : f.source \in Nodes /\ f.target \in Nodes}

FlowDiagnostics ==
    {"unresolved_flow_source" : f \in {g \in activity.flows : Complete(g) /\ g.source \notin Nodes}}
    \cup {"unresolved_flow_target" : f \in {g \in activity.flows :
                                              Complete(g) /\ g.source \in Nodes /\ g.target \notin Nodes}}

Predecessors(n) == {f.source : f \in {g \in Edges : g.target = n}}

\* Seeded fault: one completed predecessor is enough.
EnabledByAny ==
    {n \in Nodes \ completed :
        Predecessors(n) = {} \/ Predecessors(n) \cap completed # {}}

Enabled == {n \in Nodes \ completed : Predecessors(n) \subseteq completed}

Init ==
    /\ activity \in Activities
    /\ phase = "collect"
    /\ completed = {} /\ steps = <<>>
    /\ status = "Running" /\ diagnostics = {}

\* An activity without nodes is reported as it is, its flows unseen.
NoNodes ==
    /\ phase = "collect" /\ Nodes = {}
    /\ phase' = "done" /\ status' = "Partial" /\ diagnostics' = {"no_nodes"}
    /\ UNCHANGED <<activity, completed, steps>>

Collect ==
    /\ phase = "collect" /\ Nodes # {}
    /\ phase' = "run" /\ diagnostics' = FlowDiagnostics
    /\ UNCHANGED <<activity, completed, steps, status>>

\* Seeded fault: the nodes of a round are completed one by one while the round
\* looks for enabled nodes.
RoundOneByOne ==
    /\ phase = "run" /\ Enabled # {}
    /\ LET first == CHOOSE n \in Enabled : TRUE
           next == {n \in Nodes \ completed : Predecessors(n) \subseteq completed \cup {first}}
       IN  /\ steps' = Append(steps, next)
           /\ completed' = completed \cup next
    /\ UNCHANGED <<activity, phase, status, diagnostics>>

Round ==
    /\ phase = "run" /\ Enabled # {}
    /\ steps' = Append(steps, Enabled)
    /\ completed' = completed \cup Enabled
    /\ UNCHANGED <<activity, phase, status, diagnostics>>

\* Seeded fault: a round without enabled nodes does not end the loop.
ReportWhenAllCompleted ==
    /\ phase = "run" /\ completed = Nodes
    /\ phase' = "done"
    /\ status' = IF diagnostics = {} THEN "Passed" ELSE "Partial"
    /\ UNCHANGED <<activity, completed, steps, diagnostics>>

\* Seeded fault: diagnostics do not keep the status from being Passed.
ReportDespiteDiagnostics ==
    /\ phase = "run" /\ Enabled = {}
    /\ phase' = "done"
    /\ diagnostics' = diagnostics \cup IF completed = Nodes THEN {} ELSE {"blocked_graph"}
    /\ status' = IF completed = Nodes THEN "Passed" ELSE "Partial"
    /\ UNCHANGED <<activity, completed, steps>>

Report ==
    /\ phase = "run" /\ Enabled = {}
    /\ phase' = "done"
    /\ diagnostics' = diagnostics \cup IF completed = Nodes THEN {} ELSE {"blocked_graph"}
    /\ status' = IF diagnostics' = {} THEN "Passed" ELSE "Partial"
    /\ UNCHANGED <<activity, completed, steps>>

Next == NoNodes \/ Collect \/ Round \/ Report

Spec == Init /\ [][Next]_vars

-----------------------------------------------------------------------------
TypeOK ==
    /\ activity \in Activities
    /\ phase \in {"collect", "run", "done"}
    /\ completed \subseteq Nodes
    /\ steps \in Seq(SUBSET Nodes)
    /\ status \in {"Running", "Passed", "Partial"}
    /\ completed = UNION {steps[i] : i \in 1..Len(steps)}

\* The steps are the layers of the activity: a node is executed once, after
\* all its predecessors, and no later than in the round after the last of them.
StepsAreLayers ==
    \A i \in 1..Len(steps) :
        LET Before(k) == UNION {steps[j] : j \in 1..k}
        IN  /\ steps[i] # {} /\ steps[i] \cap Before(i - 1) = {}
            /\ \A n \in steps[i] :
                  /\ Predecessors(n) \subseteq Before(i - 1)
                  /\ i > 1 => Predecessors(n) \cap steps[i - 1] # {}

\* Blocked is what can never be executed: the nodes left over are exactly those
\* that a cycle of edges leads to, and every one of them waits for another.
StuckSets == {S \in SUBSET Nodes : \A n \in S : Predecessors(n) \cap S # {}}

BlockedIsStuck ==
    phase = "done" => Nodes \ completed = UNION StuckSets

\* Passed means that the whole activity as modelled was executed: all nodes,
\* and every flow that has both ends contributed its edge.
PassedMeansAllExecuted ==
    status = "Passed" =>
        /\ Nodes # {} /\ completed = Nodes
        /\ \A f \in activity.flows : Complete(f) => f \in Edges
=============================================================================
