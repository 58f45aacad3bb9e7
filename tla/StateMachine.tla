---------------------------- MODULE StateMachine ----------------------------
(***************************************************************************)
(* StateMachineModel::execute_scenario, one action per loop iteration:     *)
(* validate_structure, the choice of the start state, the two loops of     *)
(* enter_state_configuration (up to the root, down the default initial     *)
(* children), and one event of the scenario at a time.                     *)
(***************************************************************************)
EXTENDS MachineStructure

CONSTANTS
    Machines,   \* the machines as projected, before the default initial state
    Scenarios   \* the scenarios they are run on

ASSUME MachinesAssumption == Machines \subseteq Machine
ASSUME ScenariosAssumption == Scenarios \subseteq Scenario

VARIABLES
    machine,      \* the machine the scenario runs on
    scenario,     \* the scenario
    phase,        \* where execute_scenario is
    target,       \* the state enter_state_configuration was called with
    cursor,       \* cursor of the climb, current of the descent
    path,         \* the configuration under construction
    via,          \* the transition being taken, 0 while entering the start state
    active,       \* the active configuration
    steps,        \* the trace: [transition, before, after], 0 for no transition
    status,       \* "Running", then the status of the report
    diagnostics   \* the findings of the report

vars == <<machine, scenario, phase, target, cursor, path, via, active, steps, status, diagnostics>>
inputs == <<machine, scenario>>
entry == <<target, cursor, path, via>>

Phases == {"validate", "ascend", "descend", "run", "done"}

ProjectedMachines == {ApplyDefaultInitialState(m) : m \in Machines}

Init ==
    /\ machine \in ProjectedMachines
    /\ scenario \in Scenarios
    /\ phase = "validate"
    /\ target = NoState /\ cursor = NoState /\ path = <<>> /\ via = 0
    /\ active = <<>> /\ steps = <<>>
    /\ status = "Running" /\ diagnostics = {}

-----------------------------------------------------------------------------
\* The step a transition leaves in the trace.
TraceStep(k, before, after) == [transition |-> k, before |-> before, after |-> after]

Finish(result) == phase' = "done" /\ status' = result

\* enter_state_configuration returned None: for the start state the report is
\* no_executable_initial_state, for a transition a step that goes nowhere.
EntryFailed(k, found) ==
    /\ Finish("Failed")
    /\ IF k = 0
       THEN /\ diagnostics' = found \cup Finding("no_executable_initial_state", "Error", {NoState})
            /\ UNCHANGED steps
       ELSE /\ diagnostics' = found
            /\ steps' = Append(steps, TraceStep(k, active, active))
    /\ UNCHANGED <<inputs, entry, active>>

\* Call enter_state_configuration(s) for transition k, 0 for the start state.
Enter(s, k, found) ==
    IF s \in machine.states
    THEN /\ phase' = "ascend"
         /\ target' = s /\ cursor' = s /\ path' = <<>> /\ via' = k
         /\ diagnostics' = found
         /\ UNCHANGED <<inputs, active, steps, status>>
    ELSE EntryFailed(k, found)

\* The start state: the scenario's, else the first top-level initial state,
\* else the default root; none when all three are missing.
StartState ==
    IF scenario.initial # NoState THEN {scenario.initial}
    ELSE IF TopInitial(machine) # {}
         THEN {s \in TopInitial(machine) : IsFirst(s, TopInitial(machine))}
         ELSE DefaultRoot(machine)

Validate ==
    /\ phase = "validate"
    /\ LET found == ValidateStructure(machine)
       IN  \/ /\ Errors(machine) # {}
              /\ Finish("Failed")
              /\ diagnostics' = found
              /\ UNCHANGED <<inputs, entry, active, steps>>
           \/ /\ Errors(machine) = {}
              /\ \E s \in StartState : Enter(s, 0, found)
           \/ /\ Errors(machine) = {}
              /\ StartState = {}
              /\ EntryFailed(0, found)

\* Seeded fault: the path is not reversed.
AscendUnreversed ==
    /\ phase = "ascend"
    /\ path' = Append(path, cursor)
    /\ IF machine.parent[cursor] = NoState
       THEN phase' = "descend" /\ cursor' = target
       ELSE phase' = "ascend" /\ cursor' = machine.parent[cursor]
    /\ UNCHANGED <<inputs, target, via, active, steps, status, diagnostics>>

\* One round of ancestor_path: push the cursor, go to its parent.
Ascend ==
    /\ phase = "ascend"
    /\ LET parent == machine.parent[cursor]
       IN  IF parent \in machine.states \cup {NoState}
           THEN /\ path' = <<cursor>> \o path
                /\ IF parent = NoState
                   THEN phase' = "descend" /\ cursor' = target
                   ELSE phase' = "ascend" /\ cursor' = parent
                /\ UNCHANGED <<inputs, target, via, active, steps, status, diagnostics>>
           ELSE EntryFailed(via, diagnostics)

\* One round of the descent: push the first initial child of the cursor.
Descend ==
    /\ phase = "descend"
    /\ \E child \in InitialChildren(machine, cursor) :
          /\ IsFirst(child, InitialChildren(machine, cursor))
          /\ path' = Append(path, child)
          /\ cursor' = child
    /\ UNCHANGED <<inputs, phase, target, via, active, steps, status, diagnostics>>

\* The cursor has no initial child: the configuration is complete.
Entered ==
    /\ phase = "descend"
    /\ InitialChildren(machine, cursor) = {}
    /\ active' = path
    /\ steps' = IF via = 0 THEN steps ELSE Append(steps, TraceStep(via, active, path))
    /\ phase' = "run"
    /\ UNCHANGED <<inputs, entry, status, diagnostics>>

AtLeastOne(n) == IF n = 0 THEN 1 ELSE n   \* usize::max(n, 1)

\* Seeded fault: max_steps is not looked at.
EventPendingUnbounded == Len(steps) < Len(scenario.events)

\* scenario.events.iter().take(max_steps.max(1)) has another event.
EventPending ==
    /\ Len(steps) < Len(scenario.events)
    /\ Len(steps) < AtLeastOne(scenario.max)

PendingTrigger == scenario.events[Len(steps) + 1]

\* Seeded fault: the outermost active state is asked first.
TakeOutermost ==
    /\ phase = "run" /\ EventPending
    /\ \E i \in 1..Len(active) :
          /\ \A j \in 1..(i - 1) : FiredFrom(machine, active[j], PendingTrigger) = {}
          /\ \E k \in FiredFrom(machine, active[i], PendingTrigger) :
                /\ IsFirst(k, FiredFrom(machine, active[i], PendingTrigger))
                /\ Enter(machine.transitions[k].target, k, diagnostics)

TakeTransition ==
    /\ phase = "run" /\ EventPending
    /\ \E k \in 1..Len(machine.transitions) :
          /\ Selects(machine, active, PendingTrigger, k)
          /\ Enter(machine.transitions[k].target, k, diagnostics)

Block ==
    /\ phase = "run" /\ EventPending
    /\ NothingFires(machine, active, PendingTrigger)
    /\ steps' = Append(steps, TraceStep(0, active, active))
    /\ Finish("Blocked")
    /\ UNCHANGED <<inputs, entry, active, diagnostics>>

Complete ==
    /\ phase = "run" /\ ~EventPending
    /\ Finish("Completed")
    /\ UNCHANGED <<inputs, entry, active, steps, diagnostics>>

Next == Validate \/ Ascend \/ Descend \/ Entered \/ TakeTransition \/ Block \/ Complete

Spec == Init /\ [][Next]_vars

-----------------------------------------------------------------------------
TraceSteps == [transition : Nat, before : Seq(State), after : Seq(State)]

TypeOK ==
    /\ machine \in Machine
    /\ scenario \in Scenarios
    /\ phase \in Phases
    /\ target \in State \cup {NoState} /\ cursor \in State \cup {NoState}
    /\ path \in Seq(State) /\ via \in Nat
    /\ active \in Seq(State) /\ steps \in Seq(TraceSteps)
    /\ status \in {"Running", "Completed", "Blocked", "Failed"}
    /\ \A f \in diagnostics : f.severity \in {"Warning", "Error"}

\* Whenever an event can be taken, and in every report of a run that started,
\* the active configuration is a chain of states from a root to a state with
\* no initial child, each the parent of the next: the two entry loops never
\* leave it short, reversed or mixed with the configuration they replace.
ActiveIsConfiguration ==
    (phase = "run" \/ active # <<>>) => IsConfiguration(machine, active)

\* The trace is one unbroken path: each step starts where the step before it
\* ended, the last one ends in the reported configuration, and there is no
\* step beyond the events or beyond max_steps, which counts as 1 when it is 0.
TraceIsContinuous ==
    /\ \A i \in 1..(Len(steps) - 1) : steps[i].after = steps[i + 1].before
    /\ steps # <<>> => steps[Len(steps)].after = active
    /\ Len(steps) <= Len(scenario.events)
    /\ Len(steps) <= AtLeastOne(scenario.max)

\* A failed run has an empty trace and a cause its caller can see: an error of
\* the structure, a machine without states, or an initial_state_id that names
\* no state. The mid-run "targeted a state that could not be entered" branch
\* of execute_scenario is never taken on a machine that passed validation.
FailureIsExplained ==
    status = "Failed" =>
        /\ steps = <<>> /\ active = <<>>
        /\ \E f \in diagnostics : f.severity = "Error"
        /\ \/ Errors(machine) # {}
           \/ machine.states = {}
           \/ scenario.initial \notin machine.states \cup {NoState}

\* Every recorded step is one the machine allows: a transition in the trace is
\* unguarded, answers the step's event, leaves a state of the configuration it
\* found, ends in one that holds its target, and no state nested deeper in the
\* configuration answers the event; a step without one found no such state.
StepsAreJustified ==
    \A i \in 1..Len(steps) :
        LET s == steps[i]
            trigger == scenario.events[i]
            Answers(x) == \E t \in Arrows(machine) :
                              t.source = x /\ t.trigger = trigger /\ ~t.guarded
        IN  IF s.transition = 0
            THEN \A j \in 1..Len(s.before) : ~Answers(s.before[j])
            ELSE LET t == machine.transitions[s.transition]
                 IN  /\ t.trigger = trigger /\ ~t.guarded
                     /\ \E j \in 1..Len(s.after) : s.after[j] = t.target
                     /\ \E j \in 1..Len(s.before) :
                           /\ s.before[j] = t.source
                           /\ \A d \in (j + 1)..Len(s.before) : ~Answers(s.before[d])

\* unreachable_state, "State is not reachable from any initial state through
\* projected transitions", is never reported of a state that a run from the
\* machine's own start state entered as the target of a fired transition.
UnreachableIsNeverEntered ==
    scenario.initial = NoState =>
        \A i \in 1..Len(steps) :
            steps[i].transition # 0 =>
                machine.transitions[steps[i].transition].target \notin Unreachable(machine)

\* The loops implement a run that enters configurations in one step.
Abstract == INSTANCE ScenarioRun WITH consumed <- Len(steps)
ImplementsScenarioRun == Abstract!Spec
=============================================================================
