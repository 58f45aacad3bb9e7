----------------------------- MODULE ScenarioRun -----------------------------
(***************************************************************************)
(* What a scenario run over a state machine promises, with entering a      *)
(* configuration as one step: a run starts in a legal configuration or     *)
(* fails before its first step; each event either moves to the             *)
(* configuration entered at the target of an enabled transition or blocks  *)
(* the run; nothing else moves the configuration, and no run fails once    *)
(* it has started.                                                         *)
(***************************************************************************)
EXTENDS MachineStructure

VARIABLES
    machine,    \* the machine being run
    scenario,   \* the scenario: [initial, events, max]
    active,     \* the active configuration, <<>> before the run starts
    consumed,   \* how many events the trace records
    status      \* "Running", then the status of the report

vars == <<machine, scenario, active, consumed, status>>

Init ==
    /\ machine \in Machine
    /\ scenario \in Scenario
    /\ active = <<>>
    /\ consumed = 0
    /\ status = "Running"

FailToStart ==
    /\ status = "Running" /\ active = <<>>
    /\ status' = "Failed"
    /\ UNCHANGED <<machine, scenario, active, consumed>>

Start ==
    /\ status = "Running" /\ active = <<>>
    /\ Errors(machine) = {}
    /\ \E s \in machine.states : EntersAt(machine, active', s)
    /\ UNCHANGED <<machine, scenario, consumed, status>>

Fire ==
    /\ status = "Running" /\ active # <<>>
    /\ consumed < Len(scenario.events)
    /\ \E k \in 1..Len(machine.transitions) :
          /\ Selects(machine, active, scenario.events[consumed + 1], k)
          /\ EntersAt(machine, active', machine.transitions[k].target)
    /\ consumed' = consumed + 1
    /\ UNCHANGED <<machine, scenario, status>>

Block ==
    /\ status = "Running" /\ active # <<>>
    /\ consumed < Len(scenario.events)
    /\ NothingFires(machine, active, scenario.events[consumed + 1])
    /\ consumed' = consumed + 1
    /\ status' = "Blocked"
    /\ UNCHANGED <<machine, scenario, active>>

Complete ==
    /\ status = "Running" /\ active # <<>>
    /\ status' = "Completed"
    /\ UNCHANGED <<machine, scenario, active, consumed>>

Next == FailToStart \/ Start \/ Fire \/ Block \/ Complete

Spec == Init /\ [][Next]_vars
=============================================================================
