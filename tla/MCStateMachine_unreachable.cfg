SPECIFICATION Spec
CONSTANTS
    State <- MCState
    NoState <- MCNone
    Trigger <- MCTriggers
    NoTrigger <- MCNoTrigger
    Machines <- RouteMachines
    Scenarios <- MCScenarios
INVARIANT UnreachableIsNeverEntered
CHECK_DEADLOCK FALSE
