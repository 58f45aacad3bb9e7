SPECIFICATION Spec
CONSTANTS
    State <- MCState
    NoState <- MCNone
    Trigger <- MCTriggers
    NoTrigger <- MCNoTrigger
    Machines <- AllMachines
    Scenarios <- MCScenarios
INVARIANTS
    FailureIsExplained
    ActiveIsConfiguration
    TraceIsContinuous
    StepsAreJustified
PROPERTIES
    ImplementsScenarioRun
CHECK_DEADLOCK FALSE
