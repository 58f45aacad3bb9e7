SPECIFICATION CaseSpec
CONSTANTS
    Subject <- MCSubject
    None = None
    Node <- MCNode
    Unknown = unknown
    Absent = absent
    Cases <- MCCases
    IdOrder <- MCIdOrder
    Activities <- MCActivities
INVARIANTS
    StepsAreLayers
    BlockedIsStuck
    PassedMeansAllExecuted
    PassedCaseIsWhole
    ReadingsAgree
PROPERTIES
    EveryRunEnds
CHECK_DEADLOCK FALSE
