SPECIFICATION Spec
CONSTANTS
    Expr <- MCExpr
    Height <- MCHeight
    Depth = 3
    Variable <- MCVariable
    Source <- MCSource
    Problems <- MCProblems
    VariablesOf <- SourceVariables
    AliasOf <- MCAlias
    Isolate <- IsolateInSource
    StatusOf <- FinalStatus
INVARIANT IsolatedIsNotInconsistent
CHECK_DEADLOCK FALSE
