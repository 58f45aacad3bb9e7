SPECIFICATION Spec
CONSTANTS
    Byte <- MCByte
    Continuation <- MCContinuation
    Blank <- MCBlank
    Unknown <- MCUnknown
    Client <- TwoClients
    Texts <- AllTexts
    Batches <- AllBatches
    Parse <- ParseText
    ParseTokens <- ParseModule
    MaxRevision = 2
INVARIANTS
    RevisionNamesText
    SnapshotIsHonest
    ChangedRangesHoldReplacements
    ChangedDeclarationsAreInnermost
    CleanIsStrict
    SpansNest
    ErrorsStayInTheirStatement
PROPERTIES
    OutlineIsKept
    ImplementsVersionedText
