SPECIFICATION Spec
CONSTANTS
    Byte <- MCByte
    Continuation <- MCContinuation
    Blank <- MCBlank
    Unknown <- MCUnknown
    Client <- OneClient
    Texts <- ParserTexts
    Batches <- NoBatches
    Parse <- ParseText
    ParseTokens <- ParseModule
    MaxRevision = 1
INVARIANT ValidSiblingsArePreserved
