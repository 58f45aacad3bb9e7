SPECIFICATION ReleaseSpec
CONSTANTS
    t1 = t1
    t2 = t2
    r1 = r1
    r2 = r2
    default = default
    june = june
    july = july
    here = here
    there = there
    bundled = bundled
    foreign = foreign
    Thread <- MCThread
    Locator <- MCLocator
    Run <- MCRun
    OutDir <- MCOutDir
    Library <- MCLibrary
    Args <- MCArgs
    Generated <- MCGenerated
    Default = default
    Bundled = bundled
    NoFile = NoFile
    Truncated = Truncated
    Reference = Reference
    NoDocument = NoDocument
    MaxLoads = 2
SYMMETRY Symmetry
ACTION_CONSTRAINT PromotedAreLoaded
INVARIANTS
    OneDocumentPerLocator
    LatestResolves
    RegisteredIsComplete
    PromotionStands
    CachedIsPromoted
CHECK_DEADLOCK FALSE
