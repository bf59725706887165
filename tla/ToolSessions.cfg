CONSTANTS
    Docs <- MCDocs
    Pointer <- MCPointer
    Words <- MCWords
    Begins = {0, 6}
    MaxSaves = 2
    MaxCode = 1
    SubBuffer = 2
    LastVersion = 4
SPECIFICATION FairSpec
INVARIANT LoadsChart
INVARIANT NoRedeclaration
INVARIANT KeepsCode
INVARIANT DispatchFits
PROPERTY CatchesUp
PROPERTY LiveReturns
CHECK_DEADLOCK FALSE
