CONSTANTS
    Nodes <- RootParallelNodes
    Kind <- RootParallelKind
    Parent <- RootParallelParent
    Initial <- RootParallelInitial
    Edges <- RootParallelEdges
    External = {"E", "F"}
    AlwaysLimit = 2
    MaxTasks = 60
SPECIFICATION FairSpec
INVARIANT LegalConfiguration
