CONSTANTS
    Nodes <- WorkNodes
    Kind <- WorkKind
    Parent <- WorkParent
    Initial <- WorkInitial
    Edges <- WorkEdges
    External = {"E", "F", "G", "H", "D"}
    AlwaysLimit = 2
    MaxTasks = 60
SPECIFICATION FairSpec
INVARIANT LegalConfiguration
INVARIANT JustPreemption
PROPERTY EntryExitPaired
PROPERTY TargetedExits
PROPERTY HistoryRestores
PROPERTY ParallelDone
PROPERTY MacrostepEnds
