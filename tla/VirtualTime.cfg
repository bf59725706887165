CONSTANTS
    Leaf <- MCLeaf
    Home = "idle"
    After <- MCAfter
    On <- MCOn
    Outcomes <- MCOutcomes
    None <- MCNone
    Scripts <- MCScripts
    Threshold = 2
    MailboxCap = 2
    MaxTicks = 1
SPECIFICATION FairSpec
INVARIANT Deterministic
INVARIANT OnlyStalls
PROPERTY ScenarioEnds
