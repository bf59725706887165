CONSTANTS
    MaxRetries = 2
    FixAttempts = 2
    MailboxCap = 1
    MaxComment = 1
SPECIFICATION FairSpec
INVARIANT SharedBudget
INVARIANT NoNeedlessPost
INVARIANT SuccessIsSynced
PROPERTY Exits
