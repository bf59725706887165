CONSTANTS
    charging = charging
    charge = charge  order = order  stock = stock  pause = pause  timeout = timeout
    State = {charging}
    Invoke = {charge}
    After = {timeout}
    Owner <- OneOwner
    Adapter <- Adapters1
    MailboxCap = 1
    RecvCap = 1
    MaxStep = 3
    MaxCommand = 1
    MaxEvent = 2
    MaxEmit = 0
SPECIFICATION FairSpec
INVARIANT InvokesMatch
INVARIANT TimersMatch
INVARIANT NothingOutlives
PROPERTY SeparateAttempts
PROPERTY AllReleased
