CONSTANTS
    charging = charging
    charge = charge  order = order  stock = stock  pause = pause  timeout = timeout
    State = {charging}
    Invoke = {order, stock, pause}
    After = {}
    Owner <- OneOwner
    Adapter <- Adapters3
    MailboxCap = 1
    RecvCap = 1
    MaxStep = 2
    MaxCommand = 2
    MaxEvent = 1
    MaxEmit = 1
SPECIFICATION FairSpec
INVARIANT NoneForgotten
PROPERTY BackToMailbox
PROPERTY Stops
