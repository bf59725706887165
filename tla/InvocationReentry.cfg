CONSTANTS
    charging = charging
    charge = charge  order = order  stock = stock  pause = pause  timeout = timeout
    State = {charging}
    Invoke = {charge}
    After = {}
    Owner <- OneOwner
    Adapter <- Adapters1
    MailboxCap = 1
    RecvCap = 1
    MaxStep = 3
    MaxCommand = 1
    MaxEvent = 1
    MaxEmit = 0
SPECIFICATION Spec
INVARIANT Reinvoked
