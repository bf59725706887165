CONSTANTS
    s1 = s1  s2 = s2  c1 = c1  d1 = d1  d2 = d2  t1 = t1  t2 = t2  u1 = u1  u2 = u2
    Sender = {s1}
    Closer = {c1}
    Drainer = {}
    Settler = {}
    Impatient = {}
    Hasty = {}
    Sub = {u1}
    Quitter = {u1}
    MailboxCap = 1
    SubCap <- SmallCap
    MaxSend = 1
    MaxVersion = 2
SPECIFICATION FairSpec
PROPERTY CloseReturns
CHECK_DEADLOCK FALSE
