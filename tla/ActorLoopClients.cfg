CONSTANTS
    s1 = s1  s2 = s2  c1 = c1  d1 = d1  d2 = d2  t1 = t1  t2 = t2  u1 = u1  u2 = u2
    Sender = {s1}
    Closer = {}
    Drainer = {d1, d2}
    Settler = {t1}
    Impatient = {s1, d1, t1}
    Hasty = {}
    Sub = {}
    Quitter = {}
    MailboxCap = 2
    SubCap <- SmallCap
    MaxSend = 2
    MaxVersion = 1
SPECIFICATION FairSpec
INVARIANT HandledInOrder
INVARIANT DrainedBacklog
INVARIANT SettledBacklog
PROPERTY NothingDropped
PROPERTY StopReleases
PROPERTY SettleReturns
