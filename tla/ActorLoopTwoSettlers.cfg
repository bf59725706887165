CONSTANTS
    s1 = s1  s2 = s2  c1 = c1  d1 = d1  d2 = d2  t1 = t1  t2 = t2  u1 = u1  u2 = u2
    Sender = {}
    Closer = {}
    Drainer = {}
    Settler = {t1, t2}
    Impatient = {}
    Hasty = {}
    Sub = {}
    Quitter = {}
    MailboxCap = 2
    SubCap <- SmallCap
    MaxSend = 1
    MaxVersion = 1
SPECIFICATION FairSpec
PROPERTY SettleReturns
