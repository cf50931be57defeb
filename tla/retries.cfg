SPECIFICATION FairSpec
CONSTANTS
    k1 = k1
    k2 = k2
    a1 = a1
    a2 = a2
    s1 = s1
    s2 = s2
    NoAuth = NoAuth
    NoKey = NoKey
    Keys = {k1}
    Auths = {a1, a2}
    Servers = {s1}
    MaxPendingOffers = 1
    MaxOffers = 2
    MaxClock = 2
    MaxMishaps = 2
PROPERTIES
    UnresolvedIsReconciled
    SettledIsExecuted
CHECK_DEADLOCK FALSE
