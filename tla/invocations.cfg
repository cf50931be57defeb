SPECIFICATION Spec
CONSTANTS
    k1 = k1
    k2 = k2
    a1 = a1
    a2 = a2
    s1 = s1
    s2 = s2
    NoAuth = NoAuth
    NoKey = NoKey
    Keys = {k1, k2}
    Auths = {a1}
    Servers = {s1, s2}
    MaxPendingOffers = 1
    MaxOffers = 2
    MaxClock = 1
    MaxMishaps = 1
SYMMETRY KeysAndServersAlike
INVARIANTS
    TypeOK
    EffectsClaimedOnce
    ExecutedIsPaid
    ReceiptsFollowRecord
    AdmissionBounded
PROPERTIES
    AmbiguityNeverResettles
    ImplementsPaidInvocation
CHECK_DEADLOCK FALSE
