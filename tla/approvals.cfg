SPECIFICATION Spec
CONSTANTS
    a = a
    b = b
    c = c
    west = west
    Intents = {b, c}
    MaxSessions = 2
    Amount <- Equal
    Seller <- OneSeller
    SessionMax = 4
    SellerSessionMax = 4
    RollingMax = 4
    Window = 2
    MaxPending = 1
    ApprovalTtl = 1
    ChallengeMaxAge = 2
    AutoLimit = 1
    HumanLimit = 4
    TicksPerSecond = 1
    MaxTimeout = 2
    MaxTime = 1
    MaxFaults = 1
SYMMETRY Interchangeable
INVARIANTS
    PaidUnderAuthority
    ApprovalGatesMoney
    EndedSessionIsInert
    ReceiptParity
    MoneyRecoverable
PROPERTIES
    OutcomeFinal
    FrozenAuthorityIsFrozen
CHECK_DEADLOCK FALSE
