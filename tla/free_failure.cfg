SPECIFICATION Spec
CONSTANTS
    a = a
    b = b
    c = c
    west = west
    Intents = {a}
    MaxSessions = 1
    Amount <- Equal
    Seller <- OneSeller
    SessionMax = 4
    SellerSessionMax = 4
    RollingMax = 3
    Window = 2
    MaxPending = 1
    ApprovalTtl = 2
    ChallengeMaxAge = 3
    AutoLimit = 2
    HumanLimit = 4
    TicksPerSecond = 2
    MaxTimeout = 1
    MaxTime = 4
    MaxFaults = 1
INVARIANT RestartAlwaysAdmitted
CHECK_DEADLOCK FALSE
