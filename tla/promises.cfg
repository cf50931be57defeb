SPECIFICATION FairSpec
CONSTANTS
    a = a
    b = b
    c = c
    west = west
    Intents = {b, c}
    MaxSessions = 1
    Amount <- Equal
    Seller <- OneSeller
    SessionMax = 2
    SellerSessionMax = 4
    RollingMax = 4
    Window = 2
    MaxPending = 2
    ApprovalTtl = 1
    ChallengeMaxAge = 1
    AutoLimit = 1
    HumanLimit = 2
    TicksPerSecond = 1
    MaxTimeout = 1
    MaxTime = 1
    MaxFaults = 1
INVARIANT SessionCeilingHolds
PROPERTIES
    ImplementsEscrow
    OperationsReturn
    AmbiguityIsReported
CHECK_DEADLOCK FALSE
