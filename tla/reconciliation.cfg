SPECIFICATION Spec
CONSTANTS
    a = a
    b = b
    c = c
    t1 = t1
    t2 = t2
    t3 = t3
    alice = alice
    bob = bob
    NoTransaction = NoTransaction
    Intents = {a, c}
    InFlight = {a}
    Unsigned = {c}
    Transactions = {t1, t2}
    Operators = {alice, bob}
    MaxCandidates = 2
    MaxFaults = 1
SYMMETRY OperatorsAlike
INVARIANTS
    TypeOK
    HoldsFollowChain
    HistoryRecomputes
    ReceiptGapStopsAdmission
PROPERTIES
    ResolvedForGood
    ImplementsHeldPayment
CHECK_DEADLOCK FALSE
