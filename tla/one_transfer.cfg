SPECIFICATION Spec
CONSTANTS
    a = a
    b = b
    c = c
    t1 = t1
    t2 = t2
    t3 = t3
    alice = alice
    bob = bob
    NoTransaction = NoTransaction
    Intents = {a, b}
    InFlight = {a, b}
    Unsigned = {}
    Transactions = {t1, t2, t3}
    Operators = {alice}
    MaxCandidates = 1
    MaxFaults = 1
SYMMETRY IntentsAlike
INVARIANTS
    OneResolution
    HistoryRecomputes
CHECK_DEADLOCK FALSE
