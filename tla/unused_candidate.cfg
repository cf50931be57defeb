SPECIFICATION Spec
CONSTANTS
    a = a
    b = b
    c = c
    t1 = t1
    t2 = t2
    t3 = t3
    alice = alice
    bob = bob
    NoTransaction = NoTransaction
    Intents = {a}
    InFlight = {}
    Unsigned = {}
    Transactions = {t1}
    Operators = {alice}
    MaxCandidates = 1
    MaxFaults = 1
INVARIANTS
    StartupAccepts
CHECK_DEADLOCK FALSE
