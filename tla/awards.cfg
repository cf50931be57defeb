SPECIFICATION Spec
CONSTANTS
    i1 = i1
    i2 = i2
    i3 = i3
    Invocations = {i1, i2, i3}
    MaxCost = 1
    Fee = 1
    Award = 1
    Allocated = 8
    AwardCap = 2
    MonthOf <- Calendar
    Expiry = 1
    LastTick = 4
    MaxRow = 1
SYMMETRY InvocationsAlike
INVARIANTS
    TypeOK
    AwardCapHolds
    BudgetIsReceipted
    AwardsInArrears
    ReceiptsStayStatable
    AdvancedWithinAward
    ChainConserves
CHECK_DEADLOCK FALSE
