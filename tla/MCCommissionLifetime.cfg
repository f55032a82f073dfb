CONSTANTS
    DaysPerMonth = 3
    LastMonth = 3
    Windows = {0, 2, 4}
    FirstSale = 5
    Recurring = 2
SPECIFICATION Spec
CHECK_DEADLOCK FALSE
INVARIANTS
    PaidPlusHeldIsWorth
    NothingHeldWhenCurrent
    OnlyUnpostedClawbackCosts
