SPECIFICATION Spec
CONSTANTS
    LastDay = 4
    DaysPerMonth = 2
    Reps = {r1, r2}
    Admins = {a1, a2}
    MaxRows = 3
SYMMETRY MCSymmetry
INVARIANTS
    TypeOK
    NewestAllocationApplies
    OnlyBlindAllocationsOverlap
PROPERTIES
    RatesFollowHistory
