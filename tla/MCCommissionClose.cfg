CONSTANTS
    DaysPerMonth = 1
    Deals = {d1}
    Reps = {r1, r2}
    Requests = {q1}
    MayDepart = {}
    Source <- MCSource
    FirstSale <- MCFirstSale
    Recurring <- MCRecurring
    BaseDraw <- MCBaseDraw
    Policies <- MCPolicies
    LastMonth = 3
    LastDay = 3
    MaxEvents = 3
    MaxVersions = 1
    NoRep = NoRep
    NoPolicy = NoPolicy
    Nobody = Nobody
SPECIFICATION CloseSpec
SYMMETRY MCSymmetry
INVARIANTS
    DrawChain
    ReleasedAtMostHeld
    HeldClearedWhenCurrent
PROPERTIES
    LockedRunIsImmutable
    PaysLikeADrawAccount
