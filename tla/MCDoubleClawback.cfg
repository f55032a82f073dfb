CONSTANTS
    DaysPerMonth = 1
    Deals = {d1}
    Reps = {r1}
    Requests = {q1}
    MayDepart = {}
    Source <- MCGhl
    FirstSale <- MCFirstSale
    Recurring <- MCRecurring
    BaseDraw <- MCBaseDraw
    Policies <- MCPolicies
    LastMonth = 2
    LastDay = 1
    MaxEvents = 3
    MaxVersions = 1
    NoRep = NoRep
    NoPolicy = NoPolicy
    Nobody = Nobody
SYMMETRY Symmetric
SPECIFICATION Spec
INVARIANT ClawedBackOnce
