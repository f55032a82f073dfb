CONSTANTS
    DaysPerMonth = 1
    Deals = {d1}
    Reps = {r1}
    Requests = {q1}
    MayDepart = {}
    Source <- MCStripe
    FirstSale <- MCFirstSale
    Recurring <- MCRecurring
    BaseDraw <- MCBaseDraw
    Policies <- MCPolicies
    LastMonth = 3
    LastDay = 2
    MaxEvents = 3
    MaxVersions = 1
    NoRep = NoRep
    NoPolicy = NoPolicy
    Nobody = Nobody
SYMMETRY Symmetric
SPECIFICATION Spec
INVARIANT ReleasedAtMostHeld
