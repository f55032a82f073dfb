CONSTANTS
    DaysPerMonth = 1
    Deals = {d1}
    Reps = {r1}
    Requests = {q1, q2}
    MayDepart = {}
    Source <- MCStripe
    FirstSale <- MCFirstSale
    Recurring <- MCRecurring
    BaseDraw <- MCBaseDraw
    Policies <- MCPolicies
    LastMonth = 1
    LastDay = 0
    MaxEvents = 1
    MaxVersions = 1
    NoRep = NoRep
    NoPolicy = NoPolicy
    Nobody = Nobody
SYMMETRY Symmetric
SPECIFICATION Spec
PROPERTY LockedRunIsImmutable
