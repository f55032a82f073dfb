CONSTANTS
    DaysPerMonth = 1
    Deals = {d1}
    Reps = {r1}
    Requests = {q1, q2}
    MayDepart = {r1}
    Source <- MCLegacy
    FirstSale <- MCFirstSale
    Recurring <- MCRecurring
    BaseDraw <- MCBaseDraw
    Policies <- MCPolicies
    LastMonth = 2
    LastDay = 1
    MaxEvents = 1
    MaxVersions = 0
    NoRep = NoRep
    NoPolicy = NoPolicy
    Nobody = Nobody
SYMMETRY Symmetric
SPECIFICATION Spec
INVARIANTS
    TypeOK
    SnapshotsMatchLines
    CarriedFromLocked
PROPERTIES
    LockIsForever
    CreateNeverOverwrites
