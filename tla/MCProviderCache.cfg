SPECIFICATION Spec
CONSTANTS
    Callers = {c1, c2}
    Processes = {p1, p2}
    Soft = 1
    Hard = 1
    Lifetime = 2
    MaxFetch = 1
    RevisionTtl = 2
    MaxRevision = 1
INVARIANTS
    TypeOK
    AnswersAreBounded
    FoundSinceInvalidation
PROPERTIES
    EventuallyAnswered
