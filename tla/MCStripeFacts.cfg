CONSTANTS
    Workers = {w1, w2}
    MaxChanges = 3
    MaxDeliveries = 3
    MaxFailures = 1
    LastTime = 2
    NoFact = NoFact
SPECIFICATION Spec
CHECK_DEADLOCK FALSE
INVARIANTS
    TypeOK
    SnapshotNotBehind
PROPERTIES
    StartNeverMovesLater
    SnapshotConverges
