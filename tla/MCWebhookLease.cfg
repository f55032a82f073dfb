CONSTANTS
    Deliveries = {w1, w2, w3}
    Lease = 2
    LastTrouble = 3
    LastTime = 6
SPECIFICATION Spec
CHECK_DEADLOCK FALSE
INVARIANT AcknowledgedWasHandled
INVARIANT OneHandlerPerLease
PROPERTIES
    ProcessedIsFinal
    EventuallyAcknowledged
