SPECIFICATION MCSpec
CONSTANTS
    Websites <- MCWebsites
    Switchable = {3}
    Subscriptions <- MCSubscriptions
    NoSubscription = NoSubscription
    SubscriptionOf <- MCSubscriptionOf
    Shared = Shared
    Own = Own
    Workers = {w1, w2}
    MaxRetries = 2
    MaxOperations = 2
    MaxTroubles = 1
INVARIANTS
    TypeOK
    PendingIsQueued
    RemovedIsNotBilled
    UntouchedStaysBilled
PROPERTIES
    RestoreOutlivesItsRemoval
    EventuallySettled
CHECK_DEADLOCK FALSE
