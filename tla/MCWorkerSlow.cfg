\* Two workers whose rounds outlast the claim's time to live, a user who renews.
CONSTANTS
    u1 = u1
    u2 = u2
    s1 = s1
    w1 = w1
    w2 = w2
    NULL = NULL
    Users = {u1}
    StickIDs = {s1}
    Workers = {w1, w2}
    ClaimLatency = 1
    AttemptTimeout = 2
    ResultTimeout = 1
    MaxSkew = 0
    ClaimTTL = 2
    Backoff <- MCBackoff
    MCInitialBackoff = 1
    MCMaxBackoff = 2
    MaxDuration = 7
    DefaultInitialBackoff = 1
    DefaultMaxBackoff = 6
    MaxClock = 3
    MaxToken = 4
    MaxRows = 2
SPECIFICATION Spec
SYMMETRY Symmetry
INVARIANTS
    ClaimHasOneOwner
    BackoffIsCappedDoubling
PROPERTIES
    DeliveryEndsItsGeneration
    ImplementsDelivery
