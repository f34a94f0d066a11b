\* Two workers with clock errors, whose rounds just fit in the claim's time to live.
CONSTANTS
    u1 = u1
    u2 = u2
    s1 = s1
    w1 = w1
    w2 = w2
    NULL = NULL
    Users = {u1}
    StickIDs = {s1}
    Workers = {w1, w2}
    ClaimLatency = 1
    AttemptTimeout = 1
    ResultTimeout = 1
    MaxSkew = 1
    ClaimTTL = 6
    Backoff <- MCBackoff
    MCInitialBackoff = 1
    MCMaxBackoff = 2
    MaxDuration = 7
    DefaultInitialBackoff = 1
    DefaultMaxBackoff = 6
    MaxClock = 8
    MaxToken = 4
    MaxRows = 1
SPECIFICATION Spec
SYMMETRY Symmetry
INVARIANTS
    ClaimKept
    OneDelivererPerRow
    NoUnexcusedRepeat
