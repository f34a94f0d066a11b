\* Every backend accepts, refuses or hangs, and takes any time for it.
CONSTANTS
    smtp = smtp
    webhook1 = webhook1
    webhook2 = webhook2
    webhook3 = webhook3
    teams = teams
    Notifiers <- MCNotifiers
    OwnLimit <- MCOwnLimit
    AttemptTimeout = 6
    MaxAttempts = 2
SPECIFICATION FanoutSpec
INVARIANTS
    NilMeansEveryBackend
    BoundedStopsNoOther
CHECK_DEADLOCK FALSE
