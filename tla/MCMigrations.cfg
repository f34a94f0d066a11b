\* An old binary, two new ones and three faults.
SPECIFICATION MigrationSpec
CONSTANTS
    NULL = NULL
    old = old
    new1 = new1
    new2 = new2
    Processes = {old, new1, new2}
    Known <- MCKnown
    MaxFaults = 3
INVARIANTS
    HistoryIsTrue
    OpenMeansSupported
PROPERTY
    EveryoneSettles
CHECK_DEADLOCK FALSE
