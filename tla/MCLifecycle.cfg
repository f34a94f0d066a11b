\* Two connections; the default providers, with Azure, in another order, and one alone.
CONSTANTS
    h1 = h1
    h2 = h2
    Handlers = {h1, h2}
    Selections <- MCSelections
SPECIFICATION Spec
INVARIANTS
    RunsAsConfigured
    StoreOutlivesItsUsers
    ExitReportsFailures
PROPERTIES
    StopsTogether
CHECK_DEADLOCK FALSE
