\* Two sticks; up to six history pages, three links at a time, of which the handler
\* serves the first four.
CONSTANTS
    s1 = s1
    s2 = s2
    Sticks = {s1, s2}
    maxHistoryPageLinks = 3
    pageSize = 2
    maxHistoryPage = 4
    MaxSessions = 11
    MaxRawPage = 8
SPECIFICATION DashboardSpec
INVARIANTS
    LinkedPagesHaveSessions
    LinksConverge
    ReadingHasNoGap
    UntouchedShownRight
