----------------------------- MODULE Pagination ------------------------------
(***************************************************************************)
(* A reader pages through the history of a stick, newest session first,     *)
(* while more sessions end: parseHistoryPage and historyPageLinks of        *)
(* internal/web/sticks/pagination.go, the offsets of renderStickDetail and  *)
(* the LIMIT/OFFSET query of GetHistory.  Sessions are numbered in the      *)
(* order they end; none is ever removed.                                    *)
(***************************************************************************)
EXTENDS Integers

CONSTANTS maxHistoryPageLinks, pageSize, maxHistoryPage,
          MaxSessions,   \* bound: sessions a run completes
          MaxRawPage     \* bound: page numbers somebody types

\* The code has room for seven links.  With fewer than three, a page in the
\* middle would not link to both its neighbours.
ASSUME PaginationAssumption ==
    /\ maxHistoryPageLinks \in Nat /\ maxHistoryPageLinks >= 3 /\ pageSize \in Nat \ {0}
    /\ maxHistoryPage \in Nat \ {0}
    /\ MaxSessions \in Nat /\ MaxRawPage \in Nat

VARIABLES total,     \* completed sessions
          openPage,  \* number of the page the reader has open
          known,     \* completed sessions when that page was read
          seen,      \* sessions seen since the reader last jumped to a page
          newest     \* the newest session on the page it jumped to

readerVars == <<total, openPage, known, seen, newest>>

\* A number that does not parse is 0 here.
parseHistoryPage(raw) ==
    IF raw < 1 THEN 1 ELSE IF raw > maxHistoryPage THEN maxHistoryPage ELSE raw

\* Mutant: one page too many when the last one is full.
TotalPagesOneMore(n) == n \div pageSize + 1

TotalPages(n) == IF n = 0 THEN 1 ELSE (n + pageSize - 1) \div pageSize

\* Mutant: the offset counts one session too many per page.
ShownSkipping(p, n) ==
    {s \in 1..n : n - s \in ((p - 1) * (pageSize + 1))..((p - 1) * (pageSize + 1) + pageSize - 1)}

\* Sessions on page p of n: n - s of them are newer than s.
Shown(p, n) ==
    {s \in 1..n : n - s \in ((p - 1) * pageSize)..((p - 1) * pageSize + pageSize - 1)}

\* Mutant: the window starts at the current page.
LinksForward(p, pages) ==
    LET current == IF p > pages THEN pages ELSE p
        window == IF pages < maxHistoryPageLinks THEN pages ELSE maxHistoryPageLinks
    IN {q \in current..(current + window - 1) : q <= pages}

historyPageLinks(p, pages) ==
    LET current == IF p > pages THEN pages ELSE p
        window == IF pages < maxHistoryPageLinks THEN pages ELSE maxHistoryPageLinks
        first == IF current - window \div 2 < 1 THEN 1 ELSE current - window \div 2
        last == first + window - 1
    IN IF last > pages
         THEN (IF pages - window + 1 < 1 THEN 1 ELSE pages - window + 1)..pages
         ELSE first..last

\* Links are put on the page only when there is more than one page.
Links(p, n) ==
    IF TotalPages(n) > 1 THEN historyPageLinks(p, TotalPages(n)) ELSE {}

-----------------------------------------------------------------------------

ReaderInit ==
    /\ total = 0
    /\ openPage = 1
    /\ known = 0
    /\ seen = {}
    /\ newest = 0

SessionEnds ==
    /\ total < MaxSessions
    /\ total' = total + 1
    /\ UNCHANGED <<openPage, known, seen, newest>>

Read(p) ==
    /\ openPage' = p
    /\ known' = total
    /\ UNCHANGED total

\* A page starts a reading, or continues one.
Start(p) == seen' = Shown(p, total) /\ newest' = total - (p - 1) * pageSize

Continue(p) == seen' = seen \cup Shown(p, total) /\ UNCHANGED newest

\* Any ?page= may be asked for.
Open(raw) ==
    /\ Read(parseHistoryPage(raw))
    /\ Start(parseHistoryPage(raw))

\* A link of the page; the link to the following page continues a reading.
Follow(link) ==
    /\ link \in Links(openPage, known)
    /\ Read(parseHistoryPage(link))
    /\ IF link = openPage + 1 THEN Continue(parseHistoryPage(link))
                          ELSE Start(parseHistoryPage(link))

-----------------------------------------------------------------------------
(* Properties *)

Lesser(a, b) == IF a < b THEN a ELSE b
Distance(p, q) == IF p < q THEN q - p ELSE p - q

\* Every link leads to a page with sessions on it, also when the page with
\* the link is old, up to the largest page the handler serves.
LinkedPagesHaveSessions ==
    \A link \in Links(openPage, known) : Shown(parseHistoryPage(link), total) # {}

\* Every page that the handler serves can be reached by following links,
\* whatever page is open: some link leads to a page nearer to it.  Pages beyond
\* maxHistoryPage exist, and are linked, but nothing leads there (17-19).
LinksConverge ==
    TotalPages(known) > 1 =>
        \A wanted \in 1..Lesser(TotalPages(known), maxHistoryPage) :
            wanted # openPage =>
                \E link \in Links(openPage, known) :
                    Distance(parseHistoryPage(link), wanted) < Distance(openPage, wanted)

\* Reading page after page misses no session from the first page of the
\* reading down, although sessions that end meanwhile push the others
\* towards later pages.
ReadingHasNoGap ==
    \A a, b \in seen : \A s \in a..b : s <= newest => s \in seen
=============================================================================
