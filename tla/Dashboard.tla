------------------------------ MODULE Dashboard ------------------------------
(***************************************************************************)
(* A reader moves between the dashboard and the history pages of a stick    *)
(* (module Pagination) while others change the sticks and the reader's own  *)
(* subscriptions change.  Handler.Dashboard of internal/web/dashboard puts  *)
(* the page together from up to three reads, each of the tables of its      *)
(* moment: the active sticks, for administrators the archived ones, and the *)
(* reader's subscriptions if some stick on the page needs them.             *)
(***************************************************************************)
EXTENDS Pagination, FiniteSets

CONSTANT Sticks   \* the sticks on the dashboard

VARIABLES isAdmin,     \* the reader is an administrator
          status,      \* what the sticks table says of each stick
          subscribed,  \* sticks the reader subscribes to
          at,          \* where the reader stands
          active,      \* what ListSticks returned: <<stick, status>>
          archived,    \* what ListArchivedSticks returned
          mine,        \* what SubscribedStickIDs returned
          touched      \* sticks changed, or resubscribed, since the page began

tables == <<status, subscribed>>
board == <<active, archived, mine>>
dashboardVars == <<readerVars, isAdmin, tables, at, board, touched>>

Statuses == {"available", "mine", "other", "archived"}

DashboardInit ==
    /\ ReaderInit
    /\ isAdmin \in BOOLEAN
    /\ status = [s \in Sticks |-> "available"]
    /\ subscribed = {}
    /\ at = "history"
    /\ active = {} /\ archived = {} /\ mine = {}
    /\ touched = {}

-----------------------------------------------------------------------------
(* Other requests, and the worker. *)

\* Only what happens after the first read of a dashboard is recorded.
Touch(s) == touched' = IF at = "history" THEN touched ELSE touched \cup {s}

\* Claim, release, archive and restore, by the reader's other tab or by others.
Transitions ==
    {<<"available", "mine">>, <<"available", "other">>, <<"available", "archived">>,
     <<"mine", "available">>, <<"other", "available">>, <<"archived", "available">>}

Change(s) ==
    /\ \E to \in Statuses : /\ <<status[s], to>> \in Transitions
                            /\ status' = [status EXCEPT ![s] = to]
    /\ Touch(s)
    /\ UNCHANGED <<readerVars, isAdmin, subscribed, at, board>>

\* The reader subscribes in another tab, cancels, or a delivery ends it.
ChangeSubscription(s) ==
    /\ subscribed' = (subscribed \ {s}) \cup ({s} \ subscribed)
    /\ Touch(s)
    /\ UNCHANGED <<readerVars, isAdmin, status, at, board>>

-----------------------------------------------------------------------------
(* Handler.Dashboard *)

Rows(ids) == {<<s, status[s]>> : s \in ids}

\* archived_at IS NULL.
ListSticks == Rows({s \in Sticks : status[s] # "archived"})

\* Mutant: without WHERE archived_at IS NOT NULL.
ListEverything == Rows(Sticks)

ListArchivedSticks == Rows({s \in Sticks : status[s] = "archived"})

SubscribedStickIDs == {s \in subscribed : status[s] # "archived"}

needsSubscriptionViewState(rows) == \E row \in rows : row[2] = "other"

\* The page is loaded anew from the history page or from an old dashboard.
StartDashboard ==
    /\ at \in {"history", "shown"}
    /\ active' = ListSticks
    /\ at' = IF isAdmin THEN "archived" ELSE "subscriptions"
    /\ archived' = {} /\ mine' = {}
    /\ touched' = {}
    /\ openPage' = 1 /\ known' = 0 /\ seen' = {} /\ newest' = 0
    /\ UNCHANGED <<total, isAdmin, tables>>

ReadArchived ==
    /\ at = "archived"
    /\ archived' = ListArchivedSticks
    /\ at' = "subscriptions"
    /\ UNCHANGED <<readerVars, isAdmin, tables, active, mine, touched>>

ReadSubscriptions ==
    /\ at = "subscriptions"
    /\ mine' = IF needsSubscriptionViewState(active) THEN SubscribedStickIDs ELSE {}
    /\ at' = "shown"
    /\ UNCHANGED <<readerVars, isAdmin, tables, active, archived, touched>>

Blank == active' = {} /\ archived' = {} /\ mine' = {} /\ touched' = {}

\* A read fails: an error page, from which the reader goes back.
ReadFails ==
    /\ at \in {"archived", "subscriptions"}
    /\ at' = "history"
    /\ Blank
    /\ UNCHANGED <<readerVars, isAdmin, tables>>

\* The card of a stick leads to the first page of its history.
OpenDetail ==
    /\ at = "shown"
    /\ at' = "history"
    /\ Open(1)
    /\ Blank
    /\ UNCHANGED <<isAdmin, tables>>

\* Paging goes on as in module Pagination.
Paging ==
    /\ at = "history"
    /\ \/ \E raw \in 0..MaxRawPage : Open(raw)
       \/ \E link \in 1..MaxSessions : Follow(link)
    /\ UNCHANGED <<isAdmin, tables, at, board, touched>>

HistoryGrows ==
    /\ SessionEnds
    /\ UNCHANGED <<isAdmin, tables, at, board, touched>>

DashboardNext ==
    \/ HistoryGrows \/ Paging \/ OpenDetail
    \/ StartDashboard \/ ReadArchived \/ ReadSubscriptions \/ ReadFails
    \/ \E s \in Sticks : Change(s) \/ ChangeSubscription(s)

DashboardSpec == DashboardInit /\ [][DashboardNext]_dashboardVars

-----------------------------------------------------------------------------
(* Properties *)

\* stickCard and the archived list: how often a stick is shown, and whether
\* its card says that the reader will be notified.
Cards(s) == {row \in active : row[1] = s}
Restorable(s) == {row \in archived : row[1] = s}
CardSubscribed(s) == <<s, "other">> \in active /\ s \in mine

\* The reads of the dashboard see different moments, so a stick that is
\* archived or restored in between may be listed twice or not at all.  Every
\* stick nobody touched is listed exactly once, as it is, in the list it
\* belongs to (archived ones for administrators only), with the right
\* subscription state, whatever happens to the others (handler.go 35-62).
UntouchedShownRight ==
    at = "shown" =>
        \A s \in Sticks \ touched :
            /\ Cards(s) = Rows({s} \cap {x \in Sticks : status[x] # "archived"})
            /\ Restorable(s) =
                   IF isAdmin THEN Rows({s} \cap {x \in Sticks : status[x] = "archived"}) ELSE {}
            /\ CardSubscribed(s) <=> (status[s] = "other" /\ s \in subscribed)
=============================================================================
