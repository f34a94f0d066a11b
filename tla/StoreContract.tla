---------------------------- MODULE StoreContract ----------------------------
(***************************************************************************)
(* What the service and the worker are promised by every backend, for one   *)
(* stick: application.Store and outbox.Store as if each transaction were a  *)
(* single step.  PostgresStore and MongoStore, whose transactions overlap,  *)
(* are shown to implement it.  Claims of notifications, attempts and times  *)
(* are not visible here: a notification is queued and later settled.        *)
(***************************************************************************)
EXTENDS Integers

CONSTANTS Users, NoToken

VARIABLES version,   \* 0 before the stick is created
          held,
          open,   \* number of the stick's open sessions
          subs,   \* generation of each user's subscription, NoToken if none
          rows    \* notification ids to [user, generation, settled]

vars == <<version, held, open, subs, rows>>

Init ==
    /\ version \in {0, 1}
    /\ held = FALSE
    /\ open = 0
    /\ subs = [u \in Users |-> NoToken]
    /\ DOMAIN rows = {}

\* Creating the stick, or renaming, archiving or restoring it.  No version is
\* used twice: whatever changes the stick takes the next one.
Edit ==
    /\ version' = version + 1
    /\ UNCHANGED <<held, open, subs, rows>>

Claim ==
    /\ version > 0 /\ ~held
    /\ held' = TRUE
    /\ version' = version + 1
    /\ open' = open + 1
    /\ UNCHANGED <<subs, rows>>

Subscriptions == {<<u, subs[u]>> : u \in {v \in Users : subs[v] # NoToken}}

Entries(ids) == {<<rows[n].user, rows[n].generation>> : n \in ids}

Settled == {n \in DOMAIN rows : rows[n].settled}

Added == DOMAIN rows' \ DOMAIN rows

\* Queues a notification for every subscription.  One that an earlier
\* notification has just ended may be queued as well: the release then counts
\* as the earlier of the two.
Release ==
    /\ held
    /\ held' = FALSE
    /\ version' = version + 1
    /\ open' = open - 1
    /\ \A n \in DOMAIN rows : n \in DOMAIN rows' /\ rows'[n] = rows[n]
    /\ \A n \in Added :
           /\ ~rows'[n].settled
           /\ <<rows'[n].user, rows'[n].generation>> \in Subscriptions \cup Entries(Settled)
    /\ \A entry \in Subscriptions :
           \E n \in Added : <<rows'[n].user, rows'[n].generation>> = entry
    /\ \A m, n \in Added :
           rows'[m].user = rows'[n].user /\ rows'[m].generation = rows'[n].generation => m = n
    /\ UNCHANGED subs

\* A generation no notification has named and nobody has.
Fresh(g) ==
    /\ g # NoToken
    /\ \A u \in Users : subs[u] # g
    /\ \A n \in DOMAIN rows : rows[n].generation # g

Subscribe(u) ==
    /\ version > 0
    /\ Fresh(subs'[u])
    /\ subs' = [subs EXCEPT ![u] = subs'[u]]
    /\ UNCHANGED <<version, held, open, rows>>

Unsubscribe(u) ==
    /\ subs' = [subs EXCEPT ![u] = NoToken]
    /\ UNCHANGED <<version, held, open, rows>>

\* A recorded delivery ends the generation it notified and no other.
Settle(n) ==
    LET user == rows[n].user IN
    /\ ~rows[n].settled
    /\ rows' = [rows EXCEPT ![n].settled = TRUE]
    /\ subs' = IF subs[user] = rows[n].generation THEN [subs EXCEPT ![user] = NoToken] ELSE subs
    /\ UNCHANGED <<version, held, open>>

Next ==
    \/ Edit
    \/ Claim
    \/ Release
    \/ \E u \in Users : Subscribe(u) \/ Unsubscribe(u)
    \/ \E n \in DOMAIN rows : Settle(n)

Spec == Init /\ [][Next]_vars
=============================================================================
