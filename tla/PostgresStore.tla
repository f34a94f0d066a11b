---------------------------- MODULE PostgresStore ----------------------------
(***************************************************************************)
(* The transactions of the PostgreSQL backend, statement by statement.      *)
(* They run at READ COMMITTED: a statement sees what is committed when it   *)
(* starts, a row stays locked from the statement that locks it to the end   *)
(* of the transaction, and a statement that meets a locked row waits and    *)
(* then looks at the row again.  Writes become visible at the commit.       *)
(*                                                                          *)
(* There is one stick: every service transaction locks its stick's row, so  *)
(* those of different sticks share nothing.  Renaming and archiving are a   *)
(* claim without its session and are left out.  So are times: any           *)
(* unsettled notification may be due, and any claim stale.                  *)
(***************************************************************************)
EXTENDS Integers, Sequences, FiniteSets, Functions

CONSTANTS Users, NULL,
          Requests,    \* connections that run service transactions
          Workers,     \* connections of notification workers
          MaxVersion,  \* bound: version a run reaches
          MaxToken,    \* bound: tokens a run hands out
          MaxRows      \* bound: notifications a run queues

ASSUME PostgresAssumption ==
    /\ Requests \cap Workers = {} /\ NULL \notin Requests \cup Workers \cup Users
    /\ IsFiniteSet(Users)
    /\ MaxVersion \in Nat /\ MaxToken \in Nat /\ MaxRows \in Nat

VARIABLES stick,      \* [version, held] of the stick's row
          open,       \* number of the stick's open sessions
          subs,       \* generation token of each user's row, NoToken if none
          rows,       \* notification_outbox in id order
          nextToken,
          stickLock, subLock, rowLock,   \* owners of the row locks
          tx          \* where each connection's transaction stands

tables == <<stick, open, subs, rows, nextToken>>
locks == <<stickLock, subLock, rowLock>>
vars == <<tables, locks, tx>>

NoToken == 0

Tx == Requests \cup Workers

\* version: what the form said; token: of a subscription or a claim; queued:
\* what the INSERT ... SELECT of a release found; row: of a delivery.
Idle == [pc |-> "idle", op |-> "none", user |-> NULL, version |-> 0,
         token |-> NoToken, queued |-> {}, row |-> 0]

Init ==
    /\ stick = [version |-> 1, held |-> FALSE]
    /\ open = 0
    /\ subs = [u \in Users |-> NoToken]
    /\ rows = <<>>
    /\ nextToken = 1
    /\ stickLock = NULL
    /\ subLock = [u \in Users |-> NULL]
    /\ rowLock = [n \in 1..MaxRows |-> NULL]
    /\ tx = [t \in Tx |-> Idle]

Go(t, pc) == tx' = [tx EXCEPT ![t].pc = pc]

At(t, pc, op) == tx[t].pc = pc /\ tx[t].op = op

\* The end of a transaction frees its locks.
Unlock(t) ==
    /\ stickLock' = IF stickLock = t THEN NULL ELSE stickLock
    /\ subLock' = [u \in Users |-> IF subLock[u] = t THEN NULL ELSE subLock[u]]
    /\ rowLock' = [n \in 1..MaxRows |-> IF rowLock[n] = t THEN NULL ELSE rowLock[n]]

End(t) == tx' = [tx EXCEPT ![t] = Idle] /\ Unlock(t)

\* Mutant: an error path returns without rolling back.
RollbackForgotten(t) ==
    /\ tx' = [tx EXCEPT ![t] = Idle]
    /\ UNCHANGED <<locks, tables>>

\* The deferred tx.Rollback() after an error.
Rollback(t) == End(t) /\ UNCHANGED tables

\* A statement or the commit fails, or the context is cancelled while the
\* statement waits for a lock.
Fail(t) == tx[t].pc # "idle" /\ Rollback(t)

-----------------------------------------------------------------------------
(* Transactions of the service. *)

\* A form with the version of a page read now.  Version and token bounds are
\* here, so that no transaction stops half-way.
Begin(r, op, user) ==
    /\ tx[r].pc = "idle"
    /\ op \in {"claim", "release"} => stick.version < MaxVersion
    /\ op = "subscribe" => nextToken <= MaxToken
    /\ op = "release" => Len(rows) + Cardinality(Users) <= MaxRows
    /\ tx' = [tx EXCEPT ![r] = [Idle EXCEPT !.pc = "begun", !.op = op, !.user = user,
                                            !.version = stick.version,
                                            !.token = IF op = "subscribe" THEN nextToken ELSE NoToken]]
    /\ nextToken' = IF op = "subscribe" THEN nextToken + 1 ELSE nextToken
    /\ UNCHANGED <<stick, open, subs, rows, locks>>

\* The version check, then the check of the domain transition.
Refused(r) ==
    \/ stick.version # tx[r].version
    \/ tx[r].op = "claim" /\ stick.held
    \/ tx[r].op = "release" /\ ~stick.held

\* Mutant: SELECT without FOR UPDATE.
GetStickUnlocked(r) ==
    /\ tx[r].pc = "begun"
    /\ \/ Refused(r) /\ Rollback(r)
       \/ ~Refused(r) /\ Go(r, "read") /\ UNCHANGED <<tables, locks>>

\* SELECT ... FOR UPDATE, and the checks on what it returned.
GetStick(r) ==
    /\ tx[r].pc = "begun"
    /\ stickLock = NULL
    /\ \/ Refused(r) /\ Rollback(r)
       \/ /\ ~Refused(r)
          /\ Go(r, "read")
          /\ stickLock' = r
          /\ UNCHANGED <<tables, subLock, rowLock>>

\* UPDATE sticks ... WHERE id AND version.
SaveStick(r) ==
    /\ At(r, "read", "claim") \/ At(r, "read", "release")
    /\ stickLock \in {NULL, r}
    /\ \/ stick.version # tx[r].version /\ Rollback(r)
       \/ /\ stick.version = tx[r].version
          /\ Go(r, "saved")
          /\ stickLock' = r
          /\ UNCHANGED <<tables, subLock, rowLock>>

\* INSERT INTO sessions under the unique index on open sessions.
CreateSession(r) ==
    /\ At(r, "saved", "claim")
    /\ \/ open # 0 /\ Rollback(r)
       \/ open = 0 /\ Go(r, "ready") /\ UNCHANGED <<tables, locks>>

\* UPDATE sessions, which must close one row.
CloseSession(r) ==
    /\ At(r, "saved", "release")
    /\ \/ open # 1 /\ Rollback(r)
       \/ open = 1 /\ Go(r, "closed") /\ UNCHANGED <<tables, locks>>

\* INSERT ... SELECT: reads the committed subscriptions and locks none.
EnqueueReleaseNotifications(r) ==
    /\ At(r, "closed", "release")
    /\ tx' = [tx EXCEPT ![r].pc = "ready",
                        ![r].queued = {<<u, subs[u]>> : u \in {v \in Users : subs[v] # NoToken}}]
    /\ UNCHANGED <<tables, locks>>

\* INSERT ... ON CONFLICT DO UPDATE: waits for whoever has the user's row.
Subscribe(r) ==
    /\ At(r, "read", "subscribe")
    /\ subLock[tx[r].user] = NULL
    /\ Go(r, "ready")
    /\ subLock' = [subLock EXCEPT ![tx[r].user] = r]
    /\ UNCHANGED <<tables, stickLock, rowLock>>

\* DELETE without a token: nothing to lock when there is no row.
Unsubscribe(r) ==
    /\ At(r, "read", "unsubscribe")
    /\ Go(r, "ready")
    /\ \/ subs[tx[r].user] = NoToken /\ UNCHANGED subLock
       \/ /\ subs[tx[r].user] # NoToken /\ subLock[tx[r].user] = NULL
          /\ subLock' = [subLock EXCEPT ![tx[r].user] = r]
    /\ UNCHANGED <<tables, stickLock, rowLock>>

NewRow(entry) == [user |-> entry[1], generation |-> entry[2], status |-> "pending", token |-> NoToken]

\* tx.Commit() of a service transaction: its writes become visible together.
\* The ids of new notifications are in an order of the database's choice.
Commit(r) ==
    LET t == tx[r] IN
    /\ t.pc = "ready"
    /\ stick' = IF t.op \in {"claim", "release"}
                THEN [version |-> t.version + 1, held |-> t.op = "claim"] ELSE stick
    /\ open' = open + (CASE t.op = "claim" -> 1 [] t.op = "release" -> -1 [] OTHER -> 0)
    /\ subs' = IF t.op \in {"subscribe", "unsubscribe"} THEN [subs EXCEPT ![t.user] = t.token] ELSE subs
    /\ \E order \in Bijection(1..Cardinality(t.queued), t.queued) :
           rows' = rows \o [n \in DOMAIN order |-> NewRow(order[n])]
    /\ End(r)
    /\ UNCHANGED nextToken

-----------------------------------------------------------------------------
(* Transactions of a notification worker. *)

Deliverable(n) == rows[n].status \in {"pending", "failed", "in_progress"}

\* SELECT ... ORDER BY id FOR UPDATE SKIP LOCKED LIMIT 1, then the UPDATE.  An
\* earlier row is passed over when it is locked, retried later or claimed by
\* somebody whose claim is not stale.
ClaimNotification(w) ==
    /\ tx[w].pc = "idle"
    /\ nextToken <= MaxToken
    /\ \E n \in 1..Len(rows) :
         /\ Deliverable(n) /\ rowLock[n] = NULL
         /\ \A k \in 1..n - 1 : rows[k].status = "pending" => rowLock[k] # NULL
         /\ tx' = [tx EXCEPT ![w] = [Idle EXCEPT !.pc = "claiming", !.op = "deliver", !.row = n,
                                                 !.token = nextToken]]
         /\ rowLock' = [rowLock EXCEPT ![n] = w]
    /\ nextToken' = nextToken + 1
    /\ UNCHANGED <<stick, open, subs, rows, stickLock, subLock>>

\* The statement commits by itself.  An answer lost on the way leaves a claim
\* that nobody holds.
CommitClaim(w) ==
    /\ tx[w].pc = "claiming"
    /\ rows' = [rows EXCEPT ![tx[w].row].status = "in_progress", ![tx[w].row].token = tx[w].token]
    /\ \/ Go(w, "sending")
       \/ tx' = [tx EXCEPT ![w] = Idle]
    /\ Unlock(w)
    /\ UNCHANGED <<stick, open, subs, nextToken>>

\* WHERE id AND status = 'in_progress' AND claim_token.
HoldsClaim(w) ==
    rows[tx[w].row].status = "in_progress" /\ rows[tx[w].row].token = tx[w].token

\* UPDATE of the row; waits for the row, and gives up when the claim is lost.
MarkNotificationSucceeded(w) ==
    LET n == tx[w].row IN
    /\ tx[w].pc = "sending"
    /\ rowLock[n] = NULL
    /\ \/ ~HoldsClaim(w) /\ Rollback(w)
       \/ /\ HoldsClaim(w)
          /\ Go(w, "settled")
          /\ rowLock' = [rowLock EXCEPT ![n] = w]
          /\ UNCHANGED <<tables, stickLock, subLock>>

\* DELETE of the generation that was notified: no row of that generation,
\* nothing to wait for.
DeleteSubscription(w) ==
    LET row == rows[tx[w].row] IN
    /\ tx[w].pc = "settled"
    /\ Go(w, "ready")
    /\ \/ subs[row.user] # row.generation /\ UNCHANGED subLock
       \/ /\ subs[row.user] = row.generation /\ subLock[row.user] = NULL
          /\ subLock' = [subLock EXCEPT ![row.user] = w]
    /\ UNCHANGED <<tables, stickLock, rowLock>>

\* The commit of a recorded delivery.
CommitDelivery(w) ==
    LET n == tx[w].row
        user == rows[n].user IN
    /\ tx[w].pc = "ready"
    /\ rows' = [rows EXCEPT ![n].status = "succeeded", ![n].token = NoToken]
    /\ subs' = IF subLock[user] = w THEN [subs EXCEPT ![user] = NoToken] ELSE subs
    /\ End(w)
    /\ UNCHANGED <<stick, open, nextToken>>

\* One statement: waits for the row, and gives up when the claim is lost.
MarkNotificationFailed(w) ==
    /\ tx[w].pc = "sending"
    /\ rowLock[tx[w].row] = NULL
    /\ rows' = IF HoldsClaim(w)
               THEN [rows EXCEPT ![tx[w].row].status = "failed", ![tx[w].row].token = NoToken]
               ELSE rows
    /\ End(w)
    /\ UNCHANGED <<stick, open, subs, nextToken>>

-----------------------------------------------------------------------------

RequestStep(r) ==
    \/ GetStick(r) \/ SaveStick(r) \/ CreateSession(r) \/ CloseSession(r)
    \/ EnqueueReleaseNotifications(r) \/ Subscribe(r) \/ Unsubscribe(r) \/ Commit(r)

WorkerStep(w) ==
    \/ CommitClaim(w) \/ MarkNotificationSucceeded(w) \/ MarkNotificationFailed(w)
    \/ DeleteSubscription(w) \/ CommitDelivery(w)

Next ==
    \/ \E r \in Requests, u \in Users :
         \E op \in {"claim", "release", "subscribe", "unsubscribe"} : Begin(r, op, u)
    \/ \E r \in Requests : RequestStep(r)
    \/ \E w \in Workers : ClaimNotification(w) \/ WorkerStep(w)
    \/ \E t \in Tx : Fail(t)

Spec == Init /\ [][Next]_vars

-----------------------------------------------------------------------------
(* Properties *)

\* Requests and workers wait for each other's rows (a request for the user's
\* row while it has the stick, a worker for the user's row while it has the
\* notification).  As long as any transaction is open, one of them can go on
\* without an error: waits form no cycle, and no lock has been left behind.
NoDeadlock ==
    LET Open == {t \in Tx : tx[t].pc # "idle"} IN
    Open # {} => \/ \E r \in Open \cap Requests : ENABLED RequestStep(r)
                 \/ \E w \in Open \cap Workers : ENABLED WorkerStep(w)

\* The notifications as the contract of a store has them.
QueuedRows == [n \in 1..Len(rows) |-> [user |-> rows[n].user, generation |-> rows[n].generation,
                                      settled |-> rows[n].status = "succeeded"]]

Contract == INSTANCE StoreContract WITH
    version <- stick.version, held <- stick.held, rows <- QueuedRows

\* However the statements of requests and workers interleave, what is
\* committed changes as if each transaction were one step.
ImplementsContract == Contract!Spec
=============================================================================
