----------------------------- MODULE MongoStore ------------------------------
(***************************************************************************)
(* The transactions of the MongoDB backend, operation by operation.         *)
(*                                                                          *)
(* A transaction reads from the snapshot of its first operation.  Nobody    *)
(* waits: an operation that writes a document which another open            *)
(* transaction has written, or which has changed since the snapshot, fails  *)
(* with a write conflict.  The driver's WithTransaction then aborts, and    *)
(* runs the callback again or gives up; it repeats a commit whose outcome   *)
(* is unknown, and runs the callback again only when the server knows that  *)
(* nothing was committed.  Single updates outside a transaction retry in    *)
(* the server and are one step.                                             *)
(*                                                                          *)
(* There is one stick.  Transactions of different sticks share only the     *)
(* counter documents of nextID, where they conflict: Conflict may happen at *)
(* any operation.  Renaming and archiving are a claim without its session   *)
(* and are left out, as are times: any unsettled notification may be due.   *)
(***************************************************************************)
EXTENDS Integers, Sequences, FiniteSets, Functions

CONSTANTS Users, NULL,
          Requests,    \* requests that run service transactions
          Workers,     \* notification workers
          MaxVersion,  \* bound: version a run reaches
          MaxToken,    \* bound: tokens a run hands out
          MaxRows      \* bound: notifications a run queues

ASSUME MongoAssumption ==
    /\ Requests \cap Workers = {} /\ NULL \notin Requests \cup Workers \cup Users
    /\ IsFiniteSet(Users)

VARIABLES stick,      \* [version, held] of the stick's document
          open,       \* number of the stick's active sessions
          subs,       \* generation token of each user's document, NoToken if none
          rows,       \* notification_outbox in _id order
          nextToken,
          tx          \* where each session's transaction stands

data == <<stick, open, subs, rows>>
vars == <<data, nextToken, tx>>

NoToken == 0

Tx == Requests \cup Workers

\* The documents two transactions can both write; the sessions and the
\* notifications of a release are written only after the stick's document.
StickDoc == <<"stick", NULL>>
SubDoc(u) == <<"subscription", u>>
RowDoc(n) == <<"notification", n>>

\* version: what the form said; token: of a subscription or a claim; row: of a
\* delivery; seen: the subscriptions in the snapshot; written: documents
\* written so far; stale: documents changed by others since the snapshot;
\* queued: notifications a release has inserted; applied: how often the
\* effects of the present request became visible.
Resting(pc) == [pc |-> pc, op |-> "none", user |-> NULL, version |-> 0, token |-> NoToken,
                row |-> 0, seen |-> [u \in Users |-> NoToken], written |-> {}, stale |-> {},
                queued |-> {}, applied |-> 0]

Init ==
    /\ stick = [version |-> 1, held |-> FALSE]
    /\ open = 0
    /\ subs = [u \in Users |-> NoToken]
    /\ rows = <<>>
    /\ nextToken = 1
    /\ tx = [t \in Tx |-> Resting("idle")]

At(t, pc, op) == tx[t].pc = pc /\ tx[t].op = op

Active(t) == tx[t].pc \notin {"idle", "ok", "refused", "error", "begun", "sending", "mark", "applied"}

-----------------------------------------------------------------------------
(* The server and the driver. *)

Conflicts(t, doc) ==
    doc \in tx[t].stale \/ \E o \in Tx \ {t} : Active(o) /\ doc \in tx[o].written

\* The first operation opens the transaction on a snapshot of this moment.
Opened(t, pc, docs) ==
    [tx[t] EXCEPT !.pc = pc, !.seen = subs, !.written = docs, !.stale = {}]

\* A later operation that writes docs.
Write(t, pc, docs) ==
    /\ \A d \in docs : ~Conflicts(t, d)
    /\ tx' = [tx EXCEPT ![t].pc = pc, ![t].written = @ \cup docs]
    /\ UNCHANGED <<data, nextToken>>

\* The answer the caller gets; what was written in the transaction is gone.
Answer(t, answer) ==
    tx' = [tx EXCEPT ![t] = IF t \in Workers THEN Resting("idle")
                            ELSE [Resting(answer) EXCEPT !.op = tx[t].op, !.applied = tx[t].applied]]

Abort(t, answer) == Answer(t, answer) /\ UNCHANGED <<data, nextToken>>

\* The callback starts over, with nothing left of its first run.
RunAgain(t) ==
    tx' = [tx EXCEPT ![t] = [Resting(IF t \in Workers THEN "mark" ELSE "begun") EXCEPT
                                !.op = tx[t].op, !.user = tx[t].user, !.version = tx[t].version,
                                !.token = IF t \in Workers THEN tx[t].token ELSE NoToken,
                                !.row = tx[t].row, !.applied = tx[t].applied]]

\* A write conflict, a transient error or any other failure of an operation.
Conflict(t) ==
    /\ tx[t].pc \in {"begun", "mark"} \/ (Active(t) /\ tx[t].pc # "unsure")
    /\ RunAgain(t) \/ Answer(t, "error")
    /\ UNCHANGED <<data, nextToken>>

\* A commit makes stale what it has written for every other open transaction.
Stale(docs, t) ==
    [o \in Tx |-> IF o # t /\ Active(o) THEN [tx[o] EXCEPT !.stale = @ \cup docs] ELSE tx[o]]

-----------------------------------------------------------------------------
(* Transactions of the service. *)

\* A form with the version of a page read now.
Begin(r, op, user) ==
    /\ tx[r].pc \in {"idle", "ok", "refused", "error"}
    /\ op \in {"claim", "release"} => stick.version < MaxVersion
    /\ op = "release" => Len(rows) + Cardinality(Users) <= MaxRows
    /\ tx' = [tx EXCEPT ![r] = [Resting("begun") EXCEPT !.op = op, !.user = user,
                                                        !.version = stick.version]]
    /\ UNCHANGED <<data, nextToken>>

\* The version check, then the check of the domain transition.
Refused(r) ==
    \/ stick.version # tx[r].version
    \/ tx[r].op = "claim" /\ stick.held
    \/ tx[r].op = "release" /\ ~stick.held

\* Mutant: the stick is found without the update that reserves its document.
GetStickUnreserved(r) ==
    /\ tx[r].pc = "begun"
    /\ \/ Refused(r) /\ Abort(r, "refused")
       \/ ~Refused(r) /\ tx' = [tx EXCEPT ![r] = Opened(r, "read", {})] /\ UNCHANGED <<data, nextToken>>

\* FindOneAndUpdate with an increment of zero: a read that counts as a write.
GetStick(r) ==
    /\ tx[r].pc = "begun"
    /\ ~Conflicts(r, StickDoc)
    /\ \/ Refused(r) /\ Abort(r, "refused")
       \/ /\ ~Refused(r)
          /\ tx' = [tx EXCEPT ![r] = Opened(r, "read", {StickDoc})]
          /\ UNCHANGED <<data, nextToken>>

\* The filter on the version matches: it reads the snapshot GetStick read.
SaveStick(r) ==
    /\ At(r, "read", "claim") \/ At(r, "read", "release")
    /\ Write(r, "saved", {StickDoc})

\* An insert under the unique index on active sessions.
CreateSession(r) ==
    /\ At(r, "saved", "claim")
    /\ \/ open # 0 /\ Abort(r, "error")
       \/ open = 0 /\ Write(r, "ready", {})

\* The update must match one session.
CloseSession(r) ==
    /\ At(r, "saved", "release")
    /\ \/ open # 1 /\ Abort(r, "error")
       \/ open = 1 /\ Write(r, "closed", {})

\* Finds the subscriptions in the snapshot and inserts a document for each.
EnqueueReleaseNotifications(r) ==
    /\ At(r, "closed", "release")
    /\ tx' = [tx EXCEPT ![r].pc = "ready",
                        ![r].queued = {<<u, tx[r].seen[u]>> : u \in {v \in Users : tx[r].seen[v] # NoToken}}]
    /\ UNCHANGED <<data, nextToken>>

\* An upsert, with a token drawn by this run of the callback.
Subscribe(r) ==
    LET user == tx[r].user IN
    /\ At(r, "read", "subscribe")
    /\ nextToken <= MaxToken
    /\ ~Conflicts(r, SubDoc(user))
    /\ tx' = [tx EXCEPT ![r].pc = "ready", ![r].token = nextToken,
                        ![r].written = @ \cup {SubDoc(user)}]
    /\ nextToken' = nextToken + 1
    /\ UNCHANGED data

\* Deletes what the snapshot has.
Unsubscribe(r) ==
    LET user == tx[r].user IN
    /\ At(r, "read", "unsubscribe")
    /\ Write(r, "ready", IF tx[r].seen[user] = NoToken THEN {} ELSE {SubDoc(user)})

-----------------------------------------------------------------------------
(* Operations of a notification worker. *)

Deliverable(n) == rows[n].status \in {"pending", "failed", "in_progress"}

NotBeingMarked(n) == \A o \in Tx : ~(Active(o) /\ RowDoc(n) \in tx[o].written)

\* One FindOneAndUpdate sorted by _id.  An earlier row is passed over when it
\* is retried later or claimed by somebody whose claim is not stale.  The
\* answer may be lost, which leaves a claim that nobody holds.
ClaimNotification(w) ==
    /\ tx[w].pc = "idle"
    /\ nextToken <= MaxToken
    /\ \E n \in 1..Len(rows) :
         /\ Deliverable(n) /\ NotBeingMarked(n)
         /\ \A k \in 1..n - 1 : rows[k].status # "pending"
         /\ rows' = [rows EXCEPT ![n].status = "in_progress", ![n].token = nextToken]
         /\ \/ tx' = [Stale({RowDoc(n)}, w) EXCEPT
                          ![w] = [Resting("sending") EXCEPT !.op = "deliver", !.row = n, !.token = nextToken]]
            \/ tx' = Stale({RowDoc(n)}, w)
    /\ nextToken' = nextToken + 1
    /\ UNCHANGED <<stick, open, subs>>

\* Filter on _id, status and claim_token.
HoldsClaim(w) ==
    rows[tx[w].row].status = "in_progress" /\ rows[tx[w].row].token = tx[w].token

\* The delivery succeeded: its transaction is begun.
BeginMark(w) ==
    /\ tx[w].pc = "sending"
    /\ tx' = [tx EXCEPT ![w].pc = "mark"]
    /\ UNCHANGED <<data, nextToken>>

\* The update of the row, the transaction's first operation.
MarkNotificationSucceeded(w) ==
    LET doc == RowDoc(tx[w].row) IN
    /\ tx[w].pc = "mark"
    /\ \/ ~HoldsClaim(w) /\ Abort(w, "claim lost")
       \/ /\ HoldsClaim(w) /\ ~Conflicts(w, doc)
          /\ tx' = [tx EXCEPT ![w] = Opened(w, "settled", {doc})]
          /\ UNCHANGED <<data, nextToken>>

\* The delete of the generation that was notified, if the snapshot has it.
DeleteSubscription(w) ==
    LET row == rows[tx[w].row] IN
    /\ tx[w].pc = "settled"
    /\ Write(w, "ready", IF tx[w].seen[row.user] = row.generation THEN {SubDoc(row.user)} ELSE {})

\* One UpdateOne, which waits for a transaction that has the row.
MarkNotificationFailed(w) ==
    LET n == tx[w].row IN
    /\ tx[w].pc = "sending"
    /\ NotBeingMarked(n)
    /\ \/ ~HoldsClaim(w) /\ Abort(w, "claim lost")
       \/ /\ HoldsClaim(w)
          /\ rows' = [rows EXCEPT ![n].status = "failed", ![n].token = NoToken]
          /\ tx' = [Stale({RowDoc(n)}, w) EXCEPT ![w] = Resting("idle")]
          /\ UNCHANGED <<stick, open, subs, nextToken>>

-----------------------------------------------------------------------------
(* commitTransaction. *)

NewRow(entry) == [user |-> entry[1], generation |-> entry[2], status |-> "pending", token |-> NoToken]

\* What the transaction has written becomes visible.  The _ids of its
\* notifications are in the order in which the cursor had the subscriptions.
Apply(t) ==
    LET x == tx[t]
        Deleted == {u \in Users : SubDoc(u) \in x.written} IN
    /\ stick' = IF x.op \in {"claim", "release"}
                THEN [version |-> x.version + 1, held |-> x.op = "claim"] ELSE stick
    /\ open' = open + (CASE x.op = "claim" -> 1 [] x.op = "release" -> -1 [] OTHER -> 0)
    /\ subs' = [u \in Users |-> IF u \notin Deleted THEN subs[u]
                                ELSE IF x.op = "subscribe" THEN x.token ELSE NoToken]
    /\ \/ /\ x.op = "deliver"
          /\ rows' = [rows EXCEPT ![x.row].status = "succeeded", ![x.row].token = NoToken]
       \/ /\ x.op # "deliver"
          /\ \E order \in Bijection(1..Cardinality(x.queued), x.queued) :
                 rows' = rows \o [n \in DOMAIN order |-> NewRow(order[n])]
    /\ UNCHANGED nextToken

Applied(t, pc) ==
    LET others == Stale(tx[t].written, t) IN
    [others EXCEPT ![t] = IF pc = "ok" /\ t \in Workers THEN Resting("idle")
                          ELSE [Resting(pc) EXCEPT !.op = tx[t].op, !.user = tx[t].user,
                                    !.version = tx[t].version, !.row = tx[t].row,
                                    !.token = tx[t].token, !.applied = tx[t].applied + 1]]

\* The server commits, and the answer arrives or is lost.
Commit(t) ==
    /\ tx[t].pc = "ready"
    /\ Apply(t)
    /\ \E pc \in {"ok", "applied"} : tx' = Applied(t, pc)

\* The commit is lost on the way.
CommitLost(t) ==
    /\ tx[t].pc = "ready"
    /\ tx' = [tx EXCEPT ![t].pc = "unsure"]
    /\ UNCHANGED <<data, nextToken>>

\* Mutant: an unknown outcome is taken for a failed transaction.
RerunAfterUnknown(t) ==
    /\ tx[t].pc \in {"unsure", "applied"}
    /\ RunAgain(t)
    /\ UNCHANGED <<data, nextToken>>

\* The driver sends the commit again.  The server knows a transaction it has
\* committed, commits one that is still open, or has dropped it: only then
\* the callback runs again.
RetryCommit(t) ==
    \/ tx[t].pc = "applied" /\ Abort(t, "ok")
    \/ tx[t].pc = "unsure" /\ Apply(t) /\ tx' = Applied(t, "ok")
    \/ tx[t].pc = "unsure" /\ RunAgain(t) /\ UNCHANGED <<data, nextToken>>

\* The driver's time is up or the request is cancelled.
GiveUp(t) == tx[t].pc \in {"unsure", "applied"} /\ Abort(t, "error")

-----------------------------------------------------------------------------

RequestStep(r) ==
    \/ GetStick(r) \/ SaveStick(r) \/ CreateSession(r) \/ CloseSession(r)
    \/ EnqueueReleaseNotifications(r) \/ Subscribe(r) \/ Unsubscribe(r)

WorkerStep(w) ==
    \/ ClaimNotification(w) \/ BeginMark(w) \/ MarkNotificationSucceeded(w)
    \/ DeleteSubscription(w) \/ MarkNotificationFailed(w)

DriverStep(t) ==
    \/ Conflict(t) \/ Commit(t) \/ CommitLost(t) \/ RetryCommit(t) \/ GiveUp(t)

Next ==
    \/ \E r \in Requests, u \in Users :
         \E op \in {"claim", "release", "subscribe", "unsubscribe"} : Begin(r, op, u)
    \/ \E r \in Requests : RequestStep(r)
    \/ \E w \in Workers : WorkerStep(w)
    \/ \E t \in Tx : DriverStep(t)

Spec == Init /\ [][Next]_vars

-----------------------------------------------------------------------------
(* Properties *)

QueuedRows == [n \in 1..Len(rows) |-> [user |-> rows[n].user, generation |-> rows[n].generation,
                                      settled |-> rows[n].status = "succeeded"]]

Contract == INSTANCE StoreContract WITH
    version <- stick.version, held <- stick.held, rows <- QueuedRows

\* Snapshots, write conflicts and callbacks that run several times included,
\* what is committed changes as if each transaction were one step: a release
\* misses no subscriber although it reads an old snapshot of the
\* subscriptions (transaction.go:29-31), and a delivery ends its generation.
ImplementsContract == Contract!Spec

\* A request answered with success was applied once, however often its
\* callback ran and its commit was sent; one that was refused was not applied
\* at all.  That every operation goes through the session's context
\* (store.go:40-44) is taken for granted here.
AnswersAreTrue ==
    \A r \in Requests :
        /\ tx[r].applied <= 1
        /\ tx[r].pc = "ok" => tx[r].applied = 1
        /\ tx[r].pc = "refused" => tx[r].applied = 0
=============================================================================
