----------------------------- MODULE OutboxStore -----------------------------
(***************************************************************************)
(* The notification tables and the statements that touch them, as the       *)
(* SQLite backend writes them.  SQLite runs with one connection             *)
(* (SetMaxOpenConns(1)), so a transaction is one atomic step.               *)
(*                                                                          *)
(* subscriptions[id][u] is the generation token of the row with primary key *)
(* (stick_id, user_sub), NoToken when there is no such row.  outbox is the  *)
(* notification_outbox table in id order (AUTOINCREMENT; no row is ever     *)
(* deleted).  Columns nobody reads back (last_attempt_at, last_error,       *)
(* delivered_at, created_at) and display texts are left out.                *)
(***************************************************************************)
EXTENDS StickTypes, Sequences, Functions

VARIABLES subscriptions, outbox,
          nextToken    \* source of fresh tokens (uuid.NewV7)

outboxVars == <<subscriptions, outbox, nextToken>>

NoToken == 0

Row == [stick       : StickIDs,
        recipient   : Users,
        generation  : Nat \ {NoToken},
        heldSince   : Nat,
        releasedAt  : Nat,
        status      : {"pending", "in_progress", "failed", "succeeded"},
        attempts    : Nat,
        nextAttempt : Nat,
        claimToken  : Nat,
        claimedAt   : Nat]

OutboxTypeOK ==
    /\ subscriptions \in [StickIDs -> [Users -> Nat]]
    /\ outbox \in Seq(Row)
    /\ nextToken \in Nat \ {NoToken}

OutboxInit ==
    /\ subscriptions = [id \in StickIDs |-> [u \in Users |-> NoToken]]
    /\ outbox = <<>>
    /\ nextToken = 1

Subscribers(id) == {u \in Users : subscriptions[id][u] # NoToken}

-----------------------------------------------------------------------------
(* Statements of the service's transactions. *)

\* INSERT ... ON CONFLICT(stick_id, user_sub) DO UPDATE, with a fresh token.
Subscribe(id, user) ==
    /\ subscriptions' = [subscriptions EXCEPT ![id][user] = nextToken]
    /\ nextToken' = nextToken + 1
    /\ UNCHANGED outbox

Unsubscribe(id, user) ==
    /\ subscriptions' = [subscriptions EXCEPT ![id][user] = NoToken]
    /\ UNCHANGED <<outbox, nextToken>>

NewRow(id, user, heldSince, at) ==
    [stick |-> id, recipient |-> user, generation |-> subscriptions[id][user],
     heldSince |-> heldSince, releasedAt |-> at,
     status |-> "pending", attempts |-> 0, nextAttempt |-> at,
     claimToken |-> NoToken, claimedAt |-> 0]

\* Mutant: a row for every user, subscribed or not.
EnqueueForEveryone(id, heldSince, at) ==
    /\ \E order \in Bijection(1..Cardinality(Users), Users) :
           outbox' = outbox \o [i \in DOMAIN order |->
                                    NewRow(id, order[i], heldSince, at)]
    /\ UNCHANGED <<subscriptions, nextToken>>

\* INSERT ... SELECT FROM subscriptions: the order of the new ids is the
\* database's choice.
EnqueueReleaseNotifications(id, heldSince, at) ==
    /\ \E order \in Bijection(1..Cardinality(Subscribers(id)), Subscribers(id)) :
           outbox' = outbox \o [i \in DOMAIN order |->
                                    NewRow(id, order[i], heldSince, at)]
    /\ UNCHANGED <<subscriptions, nextToken>>

-----------------------------------------------------------------------------
(* Statements of the worker. *)

\* Mutant: a row that is being delivered is due like any other.
DeliverableWhileHeld(now, staleBefore) ==
    {n \in DOMAIN outbox :
        outbox[n].status # "succeeded" /\ outbox[n].nextAttempt <= now}

\* Mutant: the null retry time of a succeeded row makes it due.
DeliverableAgain(now, staleBefore) ==
    {n \in DOMAIN outbox :
        \/ outbox[n].status # "in_progress" /\ outbox[n].nextAttempt <= now
        \/ outbox[n].status = "in_progress" /\ outbox[n].claimedAt <= staleBefore}

\* Rows ClaimNotification may take: due ones, and claims older than staleBefore.
Deliverable(now, staleBefore) ==
    {n \in DOMAIN outbox :
        \/ outbox[n].status \in {"pending", "failed"} /\ outbox[n].nextAttempt <= now
        \/ outbox[n].status = "in_progress" /\ outbox[n].claimedAt <= staleBefore}

\* ORDER BY id LIMIT 1.
NextDeliverable(now, staleBefore) ==
    CHOOSE n \in Deliverable(now, staleBefore) :
        \A m \in Deliverable(now, staleBefore) : n <= m

Claimed(row, token, now) ==
    [row EXCEPT !.status = "in_progress", !.attempts = @ + 1,
                !.claimToken = token, !.claimedAt = now]

\* Mutant: every claim of a worker uses the same token.
ClaimReusesToken(n, now) ==
    /\ outbox' = [outbox EXCEPT ![n] = Claimed(outbox[n], nextToken, now)]
    /\ UNCHANGED <<subscriptions, nextToken>>

ClaimNotification(n, now) ==
    /\ outbox' = [outbox EXCEPT ![n] = Claimed(outbox[n], nextToken, now)]
    /\ nextToken' = nextToken + 1
    /\ UNCHANGED subscriptions

\* UPDATE ... WHERE id=? AND status='in_progress' AND claim_token=?, otherwise ErrClaimLost.
HoldsClaim(n, token) ==
    outbox[n].status = "in_progress" /\ outbox[n].claimToken = token

Settled(row, status, nextAttempt) ==
    [row EXCEPT !.status = status, !.nextAttempt = nextAttempt,
                !.claimToken = NoToken, !.claimedAt = 0]

\* Mutant: the subscription is deleted whatever its generation.
MarkSucceededAnyGeneration(n, token) ==
    LET row == outbox[n] IN
    /\ HoldsClaim(n, token)
    /\ outbox' = [outbox EXCEPT ![n] = Settled(row, "succeeded", 0)]
    /\ subscriptions' = [subscriptions EXCEPT ![row.stick][row.recipient] = NoToken]
    /\ UNCHANGED nextToken

MarkNotificationSucceeded(n, token) ==
    LET row == outbox[n] IN
    /\ HoldsClaim(n, token)
    /\ outbox' = [outbox EXCEPT ![n] = Settled(row, "succeeded", 0)]
    /\ subscriptions' =
           IF subscriptions[row.stick][row.recipient] = row.generation
             THEN [subscriptions EXCEPT ![row.stick][row.recipient] = NoToken]
             ELSE subscriptions
    /\ UNCHANGED nextToken

\* Mutant: a failed attempt settles the row.
MarkFailedAsSettled(n, token, nextAttempt) ==
    /\ HoldsClaim(n, token)
    /\ outbox' = [outbox EXCEPT ![n] = Settled(outbox[n], "succeeded", 0)]
    /\ UNCHANGED <<subscriptions, nextToken>>

MarkNotificationFailed(n, token, nextAttempt) ==
    /\ HoldsClaim(n, token)
    /\ outbox' = [outbox EXCEPT ![n] = Settled(outbox[n], "failed", nextAttempt)]
    /\ UNCHANGED <<subscriptions, nextToken>>

=============================================================================
