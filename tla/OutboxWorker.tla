---------------------------- MODULE OutboxWorker -----------------------------
(***************************************************************************)
(* Delivery of queued notifications: workers in the processOne loop of      *)
(* internal/outbox/worker.go, over the tables of OutboxStore, while users   *)
(* keep subscribing, unsubscribing and releasing.                           *)
(*                                                                          *)
(* One round of processOne is: read the clock, claim a row, call the        *)
(* notifier under the attempt timeout, record the result under the result   *)
(* timeout.  Each is a step of its own; between any two of them time        *)
(* passes, other workers run, or the process dies.                          *)
(*                                                                          *)
(* Time is a natural number.  A worker process reads it with an error of at *)
(* most MaxSkew.  ClaimNotification has no timeout of its own; ClaimLatency *)
(* is how long one takes from the clock reading to the commit.              *)
(***************************************************************************)
EXTENDS OutboxStore

CONSTANTS Workers,
          AttemptTimeout, ClaimTTL, ResultTimeout,   \* worker.go 17-22
          ClaimLatency, MaxSkew,
          Backoff(_),     \* delay before the next attempt, by attempts made
          MaxClock,       \* bound: largest time a run reaches
          MaxToken,       \* bound: tokens a run hands out
          MaxRows         \* bound: notifications a run queues

ASSUME WorkerAssumption ==
    /\ AttemptTimeout \in Nat /\ ClaimTTL \in Nat /\ ResultTimeout \in Nat
    /\ ClaimLatency \in Nat /\ MaxSkew \in Nat
    /\ MaxClock \in Nat /\ MaxToken \in Nat /\ MaxRows \in Nat

ASSUME BackoffAssumption == \A attempts \in 1..MaxToken : Backoff(attempts) \in Nat

VARIABLES clock,
          worker,     \* what each worker is doing
          notified,   \* rows whose notification reached the recipient
          excused,    \* rows delivered by an attempt that was not recorded
          repeated    \* rows delivered again without such an excuse

workerVars == <<clock, worker, notified, excused, repeated>>
vars == <<outboxVars, workerVars>>

\* Every round fits in the claim's time to live, whatever the clock errors:
\* 30s + 5s + the claim itself against one minute, by default.
Prompt == ClaimLatency + AttemptTimeout + ResultTimeout + 2 * MaxSkew < ClaimTTL

\* now: the clock reading of the round; due: when the current call is cut
\* off; row, token, attempts: the delivery ClaimNotification returned; ok:
\* what the notifier answered.
Worker == [pc : {"idle", "claiming", "notifying", "recording", "down"},
           now : Nat, due : Nat, row : Nat, token : Nat, attempts : Nat, ok : BOOLEAN]

Idle == [pc |-> "idle", now |-> 0, due |-> 0, row |-> 0, token |-> 0, attempts |-> 0,
         ok |-> FALSE]

TypeOK ==
    /\ OutboxTypeOK
    /\ clock \in Nat
    /\ worker \in [Workers -> Worker]
    /\ notified \subseteq DOMAIN outbox
    /\ excused \subseteq DOMAIN outbox
    /\ repeated \subseteq DOMAIN outbox

Init ==
    /\ OutboxInit
    /\ clock = 0
    /\ worker = [w \in Workers |-> Idle]
    /\ notified = {}
    /\ excused = {}
    /\ repeated = {}

\* Workers between a claim and the end of its round.
Delivering == {w \in Workers : worker[w].pc \in {"notifying", "recording"}}

Set(w, state) == worker' = [worker EXCEPT ![w] = state]

\* What a worker process reads as the time.
Reading == {t \in (clock - MaxSkew)..(clock + MaxSkew) : t >= 0}

-----------------------------------------------------------------------------
(* A round of processOne. *)

Poll(w) ==
    /\ worker[w].pc = "idle"
    /\ \E now \in Reading :
           Set(w, [Idle EXCEPT !.pc = "claiming", !.now = now, !.due = clock + ClaimLatency])
    /\ UNCHANGED <<outboxVars, clock, notified, excused, repeated>>

\* Mutant: a claim has no time to live.
StaleAtOnce(now) == now

StaleBefore(now) == now - ClaimTTL

\* The transaction takes the first deliverable row, or finds none.
ClaimRow(w) ==
    LET now == worker[w].now
        n == NextDeliverable(now, StaleBefore(now)) IN
    /\ worker[w].pc = "claiming"
    /\ \/ /\ Deliverable(now, StaleBefore(now)) = {}
          /\ Set(w, Idle)
          /\ UNCHANGED outboxVars
       \/ /\ Deliverable(now, StaleBefore(now)) # {}
          /\ nextToken <= MaxToken
          /\ ClaimNotification(n, now)
          /\ Set(w, [pc |-> "notifying", now |-> now, due |-> clock + AttemptTimeout,
                     row |-> n, token |-> nextToken, attempts |-> outbox[n].attempts + 1,
                     ok |-> FALSE])
    /\ UNCHANGED <<clock, notified, excused, repeated>>

\* The claim returns an error; the commit may have taken effect all the same.
ClaimFails(w) ==
    LET now == worker[w].now IN
    /\ worker[w].pc = "claiming"
    /\ Set(w, Idle)
    /\ \/ UNCHANGED outboxVars
       \/ /\ Deliverable(now, StaleBefore(now)) # {}
          /\ nextToken <= MaxToken
          /\ ClaimNotification(NextDeliverable(now, StaleBefore(now)), now)
    /\ UNCHANGED <<clock, notified, excused, repeated>>

\* The notification reaches its recipient.
Deliver(n) ==
    /\ notified' = notified \cup {n}
    /\ repeated' = IF n \in notified \ excused THEN repeated \cup {n} ELSE repeated

Answer(w, ok) ==
    /\ worker[w].pc = "notifying"
    /\ Set(w, [worker[w] EXCEPT !.pc = "recording", !.due = clock + ResultTimeout, !.ok = ok])

NotifySucceeds(w) ==
    /\ Answer(w, TRUE)
    /\ Deliver(worker[w].row)
    /\ UNCHANGED <<outboxVars, clock, excused>>

\* An error, a timeout or a cancelled shutdown; with several backends, or a
\* lost reply, the recipient may have been reached nevertheless.
NotifyFails(w) ==
    /\ Answer(w, FALSE)
    /\ \/ UNCHANGED <<notified, excused, repeated>>
       \/ /\ Deliver(worker[w].row)
          /\ excused' = excused \cup {worker[w].row}
    /\ UNCHANGED <<outboxVars, clock>>

\* MarkNotificationSucceeded or MarkNotificationFailed; a lost claim changes
\* nothing (ErrClaimLost).
RecordResult(w) ==
    LET d == worker[w] IN
    /\ d.pc = "recording"
    /\ \/ /\ d.ok
          /\ MarkNotificationSucceeded(d.row, d.token)
       \/ /\ ~d.ok
          /\ \E now \in Reading :
                 MarkNotificationFailed(d.row, d.token, now + Backoff(d.attempts))
       \/ /\ ~HoldsClaim(d.row, d.token)
          /\ UNCHANGED outboxVars
    /\ Set(w, Idle)
    /\ UNCHANGED <<clock, notified, excused, repeated>>

\* The work of a round is lost: its delivery, if it made one, goes unrecorded.
Forget(w) ==
    excused' = IF w \in Delivering /\ worker[w].row \in notified
                 THEN excused \cup {worker[w].row}
                 ELSE excused

RecordFails(w) ==
    /\ worker[w].pc = "recording"
    /\ Forget(w)
    /\ Set(w, Idle)
    /\ UNCHANGED <<outboxVars, clock, notified, repeated>>

Crash(w) ==
    /\ worker[w].pc # "down"
    /\ Forget(w)
    /\ Set(w, [Idle EXCEPT !.pc = "down"])
    /\ UNCHANGED <<outboxVars, clock, notified, repeated>>

Restart(w) ==
    /\ worker[w].pc = "down"
    /\ Set(w, Idle)
    /\ UNCHANGED <<outboxVars, clock, notified, excused, repeated>>

-----------------------------------------------------------------------------
(* The service's transactions on the same tables. *)

UserSubscribes(id, user) ==
    /\ nextToken <= MaxToken
    /\ Subscribe(id, user)
    /\ UNCHANGED workerVars

UserUnsubscribes(id, user) ==
    /\ user \in Subscribers(id)
    /\ Unsubscribe(id, user)
    /\ UNCHANGED workerVars

HolderReleases(id) ==
    /\ Len(outbox) + Cardinality(Subscribers(id)) <= MaxRows
    /\ EnqueueReleaseNotifications(id, clock, clock)
    /\ UNCHANGED workerVars

\* Time passes, but never beyond the end of a call that has a deadline.
Tick ==
    /\ clock < MaxClock
    /\ \A w \in Workers :
           worker[w].pc \in {"claiming", "notifying", "recording"} => clock < worker[w].due
    /\ clock' = clock + 1
    /\ UNCHANGED <<outboxVars, worker, notified, excused, repeated>>

WorkerStep(w) ==
    \/ Poll(w)
    \/ ClaimRow(w)
    \/ ClaimFails(w)
    \/ NotifySucceeds(w)
    \/ NotifyFails(w)
    \/ RecordResult(w)
    \/ RecordFails(w)
    \/ Crash(w)
    \/ Restart(w)

Next ==
    \/ Tick
    \/ \E w \in Workers : WorkerStep(w)
    \/ \E id \in StickIDs, user \in Users :
           UserSubscribes(id, user) \/ UserUnsubscribes(id, user)
    \/ \E id \in StickIDs : HolderReleases(id)

Spec == Init /\ [][Next]_vars

-----------------------------------------------------------------------------
(* Properties *)

\* When rounds are prompt, a worker that is delivering a row still holds the
\* claim it took: nobody reclaims a live worker's row, and ErrClaimLost does
\* not occur (worker.go 109, 117, 121; outbox.go 26).
ClaimKept ==
    \A w \in Delivering : HoldsClaim(worker[w].row, worker[w].token)

\* When rounds are prompt, no two workers deliver the same row at once.
OneDelivererPerRow ==
    \A v, w \in Delivering : v # w => worker[v].row # worker[w].row

\* When rounds are prompt, a recipient gets a notification twice only if an
\* attempt that delivered it was never recorded: the worker died, the result
\* could not be written, or the notifier reported a failure.
NoUnexcusedRepeat == repeated = {}

\* A row is marked succeeded only after its notification was delivered, even
\* when claims expire under slow workers.
SucceededMeansNotified ==
    \A n \in DOMAIN outbox : outbox[n].status = "succeeded" => n \in notified

\* A claim has at most one live owner, even when claims expire under slow
\* workers: a token never validates the result of a second worker.
ClaimHasOneOwner ==
    \A v, w \in Delivering :
        /\ v # w
        /\ worker[v].row = worker[w].row
        /\ HoldsClaim(worker[v].row, worker[v].token)
        => ~HoldsClaim(worker[w].row, worker[w].token)

\* Delivery ends a subscription only in the generation that was notified: a
\* worker's step removes a subscription only when it marks a notified row of
\* that very generation, so a renewed subscription outlives the delivery of
\* an older release (outbox.go 76-79).
DeliveryEndsItsGeneration ==
    [][worker' # worker =>
          \A id \in StickIDs, u \in Users :
              subscriptions'[id][u] # subscriptions[id][u] =>
                  /\ subscriptions'[id][u] = NoToken
                  /\ \E n \in notified :
                         /\ outbox[n].generation = subscriptions[id][u]
                         /\ outbox[n].status # "succeeded"
                         /\ outbox'[n].status = "succeeded"]_vars

\* How far the n-th notification is.
Progress(n) ==
    IF n > Len(outbox) THEN "none"
    ELSE IF outbox[n].status = "succeeded" THEN "settled"
    ELSE IF n \in notified THEN "reached" ELSE "queued"

Promise == INSTANCE NotificationDelivery WITH
    Notifications <- 1..MaxRows, progress <- [n \in 1..MaxRows |-> Progress(n)]

\* Whatever expires, crashes or is recorded late, a notification goes from
\* queued to reached to settled, one step at a time and never back.
ImplementsDelivery == Promise!Safety
=============================================================================
