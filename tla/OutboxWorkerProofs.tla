------------------------- MODULE OutboxWorkerProofs --------------------------
(***************************************************************************)
(* OutboxWorker, for any number of workers, users, sticks and rows.         *)
(*                                                                          *)
(* Whatever the timing, a succeeded row was delivered and a claim has one   *)
(* owner (BaseInv).  When every round fits in the claim's time to live, a   *)
(* live worker keeps its claim, so no two workers deliver a row at once and *)
(* no delivery is repeated without an excuse (PromptInv).                   *)
(*                                                                          *)
(* Whatever the timing, too, the workers implement NotificationDelivery: a  *)
(* notification goes from queued to reached to settled, and only a settled  *)
(* delivery ends a subscription.                                            *)
(***************************************************************************)
EXTENDS WorkerBackoff, OutboxStoreProofs, RecursionProofs

\* ClaimNotification takes a row that is deliverable.
LEMMA NextIsDeliverable ==
  ASSUME OutboxTypeOK, NEW now, NEW stale, Deliverable(now, stale) # {}
  PROVE  NextDeliverable(now, stale) \in Deliverable(now, stale)
<1>1. Deliverable(now, stale) \subseteq Nat
  BY LenProperties DEF Deliverable, OutboxTypeOK
<1> QED
  BY <1>1, LeastElement DEF NextDeliverable

-----------------------------------------------------------------------------
(* Any timing. *)

\* A claim uses up a token.
AttemptsBounded ==
    /\ nextToken <= MaxToken + 1
    /\ \A n \in DOMAIN outbox : outbox[n].attempts < nextToken

\* A worker between a claim and the end of its round has a row, a token that
\* was handed out, and, if the notifier answered yes, a delivery behind it.
DeliveriesValid ==
    \A w \in Delivering :
        /\ worker[w].row \in DOMAIN outbox
        /\ worker[w].token < nextToken
        /\ worker[w].attempts \in 1..MaxToken
        /\ worker[w].pc = "recording" /\ worker[w].ok => worker[w].row \in notified

\* No two workers have the same token.
TokensDistinct ==
    \A v, w \in Delivering : v # w => worker[v].token # worker[w].token

BaseInv ==
    /\ TypeOK
    /\ AttemptsBounded
    /\ DeliveriesValid
    /\ TokensDistinct
    /\ SucceededMeansNotified

\* What a step leaves behind that BaseInv needs of the tables and counters.
BaseKept ==
    /\ OutboxTypeOK'
    /\ DOMAIN outbox \subseteq DOMAIN outbox'
    /\ nextToken <= nextToken'
    /\ AttemptsBounded'
    /\ SucceededMeansNotified'
    /\ clock' \in Nat
    /\ notified \subseteq notified'
    /\ notified' \subseteq DOMAIN outbox'
    /\ excused' \subseteq DOMAIN outbox'
    /\ repeated' \subseteq DOMAIN outbox'

\* A worker that starts or ends a round disturbs no other worker.
LEMMA BetweenRounds ==
  ASSUME BaseInv, BaseKept, NEW w \in Workers, NEW state \in Worker,
         state.pc \notin {"notifying", "recording"}, Set(w, state)
  PROVE  BaseInv'
<1>1. /\ worker' \in [Workers -> Worker]
      /\ worker'[w] = state
      /\ \A v \in Workers \ {w} : worker'[v] = worker[v]
  BY DEF Set, BaseInv, TypeOK
<1>2. Delivering' \subseteq Delivering /\ \A v \in Delivering' : worker'[v] = worker[v]
  BY <1>1 DEF Delivering
<1>3. TypeOK'
  BY <1>1 DEF BaseKept, TypeOK
<1>4. DeliveriesValid'
  <2>1. \A v \in Delivering : worker[v].token \in Nat
    BY DEF BaseInv, TypeOK, Delivering, Worker
  <2> QED
    BY <1>2, <2>1 DEF DeliveriesValid, BaseInv, BaseKept, TypeOK, OutboxTypeOK
<1>5. TokensDistinct'
  BY <1>2 DEF TokensDistinct, BaseInv
<1> QED
  BY <1>3, <1>4, <1>5 DEF BaseInv, BaseKept

\* A step of the service, or of time, disturbs no worker.
LEMMA NoWorkerMoves ==
  ASSUME BaseInv, BaseKept, UNCHANGED worker
  PROVE  BaseInv'
<1>1. Delivering' = Delivering
  BY DEF Delivering
<1>2. TypeOK'
  BY DEF BaseInv, BaseKept, TypeOK
<1>3. DeliveriesValid'
  <2>1. \A v \in Delivering : worker[v].token \in Nat
    BY DEF BaseInv, TypeOK, Delivering, Worker
  <2> QED
    BY <1>1, <2>1 DEF DeliveriesValid, BaseInv, BaseKept, TypeOK, OutboxTypeOK
<1>4. TokensDistinct'
  BY <1>1 DEF TokensDistinct, BaseInv
<1> QED
  BY <1>2, <1>3, <1>4 DEF BaseInv, BaseKept

\* A claimed row: fresh token, one attempt more.
LEMMA ClaimBase ==
  ASSUME BaseInv, NEW n \in DOMAIN outbox, NEW now \in Nat, nextToken <= MaxToken,
         ClaimNotification(n, now), UNCHANGED <<clock, notified, excused, repeated>>
  PROVE  /\ BaseKept
         /\ nextToken' = nextToken + 1
         /\ outbox[n].attempts + 1 \in 1..MaxToken
<1>1. /\ OutboxTypeOK'
      /\ DOMAIN outbox' = DOMAIN outbox
      /\ outbox'[n] = Claimed(outbox[n], nextToken, now)
      /\ \A m \in DOMAIN outbox : m # n => outbox'[m] = outbox[m]
  BY ClaimType DEF BaseInv, TypeOK
<1>2. \A m \in DOMAIN outbox : outbox[m] \in Row
  BY ElementOfSeq, LenProperties DEF BaseInv, TypeOK, OutboxTypeOK
<1>3. nextToken \in Nat /\ nextToken' = nextToken + 1 /\ nextToken' <= MaxToken + 1
  BY WorkerAssumption DEF ClaimNotification, BaseInv, TypeOK, OutboxTypeOK
<1>4. outbox'[n].attempts = outbox[n].attempts + 1 /\ outbox'[n].status = "in_progress"
  BY <1>1, <1>2 DEF Claimed, Row
<1>5. \A m \in DOMAIN outbox : outbox[m].attempts \in Nat
  BY <1>2 DEF Row
<1>6. AttemptsBounded'
  BY <1>1, <1>3, <1>4, <1>5 DEF AttemptsBounded, BaseInv
<1>7. SucceededMeansNotified'
  BY <1>1, <1>4 DEF SucceededMeansNotified, BaseInv
<1>8. outbox[n].attempts + 1 \in 1..MaxToken
  BY <1>3, <1>5, WorkerAssumption DEF BaseInv, AttemptsBounded
<1> QED
  BY <1>1, <1>3, <1>6, <1>7, <1>8 DEF BaseKept, BaseInv, TypeOK

\* Steps that leave the tables alone.
LEMMA SameTablesBase ==
  ASSUME BaseInv, UNCHANGED outboxVars, clock' \in Nat, notified \subseteq notified',
         notified' \subseteq DOMAIN outbox, excused' \subseteq DOMAIN outbox,
         repeated' \subseteq DOMAIN outbox
  PROVE  BaseKept
<1>1. /\ subscriptions' = subscriptions /\ outbox' = outbox /\ nextToken' = nextToken
      /\ nextToken \in Nat
  BY DEF outboxVars, BaseInv, TypeOK, OutboxTypeOK
<1> QED
  BY <1>1 DEF BaseKept, BaseInv, TypeOK, OutboxTypeOK, AttemptsBounded, SucceededMeansNotified

\* The state a worker takes when it polls.
Claiming(now, due) == [Idle EXCEPT !.pc = "claiming", !.now = now, !.due = due]

\* The states a worker has between rounds.
LEMMA IdleTypes ==
  /\ Idle \in Worker /\ Idle.pc = "idle"
  /\ [Idle EXCEPT !.pc = "down"] \in Worker
  /\ [Idle EXCEPT !.pc = "down"].pc = "down"
<1>1. Idle \in Worker /\ Idle.pc = "idle"
  BY DEF Idle, Worker
<1> QED
  BY <1>1 DEF Worker

\* The state of a worker about to claim.
LEMMA ClaimingType ==
  ASSUME NEW now \in Nat, NEW due \in Nat
  PROVE  /\ Claiming(now, due) \in Worker
         /\ Claiming(now, due).pc = "claiming"
         /\ Claiming(now, due).now = now
         /\ Claiming(now, due).due = due
  BY IdleTypes DEF Claiming, Worker

\* The rest of a round of processOne, from the notifier's answer on.
LEMMA AnswerBase ==
  ASSUME BaseInv, BaseKept, NEW w \in Workers, NEW ok \in BOOLEAN, Answer(w, ok),
         ok => worker[w].row \in notified'
  PROVE  BaseInv'
<1> DEFINE d == [worker[w] EXCEPT !.pc = "recording", !.due = clock + ResultTimeout, !.ok = ok]
<1>1. worker[w] \in Worker /\ w \in Delivering /\ worker' = [worker EXCEPT ![w] = d]
  BY DEF Answer, Set, Delivering, BaseInv, TypeOK
<1>2. clock + ResultTimeout \in Nat
  BY WorkerAssumption DEF BaseInv, TypeOK
<1>3. /\ d \in Worker /\ d.pc = "recording" /\ d.ok = ok /\ d.row = worker[w].row
      /\ d.token = worker[w].token /\ d.attempts = worker[w].attempts
  BY <1>1, <1>2 DEF Worker
<1> HIDE DEF d
<1>4. /\ worker' \in [Workers -> Worker] /\ worker'[w] = d
      /\ \A v \in Workers \ {w} : worker'[v] = worker[v]
  BY <1>1, <1>3 DEF BaseInv, TypeOK
<1>5. Delivering' = Delivering
  BY <1>1, <1>3, <1>4 DEF Delivering
<1>6. TypeOK'
  BY <1>4 DEF BaseKept, TypeOK
<1>7. DeliveriesValid'
  <2>1. \A v \in Delivering : worker[v].token \in Nat
    BY DEF BaseInv, TypeOK, Delivering, Worker
  <2>2. ASSUME NEW v \in Delivering
        PROVE  /\ worker'[v].row \in DOMAIN outbox'
               /\ worker'[v].token < nextToken'
               /\ worker'[v].attempts \in 1..MaxToken
               /\ worker'[v].pc = "recording" /\ worker'[v].ok => worker'[v].row \in notified'
    <3>1. /\ worker'[v].row = worker[v].row /\ worker'[v].token = worker[v].token
          /\ worker'[v].attempts = worker[v].attempts
      BY <1>3, <1>4 DEF Delivering
    <3>2. worker'[v].pc = "recording" /\ worker'[v].ok => worker'[v].row \in notified'
      BY <1>3, <1>4 DEF BaseInv, DeliveriesValid, BaseKept, Delivering
    <3> QED
      BY <2>1, <3>1, <3>2 DEF BaseInv, DeliveriesValid, BaseKept, TypeOK, OutboxTypeOK
  <2> QED
    BY <1>5, <2>2 DEF DeliveriesValid
<1>8. TokensDistinct'
  BY <1>3, <1>4, <1>5 DEF TokensDistinct, BaseInv, Delivering
<1> QED
  BY <1>6, <1>7, <1>8 DEF BaseInv, BaseKept

\* The state a worker takes with its claim.
Delivery(n, now) ==
    [pc |-> "notifying", now |-> now, due |-> clock + AttemptTimeout,
     row |-> n, token |-> nextToken, attempts |-> outbox[n].attempts + 1, ok |-> FALSE]

\* The claim that starts a delivery.
LEMMA ClaimRowBase ==
  ASSUME BaseInv, NEW w \in Workers, NEW n \in DOMAIN outbox, NEW now \in Nat,
         nextToken <= MaxToken, ClaimNotification(n, now), Set(w, Delivery(n, now)),
         UNCHANGED <<clock, notified, excused, repeated>>
  PROVE  /\ BaseInv'
         /\ worker'[w] = Delivery(n, now)
         /\ \A v \in Workers \ {w} : worker'[v] = worker[v]
<1>1. /\ BaseKept /\ nextToken' = nextToken + 1
      /\ outbox[n].attempts + 1 \in 1..MaxToken
  BY ClaimBase
<1>2. nextToken \in Nat /\ clock + AttemptTimeout \in Nat /\ n \in Nat
  BY WorkerAssumption, LenProperties DEF BaseInv, TypeOK, OutboxTypeOK
<1>3. Delivery(n, now) \in Worker
  BY <1>1, <1>2 DEF Delivery, Worker
<1>4. /\ worker' \in [Workers -> Worker] /\ worker'[w] = Delivery(n, now)
      /\ \A v \in Workers \ {w} : worker'[v] = worker[v]
  BY <1>3 DEF Set, BaseInv, TypeOK
<1>5. Delivering' \subseteq Delivering \cup {w}
  BY <1>4 DEF Delivering
<1>6. TypeOK'
  BY <1>1, <1>4 DEF BaseKept, TypeOK
<1>7. \A v \in Delivering : worker[v].token \in Nat /\ worker[v].token < nextToken
  BY DEF BaseInv, TypeOK, Delivering, Worker, DeliveriesValid
<1>8. /\ Delivery(n, now).token = nextToken /\ Delivery(n, now).row = n
      /\ Delivery(n, now).attempts = outbox[n].attempts + 1 /\ Delivery(n, now).pc = "notifying"
  BY DEF Delivery
<1>9. DeliveriesValid'
  <2> SUFFICES ASSUME NEW v \in Delivering'
               PROVE  /\ worker'[v].row \in DOMAIN outbox'
                      /\ worker'[v].token < nextToken'
                      /\ worker'[v].attempts \in 1..MaxToken
                      /\ worker'[v].pc = "recording" /\ worker'[v].ok =>
                             worker'[v].row \in notified'
    BY DEF DeliveriesValid
  <2>1. CASE v = w
    BY <1>1, <1>2, <1>4, <1>8, <2>1 DEF BaseKept
  <2>2. CASE v # w
    <3>1. v \in Delivering /\ worker'[v] = worker[v]
      BY <1>4, <1>5, <2>2 DEF Delivering
    <3> QED
      BY <1>1, <1>2, <1>7, <3>1 DEF BaseInv, DeliveriesValid, BaseKept
  <2> QED
    BY <2>1, <2>2
<1>10. TokensDistinct'
  <2> SUFFICES ASSUME NEW v \in Delivering', NEW u \in Delivering', u # v
               PROVE  worker'[u].token # worker'[v].token
    BY DEF TokensDistinct
  <2>1. \A x \in Delivering' : x # w => x \in Delivering /\ worker'[x] = worker[x]
    BY <1>4, <1>5 DEF Delivering
  <2> QED
    BY <1>2, <1>4, <1>7, <1>8, <2>1 DEF BaseInv, TokensDistinct
<1> QED
  BY <1>1, <1>4, <1>6, <1>9, <1>10 DEF BaseInv, BaseKept

\* Recording a result: only the row of the claim changes, and it becomes
\* succeeded only after a delivery.
LEMMA RecordBase ==
  ASSUME BaseInv, NEW w \in Delivering, NEW at \in Nat,
         \/ /\ worker[w].row \in notified
            /\ MarkNotificationSucceeded(worker[w].row, worker[w].token)
         \/ MarkNotificationFailed(worker[w].row, worker[w].token, at),
         UNCHANGED <<clock, notified, excused, repeated>>
  PROVE  /\ BaseKept
         /\ DOMAIN outbox' = DOMAIN outbox
         /\ \A m \in DOMAIN outbox : m # worker[w].row => outbox'[m] = outbox[m]
         /\ outbox'[worker[w].row].status \in {"succeeded", "failed"}
         /\ MarkNotificationSucceeded(worker[w].row, worker[w].token) =>
                outbox'[worker[w].row].status = "succeeded"
<1> DEFINE n == worker[w].row
<1>1. n \in DOMAIN outbox
  BY DEF BaseInv, DeliveriesValid
<1>2. \A m \in DOMAIN outbox : outbox[m] \in Row
  BY ElementOfSeq, LenProperties DEF BaseInv, TypeOK, OutboxTypeOK
<1> HIDE DEF n
<1>3. \A next \in Nat :
         /\ Settled(outbox[n], "failed", next).attempts = outbox[n].attempts
         /\ Settled(outbox[n], "succeeded", next).attempts = outbox[n].attempts
         /\ Settled(outbox[n], "failed", next).status = "failed"
         /\ Settled(outbox[n], "succeeded", next).status = "succeeded"
  BY <1>1, <1>2 DEF Settled, Row
<1>4. nextToken' = nextToken /\ nextToken \in Nat
  BY DEF MarkNotificationSucceeded, MarkNotificationFailed, BaseInv, TypeOK, OutboxTypeOK
<1>5. CASE n \in notified /\ MarkNotificationSucceeded(n, worker[w].token)
  <2>1. /\ OutboxTypeOK' /\ DOMAIN outbox' = DOMAIN outbox
        /\ outbox'[n] = Settled(outbox[n], "succeeded", 0)
        /\ \A m \in DOMAIN outbox : m # n => outbox'[m] = outbox[m]
    BY <1>1, <1>5, MarkSucceededType DEF BaseInv, TypeOK
  <2>2. AttemptsBounded' /\ SucceededMeansNotified'
    BY <1>3, <1>4, <1>5, <2>1 DEF BaseInv, AttemptsBounded, SucceededMeansNotified
  <2> QED
    BY <1>3, <1>4, <2>1, <2>2 DEF BaseKept, BaseInv, TypeOK, n
<1>6. CASE MarkNotificationFailed(n, worker[w].token, at)
  <2>1. /\ OutboxTypeOK' /\ DOMAIN outbox' = DOMAIN outbox
        /\ outbox'[n] = Settled(outbox[n], "failed", at)
        /\ \A m \in DOMAIN outbox : m # n => outbox'[m] = outbox[m]
    BY <1>1, <1>6, MarkFailedType DEF BaseInv, TypeOK
  <2>2. AttemptsBounded' /\ SucceededMeansNotified'
    BY <1>3, <1>4, <2>1 DEF BaseInv, AttemptsBounded, SucceededMeansNotified
  <2>3. outbox'[n].status = "failed"
    BY <1>3, <2>1
  <2>4. ~MarkNotificationSucceeded(n, worker[w].token)
    <3> SUFFICES ASSUME MarkNotificationSucceeded(n, worker[w].token) PROVE FALSE
      OBVIOUS
    <3>1. outbox'[n] = Settled(outbox[n], "succeeded", 0)
      BY <1>1, MarkSucceededType DEF BaseInv, TypeOK
    <3> QED
      BY <1>3, <2>3, <3>1
  <2> QED
    BY <1>4, <2>1, <2>2, <2>3, <2>4 DEF BaseKept, BaseInv, TypeOK, n
<1> QED
  BY <1>5, <1>6 DEF n

\* Queueing adds rows nobody has claimed.
LEMMA EnqueueBase ==
  ASSUME BaseInv, NEW id \in StickIDs, HolderReleases(id)
  PROVE  /\ BaseKept
         /\ \A n \in DOMAIN outbox : n \in DOMAIN outbox' /\ outbox'[n] = outbox[n]
<1>1. /\ OutboxTypeOK'
      /\ Len(outbox') >= Len(outbox)
      /\ \A n \in 1..Len(outbox) : outbox'[n] = outbox[n]
      /\ \A n \in (Len(outbox) + 1)..Len(outbox') :
            \E u \in Subscribers(id) : outbox'[n] = NewRow(id, u, clock, clock)
  BY EnqueueAppends DEF HolderReleases, BaseInv, TypeOK
<1>2. /\ DOMAIN outbox = 1..Len(outbox) /\ Len(outbox) \in Nat
      /\ DOMAIN outbox' = 1..Len(outbox') /\ Len(outbox') \in Nat
  BY <1>1, LenProperties DEF BaseInv, TypeOK, OutboxTypeOK
<1>3. /\ nextToken' = nextToken /\ nextToken \in Nat /\ nextToken > 0
      /\ clock' = clock /\ notified' = notified /\ excused' = excused /\ repeated' = repeated
  BY DEF HolderReleases, EnqueueReleaseNotifications, workerVars, BaseInv, TypeOK, OutboxTypeOK,
         NoToken
<1>4. \A n \in DOMAIN outbox' : n \notin DOMAIN outbox =>
         outbox'[n].attempts = 0 /\ outbox'[n].status = "pending"
  <2>1. \A u : /\ NewRow(id, u, clock, clock).attempts = 0
               /\ NewRow(id, u, clock, clock).status = "pending"
    BY DEF NewRow
  <2> QED
    BY <1>1, <1>2, <2>1
<1>5. AttemptsBounded' /\ SucceededMeansNotified'
  BY <1>1, <1>2, <1>3, <1>4 DEF BaseInv, AttemptsBounded, SucceededMeansNotified
<1> QED
  BY <1>1, <1>2, <1>3, <1>5 DEF BaseKept, BaseInv, TypeOK

\* Subscribing and unsubscribing touch no row.
LEMMA SubscriptionBase ==
  ASSUME BaseInv, NEW id \in StickIDs, NEW user \in Users,
         UserSubscribes(id, user) \/ UserUnsubscribes(id, user)
  PROVE  BaseKept /\ outbox' = outbox
<1>1. OutboxTypeOK'
  BY SubscribeType, UnsubscribeType DEF UserSubscribes, UserUnsubscribes, BaseInv, TypeOK
<1>2. /\ outbox' = outbox /\ nextToken' \in {nextToken, nextToken + 1} /\ nextToken \in Nat
      /\ nextToken' <= MaxToken + 1
      /\ clock' = clock /\ notified' = notified /\ excused' = excused /\ repeated' = repeated
  BY WorkerAssumption DEF UserSubscribes, UserUnsubscribes, Subscribe, Unsubscribe, workerVars,
         BaseInv, AttemptsBounded, TypeOK, OutboxTypeOK
<1>3. \A m \in DOMAIN outbox : outbox[m].attempts \in Nat
  <2>1. \A m \in DOMAIN outbox : outbox[m] \in Row
    BY ElementOfSeq, LenProperties DEF BaseInv, TypeOK, OutboxTypeOK
  <2> QED
    BY <2>1 DEF Row
<1>4. AttemptsBounded' /\ SucceededMeansNotified'
  BY <1>2, <1>3 DEF BaseInv, AttemptsBounded, SucceededMeansNotified
<1> QED
  BY <1>1, <1>2, <1>4 DEF BaseKept, BaseInv, TypeOK

\* Every step of a worker keeps BaseInv.
LEMMA WorkerStepBase ==
  ASSUME BaseInv, NEW w \in Workers, WorkerStep(w)
  PROVE  BaseInv'
<1> DEFINE d == worker[w]
           dl == Deliverable(d.now, StaleBefore(d.now))
           next == NextDeliverable(d.now, StaleBefore(d.now))
<1>1. d \in Worker /\ d.now \in Nat
  BY DEF BaseInv, TypeOK, Worker
<1>2. dl # {} => next \in DOMAIN outbox
  BY NextIsDeliverable DEF BaseInv, TypeOK, Deliverable
<1>3. ASSUME UNCHANGED outboxVars, UNCHANGED <<clock, notified, excused, repeated>>
      PROVE  BaseKept
  BY <1>3, SameTablesBase DEF BaseInv, TypeOK
<1>4. CASE Poll(w)
  <2>1. PICK now \in Reading : Set(w, Claiming(now, clock + ClaimLatency))
    BY <1>4 DEF Poll, Claiming
  <2>2. now \in Nat /\ clock + ClaimLatency \in Nat
    BY <2>1, WorkerAssumption DEF Reading, BaseInv, TypeOK
  <2> QED
    BY <1>3, <1>4, <2>1, <2>2, ClaimingType, BetweenRounds DEF Poll
<1>5. CASE ClaimRow(w)
  <2>1. CASE dl = {}
    BY <1>3, <1>5, <2>1, IdleTypes, BetweenRounds DEF ClaimRow
  <2>2. CASE dl # {}
    BY <1>1, <1>2, <1>5, <2>2, ClaimRowBase DEF ClaimRow, Delivery
  <2> QED
    BY <2>1, <2>2
<1>6. CASE ClaimFails(w)
  <2>1. CASE UNCHANGED outboxVars
    BY <1>3, <1>6, <2>1, IdleTypes, BetweenRounds DEF ClaimFails
  <2>2. CASE dl # {} /\ nextToken <= MaxToken /\ ClaimNotification(next, d.now)
    BY <1>1, <1>2, <1>6, <2>2, ClaimBase, IdleTypes, BetweenRounds DEF ClaimFails
  <2> QED
    BY <1>6, <2>1, <2>2 DEF ClaimFails
<1>7. CASE NotifySucceeds(w) \/ NotifyFails(w)
  <2>1. w \in Delivering /\ d.row \in DOMAIN outbox
    BY <1>7 DEF NotifySucceeds, NotifyFails, Answer, Delivering, BaseInv, DeliveriesValid
  <2>2. BaseKept
    BY <1>7, <2>1, SameTablesBase DEF NotifySucceeds, NotifyFails, Deliver, BaseInv, TypeOK
  <2> QED
    BY <1>7, <2>2, AnswerBase DEF NotifySucceeds, NotifyFails, Deliver
<1>8. CASE RecordResult(w)
  <2>1. w \in Delivering /\ (d.ok => d.row \in notified) /\ d.attempts \in 1..MaxToken
    BY <1>8 DEF RecordResult, Delivering, BaseInv, DeliveriesValid
  <2>2. \A now \in Reading : now + Backoff(d.attempts) \in Nat
    BY <2>1, BackoffAssumption DEF Reading, BaseInv, TypeOK
  <2>3. BaseKept
    BY <1>3, <1>8, <2>1, <2>2, RecordBase DEF RecordResult
  <2> QED
    BY <1>8, <2>3, IdleTypes, BetweenRounds DEF RecordResult
<1>9. CASE RecordFails(w)
  <2>1. BaseKept
    BY <1>9, SameTablesBase DEF RecordFails, Forget, BaseInv, TypeOK
  <2> QED
    BY <1>9, <2>1, IdleTypes, BetweenRounds DEF RecordFails
<1>10. CASE Crash(w)
  <2>1. BaseKept
    BY <1>10, SameTablesBase DEF Crash, Forget, BaseInv, TypeOK
  <2> QED
    BY <1>10, <2>1, IdleTypes, BetweenRounds DEF Crash
<1>11. CASE Restart(w)
  BY <1>3, <1>11, IdleTypes, BetweenRounds DEF Restart
<1> QED
  BY <1>4, <1>5, <1>6, <1>7, <1>8, <1>9, <1>10, <1>11 DEF WorkerStep

\* BaseInv holds in every reachable state, whatever the timing.
THEOREM BaseInvariant == Spec => []BaseInv
<1>1. Init => BaseInv
  <2> SUFFICES ASSUME Init PROVE BaseInv
    OBVIOUS
  <2>1. OutboxTypeOK
    BY OutboxInitType DEF Init
  <2>2. DOMAIN outbox = {} /\ nextToken = 1
    BY DEF Init, OutboxInit
  <2>3. Delivering = {}
    BY IdleTypes DEF Init, Delivering
  <2>4. TypeOK
    BY <2>1, IdleTypes DEF Init, TypeOK
  <2>5. AttemptsBounded /\ SucceededMeansNotified
    BY <2>2, WorkerAssumption DEF AttemptsBounded, SucceededMeansNotified
  <2> QED
    BY <2>3, <2>4, <2>5 DEF BaseInv, DeliveriesValid, TokensDistinct
<1>2. BaseInv /\ [Next]_vars => BaseInv'
  <2> SUFFICES ASSUME BaseInv, [Next]_vars PROVE BaseInv'
    OBVIOUS
  <2>1. CASE Tick \/ UNCHANGED vars
    <3>1. /\ UNCHANGED outboxVars /\ UNCHANGED worker /\ clock' \in Nat
          /\ notified' = notified /\ excused' = excused /\ repeated' = repeated
      BY <2>1 DEF Tick, vars, workerVars, BaseInv, TypeOK
    <3> QED
      BY <3>1, SameTablesBase, NoWorkerMoves DEF BaseInv, TypeOK
  <2>2. ASSUME NEW w \in Workers, WorkerStep(w) PROVE BaseInv'
    BY <2>2, WorkerStepBase
  <2>3. ASSUME NEW id \in StickIDs, NEW user \in Users,
               UserSubscribes(id, user) \/ UserUnsubscribes(id, user)
        PROVE  BaseInv'
    BY <2>3, SubscriptionBase, NoWorkerMoves DEF UserSubscribes, UserUnsubscribes, workerVars
  <2>4. ASSUME NEW id \in StickIDs, HolderReleases(id) PROVE BaseInv'
    BY <2>4, EnqueueBase, NoWorkerMoves DEF HolderReleases, workerVars
  <2> QED
    BY <2>1, <2>2, <2>3, <2>4 DEF Next
<1> QED
  BY <1>1, <1>2, PTL DEF Spec

\* The tables and the workers' states keep their types.
THEOREM WorkerTypeCorrect == Spec => []TypeOK
<1>1. BaseInv => TypeOK
  BY DEF BaseInv
<1> QED
  BY <1>1, BaseInvariant, PTL

\* A row is marked succeeded only after its notification was delivered.
THEOREM SucceededMeansNotifiedHolds == Spec => []SucceededMeansNotified
<1>1. BaseInv => SucceededMeansNotified
  BY DEF BaseInv
<1> QED
  BY <1>1, BaseInvariant, PTL

\* Of several workers on one row, only one can still record its result.
THEOREM ClaimHasOneOwnerHolds == Spec => []ClaimHasOneOwner
<1>1. BaseInv => ClaimHasOneOwner
  BY DEF BaseInv, TokensDistinct, ClaimHasOneOwner, HoldsClaim
<1> QED
  BY <1>1, BaseInvariant, PTL

-----------------------------------------------------------------------------
(* Rounds that fit in the claim's time to live. *)

\* How far a call can be from the clock reading of its round.
Timely ==
    \A w \in Workers :
        LET d == worker[w]
            claimed == d.now + MaxSkew + ClaimLatency
        IN
        /\ d.pc = "claiming" =>
               /\ clock <= d.due /\ d.due <= claimed
               /\ d.now <= clock + MaxSkew
        /\ d.pc = "notifying" => clock <= d.due /\ d.due <= claimed + AttemptTimeout
        /\ d.pc = "recording" =>
               clock <= d.due /\ d.due <= claimed + AttemptTimeout + ResultTimeout

\* A delivering worker holds its claim, made at the time it read.
ClaimsHeld ==
    \A w \in Delivering :
        /\ HoldsClaim(worker[w].row, worker[w].token)
        /\ outbox[worker[w].row].claimedAt = worker[w].now

\* A delivery without an excuse is recorded, or about to be.
Accounted ==
    \A n \in notified \ excused :
        \/ outbox[n].status = "succeeded"
        \/ \E w \in Delivering : worker[w].ok /\ worker[w].row = n /\ worker[w].pc = "recording"

PromptInv ==
    /\ Timely
    /\ ClaimsHeld
    /\ OneDelivererPerRow
    /\ Accounted
    /\ NoUnexcusedRepeat

\* The row a worker takes is nobody else's: when rounds are prompt, no live
\* worker's claim is stale for any other worker.
LEMMA TakesFreeRow ==
  ASSUME Prompt, BaseInv, PromptInv, NEW w \in Workers, worker[w].pc = "claiming",
         NEW n \in Deliverable(worker[w].now, StaleBefore(worker[w].now))
  PROVE  /\ \A v \in Delivering : worker[v].row # n
         /\ outbox[n].status # "succeeded"
<1>1. outbox[n].status # "succeeded"
  BY DEF Deliverable
<1>2. ASSUME NEW v \in Delivering, worker[v].row = n PROVE FALSE
  <2>1. outbox[n].status = "in_progress" /\ outbox[n].claimedAt = worker[v].now
    BY <1>2 DEF PromptInv, ClaimsHeld, HoldsClaim
  <2>2. worker[v].now <= worker[w].now - ClaimTTL
    BY <2>1 DEF Deliverable, StaleBefore
  <2>3. /\ worker[v].now \in Nat /\ worker[w].now \in Nat /\ clock \in Nat
        /\ worker[v].due \in Nat
    BY DEF BaseInv, TypeOK, Worker, Delivering
  <2>4. worker[w].now <= clock + MaxSkew
    BY DEF PromptInv, Timely
  <2>5. clock <= worker[v].now + MaxSkew + ClaimLatency + AttemptTimeout + ResultTimeout
    <3>1. v \in Workers /\ worker[v].pc \in {"notifying", "recording"}
      BY DEF Delivering
    <3>2. /\ clock <= worker[v].due
          /\ \/ worker[v].due <= worker[v].now + MaxSkew + ClaimLatency + AttemptTimeout
             \/ worker[v].due <= worker[v].now + MaxSkew + ClaimLatency + AttemptTimeout
                                 + ResultTimeout
      BY <3>1 DEF PromptInv, Timely
    <3> QED
      BY <2>3, <3>2, WorkerAssumption
  <2> QED
    BY <2>2, <2>3, <2>4, <2>5, WorkerAssumption DEF Prompt
<1> QED
  BY <1>1, <1>2

\* Steps of the service and of the stuttering kind.
LEMMA TablesGrowPrompt ==
  ASSUME BaseInv, PromptInv, UNCHANGED <<clock, worker, notified, excused, repeated>>,
         \A n \in DOMAIN outbox : n \in DOMAIN outbox' /\ outbox'[n] = outbox[n]
  PROVE  PromptInv'
<1>1. Delivering' = Delivering
  BY DEF Delivering
<1>2. Timely' /\ OneDelivererPerRow' /\ NoUnexcusedRepeat'
  BY <1>1 DEF PromptInv, Timely, OneDelivererPerRow, NoUnexcusedRepeat
<1>3. ClaimsHeld'
  BY <1>1 DEF PromptInv, ClaimsHeld, HoldsClaim, BaseInv, DeliveriesValid
<1>4. Accounted'
  BY <1>1 DEF PromptInv, Accounted, BaseInv, TypeOK
<1> QED
  BY <1>2, <1>3, <1>4 DEF PromptInv

\* A worker ends a round, or begins one, without touching a row that another
\* worker delivers.
LEMMA BetweenRoundsPrompt ==
  ASSUME BaseInv, BaseInv', PromptInv, NEW w \in Workers, NEW state \in Worker, Set(w, state),
         state.pc \notin {"notifying", "recording"},
         state.pc = "claiming" =>
             /\ clock <= state.due /\ state.due <= state.now + MaxSkew + ClaimLatency
             /\ state.now <= clock + MaxSkew,
         UNCHANGED <<clock, notified, repeated>>, excused \subseteq excused',
         DOMAIN outbox' = DOMAIN outbox,
         \A v \in Delivering \ {w} : outbox'[worker[v].row] = outbox[worker[v].row],
         \A n \in DOMAIN outbox : outbox[n].status = "succeeded" =>
             outbox'[n].status = "succeeded",
         w \in Delivering /\ worker[w].pc = "recording" /\ worker[w].ok =>
             \/ worker[w].row \in excused'
             \/ outbox'[worker[w].row].status = "succeeded"
  PROVE  PromptInv'
<1>1. /\ worker'[w] = state
      /\ \A v \in Workers \ {w} : worker'[v] = worker[v]
  BY DEF Set, BaseInv, TypeOK
<1>2. Delivering' = Delivering \ {w}
  BY <1>1 DEF Delivering
<1>3. \A v \in Delivering' : worker'[v] = worker[v]
  BY <1>1, <1>2 DEF Delivering
<1>4. Timely'
  BY <1>1 DEF PromptInv, Timely
<1>5. ClaimsHeld'
  BY <1>2, <1>3 DEF PromptInv, ClaimsHeld, HoldsClaim
<1>6. OneDelivererPerRow'
  BY <1>2, <1>3 DEF PromptInv, OneDelivererPerRow
<1>7. Accounted'
  <2> SUFFICES ASSUME NEW n \in notified \ excused', outbox'[n].status # "succeeded"
               PROVE  \E v \in Delivering' : /\ worker'[v].ok /\ worker'[v].row = n
                                             /\ worker'[v].pc = "recording"
    BY DEF Accounted
  <2>1. n \in notified \ excused /\ outbox[n].status # "succeeded"
    BY DEF BaseInv, TypeOK
  <2>2. PICK v \in Delivering : worker[v].ok /\ worker[v].row = n /\ worker[v].pc = "recording"
    BY <2>1 DEF PromptInv, Accounted
  <2>3. v # w
    BY <2>2
  <2> QED
    BY <1>2, <1>3, <2>2, <2>3
<1>8. NoUnexcusedRepeat'
  BY DEF PromptInv, NoUnexcusedRepeat
<1> QED
  BY <1>4, <1>5, <1>6, <1>7, <1>8 DEF PromptInv

\* A claimed row is one no live worker delivers.
LEMMA ClaimPrompt ==
  ASSUME Prompt, BaseInv, PromptInv, NEW w \in Workers, worker[w].pc = "claiming",
         Deliverable(worker[w].now, StaleBefore(worker[w].now)) # {},
         NEW n, n = NextDeliverable(worker[w].now, StaleBefore(worker[w].now)),
         ClaimNotification(n, worker[w].now)
  PROVE  /\ n \in DOMAIN outbox
         /\ \A v \in Delivering : worker[v].row # n
         /\ outbox[n].status # "succeeded"
         /\ DOMAIN outbox' = DOMAIN outbox
         /\ \A m \in DOMAIN outbox : m # n => outbox'[m] = outbox[m]
         /\ outbox'[n].status = "in_progress"
         /\ outbox'[n].claimToken = nextToken
         /\ outbox'[n].claimedAt = worker[w].now
<1>1. n \in Deliverable(worker[w].now, StaleBefore(worker[w].now))
  BY NextIsDeliverable DEF BaseInv, TypeOK
<1>2. n \in DOMAIN outbox /\ worker[w].now \in Nat
  BY <1>1 DEF Deliverable, BaseInv, TypeOK, Worker
<1>3. outbox[n] \in Row
  BY <1>2, ElementOfSeq, LenProperties DEF BaseInv, TypeOK, OutboxTypeOK
<1>4. /\ DOMAIN outbox' = DOMAIN outbox
      /\ outbox'[n] = Claimed(outbox[n], nextToken, worker[w].now)
      /\ \A m \in DOMAIN outbox : m # n => outbox'[m] = outbox[m]
  BY <1>2, ClaimType DEF BaseInv, TypeOK
<1>5. /\ outbox'[n].status = "in_progress"
      /\ outbox'[n].claimToken = nextToken
      /\ outbox'[n].claimedAt = worker[w].now
  BY <1>3, <1>4 DEF Claimed, Row
<1> QED
  BY <1>1, <1>2, <1>4, <1>5, TakesFreeRow

\* A worker starts to deliver the row it claimed.
LEMMA ClaimRowPrompt ==
  ASSUME Prompt, BaseInv, BaseInv', PromptInv, NEW w \in Workers, worker[w].pc = "claiming",
         Deliverable(worker[w].now, StaleBefore(worker[w].now)) # {},
         NEW n, n = NextDeliverable(worker[w].now, StaleBefore(worker[w].now)),
         ClaimNotification(n, worker[w].now), Set(w, Delivery(n, worker[w].now)),
         UNCHANGED <<clock, notified, excused, repeated>>
  PROVE  PromptInv'
<1> DEFINE d == Delivery(n, worker[w].now)
<1>1. /\ \A v \in Delivering : worker[v].row # n
      /\ outbox[n].status # "succeeded"
      /\ DOMAIN outbox' = DOMAIN outbox
      /\ \A m \in DOMAIN outbox : m # n => outbox'[m] = outbox[m]
      /\ outbox'[n].status = "in_progress"
      /\ outbox'[n].claimToken = nextToken
      /\ outbox'[n].claimedAt = worker[w].now
  BY ClaimPrompt
<1>2. /\ d.pc = "notifying" /\ d.now = worker[w].now /\ d.due = clock + AttemptTimeout
      /\ d.row = n /\ d.token = nextToken
  BY DEF Delivery
<1> HIDE DEF d
<1>3. worker'[w] = d /\ \A v \in Workers \ {w} : worker'[v] = worker[v]
  BY DEF Set, BaseInv, TypeOK, d
<1>4. /\ Delivering' = Delivering \cup {w} /\ w \notin Delivering
      /\ \A v \in Delivering : worker'[v] = worker[v]
  BY <1>2, <1>3 DEF Delivering
<1>5. \A v \in Delivering : outbox'[worker[v].row] = outbox[worker[v].row]
  BY <1>1 DEF BaseInv, DeliveriesValid
<1>6. Timely'
  <2>1. /\ clock \in Nat /\ worker[w].now \in Nat /\ worker[w].due \in Nat
        /\ clock <= worker[w].due /\ worker[w].due <= worker[w].now + MaxSkew + ClaimLatency
    BY DEF PromptInv, Timely, BaseInv, TypeOK, Worker
  <2>2. /\ clock <= clock + AttemptTimeout
        /\ clock + AttemptTimeout <= worker[w].now + MaxSkew + ClaimLatency + AttemptTimeout
    BY <2>1, WorkerAssumption
  <2> QED
    BY <1>2, <1>3, <2>2 DEF PromptInv, Timely
<1>7. ClaimsHeld'
  BY <1>1, <1>2, <1>3, <1>4, <1>5 DEF PromptInv, ClaimsHeld, HoldsClaim
<1>8. OneDelivererPerRow'
  BY <1>1, <1>2, <1>3, <1>4 DEF PromptInv, OneDelivererPerRow
<1>9. Accounted'
  BY <1>1, <1>4 DEF PromptInv, Accounted, BaseInv, TypeOK
<1>10. NoUnexcusedRepeat'
  BY DEF PromptInv, NoUnexcusedRepeat
<1> QED
  BY <1>6, <1>7, <1>8, <1>9, <1>10 DEF PromptInv

\* The notifier's answer: a delivery without an excuse is the first of its row.
LEMMA AnswerPrompt ==
  ASSUME BaseInv, PromptInv, NEW w \in Workers, NotifySucceeds(w) \/ NotifyFails(w)
  PROVE  PromptInv'
<1> DEFINE n == worker[w].row
<1>1. PICK yes \in BOOLEAN :
         /\ Answer(w, yes)
         /\ UNCHANGED outboxVars /\ clock' = clock
         /\ \/ Deliver(n) /\ excused' = (IF yes THEN excused ELSE excused \cup {n})
            \/ ~yes /\ UNCHANGED <<notified, excused, repeated>>
  <2>1. CASE NotifySucceeds(w)
    BY <2>1 DEF NotifySucceeds
  <2>2. CASE NotifyFails(w)
    BY <2>2 DEF NotifyFails
  <2> QED
    BY <2>1, <2>2
<1> DEFINE d == [worker[w] EXCEPT !.pc = "recording", !.due = clock + ResultTimeout, !.ok = yes]
<1>2. worker[w] \in Worker /\ worker[w].pc = "notifying" /\ w \in Delivering
  BY <1>1 DEF Answer, Delivering, BaseInv, TypeOK
<1>3. /\ d.pc = "recording" /\ d.now = worker[w].now /\ d.due = clock + ResultTimeout
      /\ d.row = n /\ d.token = worker[w].token /\ d.ok = yes
  BY <1>2 DEF Worker
<1> HIDE DEF d
<1>4. worker'[w] = d /\ \A v \in Workers \ {w} : worker'[v] = worker[v]
  BY <1>1 DEF Answer, Set, BaseInv, TypeOK, d
<1>5. /\ Delivering' = Delivering
      /\ \A v \in Delivering : /\ worker'[v].row = worker[v].row
                                /\ worker'[v].token = worker[v].token
                                /\ worker'[v].now = worker[v].now
  BY <1>2, <1>3, <1>4 DEF Delivering
<1>6. outbox' = outbox
  BY <1>1 DEF outboxVars
<1>7. Timely'
  <2>1. /\ clock \in Nat /\ worker[w].now \in Nat /\ worker[w].due \in Nat
        /\ clock <= worker[w].due
        /\ worker[w].due <= worker[w].now + MaxSkew + ClaimLatency + AttemptTimeout
    BY <1>2 DEF PromptInv, Timely, BaseInv, TypeOK, Worker
  <2>2. /\ clock <= clock + ResultTimeout
        /\ clock + ResultTimeout <=
              worker[w].now + MaxSkew + ClaimLatency + AttemptTimeout + ResultTimeout
    BY <2>1, WorkerAssumption
  <2> QED
    BY <1>1, <1>3, <1>4, <2>2 DEF PromptInv, Timely
<1>8. ClaimsHeld'
  BY <1>5, <1>6 DEF PromptInv, ClaimsHeld, HoldsClaim
<1>9. OneDelivererPerRow'
  BY <1>5 DEF PromptInv, OneDelivererPerRow
<1>10. n \notin notified \ excused
  <2> SUFFICES ASSUME n \in notified \ excused PROVE FALSE
    OBVIOUS
  <2>1. outbox[n].status = "in_progress"
    BY <1>2 DEF PromptInv, ClaimsHeld, HoldsClaim
  <2>2. PICK v \in Delivering : worker[v].row = n /\ worker[v].pc = "recording"
    BY <2>1 DEF PromptInv, Accounted
  <2> QED
    BY <1>2, <2>2 DEF PromptInv, OneDelivererPerRow
<1>11. NoUnexcusedRepeat'
  BY <1>1, <1>10 DEF Deliver, PromptInv, NoUnexcusedRepeat
<1>12. Accounted'
  <2> SUFFICES ASSUME NEW m \in notified' \ excused', outbox[m].status # "succeeded"
               PROVE  \E v \in Delivering : /\ worker'[v].ok /\ worker'[v].row = m
                                            /\ worker'[v].pc = "recording"
    BY <1>5, <1>6 DEF Accounted
  <2>1. CASE m \in notified \ excused
    <3>1. PICK v \in Delivering : worker[v].ok /\ worker[v].row = m /\ worker[v].pc = "recording"
      BY <2>1 DEF PromptInv, Accounted
    <3>2. v # w /\ v \in Workers
      BY <1>2, <3>1 DEF Delivering
    <3> QED
      BY <1>4, <3>1, <3>2
  <2>2. CASE m \notin notified \ excused
    <3>1. m = n /\ yes
      BY <1>1, <2>2 DEF Deliver
    <3> QED
      BY <1>2, <1>3, <1>4, <3>1
  <2> QED
    BY <2>1, <2>2
<1> QED
  BY <1>7, <1>8, <1>9, <1>11, <1>12 DEF PromptInv

\* Time stays within the deadlines of the calls under way.
LEMMA TickPrompt ==
  ASSUME BaseInv, PromptInv, Tick
  PROVE  PromptInv'
<1>1. /\ outbox' = outbox /\ worker' = worker /\ notified' = notified /\ excused' = excused
      /\ repeated' = repeated /\ clock' = clock + 1 /\ clock \in Nat
  BY DEF Tick, outboxVars, BaseInv, TypeOK
<1>2. Delivering' = Delivering
  BY <1>1 DEF Delivering
<1>3. Timely'
  <2>1. \A w \in Workers :
           /\ worker[w].due \in Nat /\ worker[w].now \in Nat
           /\ worker[w].pc \in {"claiming", "notifying", "recording"} =>
                 clock + 1 <= worker[w].due
    BY <1>1 DEF Tick, BaseInv, TypeOK, Worker
  <2>2. ASSUME NEW w \in Workers, worker[w].now <= clock + MaxSkew
        PROVE  worker[w].now <= clock' + MaxSkew
    <3>1. worker[w].now \in Nat /\ clock \in Nat /\ MaxSkew \in Nat /\ clock' = clock + 1
      BY <1>1, <2>1, WorkerAssumption
    <3> QED
      BY <2>2, <3>1
  <2> SUFFICES ASSUME NEW w \in Workers
               PROVE  LET d == worker[w]
                          claimed == d.now + MaxSkew + ClaimLatency
                      IN
                      /\ d.pc = "claiming" =>
                             clock' <= d.due /\ d.due <= claimed /\ d.now <= clock' + MaxSkew
                      /\ d.pc = "notifying" => clock' <= d.due /\ d.due <= claimed + AttemptTimeout
                      /\ d.pc = "recording" =>
                             clock' <= d.due /\ d.due <= claimed + AttemptTimeout + ResultTimeout
    BY <1>1 DEF Timely
  <2> QED
    BY <1>1, <2>1, <2>2 DEF PromptInv, Timely
<1>4. ClaimsHeld' /\ OneDelivererPerRow' /\ Accounted' /\ NoUnexcusedRepeat'
  BY <1>1, <1>2 DEF PromptInv, ClaimsHeld, HoldsClaim, OneDelivererPerRow, Accounted,
                    NoUnexcusedRepeat
<1> QED
  BY <1>3, <1>4 DEF PromptInv

\* Every step of a worker keeps PromptInv when rounds are prompt.
LEMMA WorkerStepPrompt ==
  ASSUME Prompt, BaseInv, BaseInv', PromptInv, NEW w \in Workers, WorkerStep(w)
  PROVE  PromptInv'
<1> DEFINE d == worker[w]
           dl == Deliverable(d.now, StaleBefore(d.now))
           next == NextDeliverable(d.now, StaleBefore(d.now))
<1>1. ASSUME NEW state \in Worker, state.pc \in {"idle", "down"}, Set(w, state),
             UNCHANGED outbox, UNCHANGED <<clock, notified, repeated>>, excused \subseteq excused',
             w \in Delivering /\ d.pc = "recording" /\ d.ok => d.row \in excused'
      PROVE  PromptInv'
  BY <1>1, BetweenRoundsPrompt
<1>2. UNCHANGED outboxVars => UNCHANGED outbox
  BY DEF outboxVars
<1>3. CASE Poll(w)
  <2>1. PICK now \in Reading : Set(w, Claiming(now, clock + ClaimLatency))
    BY <1>3 DEF Poll, Claiming
  <2> DEFINE state == Claiming(now, clock + ClaimLatency)
  <2>2. /\ now \in Nat /\ clock \in Nat /\ clock + ClaimLatency \in Nat
        /\ now <= clock + MaxSkew /\ clock - MaxSkew <= now
    BY <2>1, WorkerAssumption DEF Reading, BaseInv, TypeOK
  <2>3. /\ state \in Worker /\ state.pc = "claiming" /\ state.now = now
        /\ state.due = clock + ClaimLatency
    BY <2>2, ClaimingType
  <2> HIDE DEF state
  <2>4. /\ clock <= state.due /\ state.due <= state.now + MaxSkew + ClaimLatency
        /\ state.now <= clock + MaxSkew
    BY <2>2, <2>3, WorkerAssumption
  <2>5. Set(w, state) /\ w \notin Delivering
    BY <1>3, <2>1 DEF state, Poll, Delivering
  <2>6. UNCHANGED outbox /\ UNCHANGED <<clock, notified, excused, repeated>>
    BY <1>2, <1>3 DEF Poll
  <2> QED
    BY <2>3, <2>4, <2>5, <2>6, BetweenRoundsPrompt
<1>4. CASE ClaimRow(w)
  <2>1. CASE dl = {}
    <3>1. w \notin Delivering
      BY <1>4 DEF ClaimRow, Delivering
    <3> QED
      BY <1>1, <1>2, <1>4, <2>1, <3>1, IdleTypes DEF ClaimRow
  <2>2. CASE dl # {}
    BY <1>4, <2>2, ClaimRowPrompt DEF ClaimRow, Delivery
  <2> QED
    BY <2>1, <2>2
<1>5. CASE ClaimFails(w)
  <2>1. w \notin Delivering /\ d.pc = "claiming"
    BY <1>5 DEF ClaimFails, Delivering
  <2>2. CASE UNCHANGED outboxVars
    BY <1>1, <1>2, <1>5, <2>1, <2>2, IdleTypes DEF ClaimFails
  <2>3. CASE dl # {} /\ ClaimNotification(next, d.now)
    <3>1. /\ \A v \in Delivering : worker[v].row # next
          /\ outbox[next].status # "succeeded"
          /\ DOMAIN outbox' = DOMAIN outbox
          /\ \A m \in DOMAIN outbox : m # next => outbox'[m] = outbox[m]
      BY <2>1, <2>3, ClaimPrompt
    <3>2. /\ \A v \in Delivering : outbox'[worker[v].row] = outbox[worker[v].row]
          /\ \A n \in DOMAIN outbox : outbox[n].status = "succeeded" =>
                 outbox'[n].status = "succeeded"
      BY <3>1 DEF BaseInv, DeliveriesValid
    <3> QED
      BY <1>5, <2>1, <3>1, <3>2, IdleTypes, BetweenRoundsPrompt DEF ClaimFails
  <2> QED
    BY <1>5, <2>2, <2>3 DEF ClaimFails
<1>6. CASE NotifySucceeds(w) \/ NotifyFails(w)
  BY <1>6, AnswerPrompt
<1>7. CASE RecordResult(w)
  <2>1. /\ w \in Delivering /\ d.pc = "recording" /\ (d.ok => d.row \in notified)
        /\ d.attempts \in 1..MaxToken /\ d.row \in DOMAIN outbox
    BY <1>7 DEF RecordResult, Delivering, BaseInv, DeliveriesValid
  <2>2. HoldsClaim(d.row, d.token)
    BY <2>1 DEF PromptInv, ClaimsHeld
  <2>3. \A now \in Reading : now + Backoff(d.attempts) \in Nat
    BY <2>1, BackoffAssumption DEF Reading, BaseInv, TypeOK
  <2>4. /\ DOMAIN outbox' = DOMAIN outbox
        /\ \A m \in DOMAIN outbox : m # d.row => outbox'[m] = outbox[m]
        /\ d.ok => outbox'[d.row].status = "succeeded"
    BY <1>7, <2>1, <2>2, <2>3, RecordBase DEF RecordResult
  <2>5. outbox[d.row].status = "in_progress"
    BY <2>2 DEF HoldsClaim
  <2>6. \A n \in DOMAIN outbox : outbox[n].status = "succeeded" => outbox'[n].status = "succeeded"
    BY <2>4, <2>5
  <2>7. \A v \in Delivering \ {w} : outbox'[worker[v].row] = outbox[worker[v].row]
    BY <2>1, <2>4 DEF PromptInv, OneDelivererPerRow, BaseInv, DeliveriesValid
  <2>8. Set(w, Idle) /\ UNCHANGED <<clock, notified, excused, repeated>>
    BY <1>7 DEF RecordResult
  <2> QED
    BY <2>4, <2>6, <2>7, <2>8, IdleTypes, BetweenRoundsPrompt
<1>8. CASE RecordFails(w)
  <2>1. w \in Delivering /\ (d.pc = "recording" /\ d.ok => d.row \in notified)
    BY <1>8 DEF RecordFails, Delivering, BaseInv, DeliveriesValid
  <2> QED
    BY <1>1, <1>2, <1>8, <2>1, IdleTypes DEF RecordFails, Forget
<1>9. CASE Crash(w)
  <2>1. w \in Delivering => (d.pc = "recording" /\ d.ok => d.row \in notified)
    BY DEF BaseInv, DeliveriesValid
  <2> QED
    BY <1>1, <1>2, <1>9, <2>1, IdleTypes DEF Crash, Forget
<1>10. CASE Restart(w)
  <2>1. w \notin Delivering
    BY <1>10 DEF Restart, Delivering
  <2> QED
    BY <1>1, <1>2, <1>10, <2>1, IdleTypes DEF Restart
<1> QED
  BY <1>3, <1>4, <1>5, <1>6, <1>7, <1>8, <1>9, <1>10 DEF WorkerStep

\* When every round fits in the claim's time to live, PromptInv holds in every
\* reachable state.
THEOREM PromptInvariant ==
  ASSUME Prompt
  PROVE  Spec => []PromptInv
<1>1. Init => PromptInv
  <2> SUFFICES ASSUME Init PROVE PromptInv
    OBVIOUS
  <2>1. Delivering = {} /\ \A w \in Workers : worker[w].pc = "idle"
    BY IdleTypes DEF Init, Delivering
  <2> QED
    BY <2>1 DEF Init, PromptInv, Timely, ClaimsHeld, OneDelivererPerRow, Accounted,
                NoUnexcusedRepeat
<1>2. BaseInv /\ BaseInv' /\ PromptInv /\ [Next]_vars => PromptInv'
  <2> SUFFICES ASSUME BaseInv, BaseInv', PromptInv, [Next]_vars PROVE PromptInv'
    OBVIOUS
  <2>1. CASE Tick
    BY <2>1, TickPrompt
  <2>2. ASSUME NEW w \in Workers, WorkerStep(w) PROVE PromptInv'
    BY <2>2, WorkerStepPrompt
  <2>3. ASSUME NEW id \in StickIDs, NEW user \in Users,
               UserSubscribes(id, user) \/ UserUnsubscribes(id, user)
        PROVE  PromptInv'
    BY <2>3, SubscriptionBase, TablesGrowPrompt DEF UserSubscribes, UserUnsubscribes, workerVars
  <2>4. ASSUME NEW id \in StickIDs, HolderReleases(id) PROVE PromptInv'
    BY <2>4, EnqueueBase, TablesGrowPrompt DEF HolderReleases, workerVars
  <2>5. CASE UNCHANGED vars
    BY <2>5, TablesGrowPrompt DEF vars, workerVars, outboxVars
  <2> QED
    BY <2>1, <2>2, <2>3, <2>4, <2>5 DEF Next
<1> QED
  BY <1>1, <1>2, BaseInvariant, PTL DEF Spec

\* Prompt workers keep their claims: nobody takes over a live worker's row.
THEOREM ClaimKeptHolds ==
  ASSUME Prompt
  PROVE  Spec => []ClaimKept
<1>1. PromptInv => ClaimKept
  BY DEF PromptInv, ClaimsHeld, ClaimKept
<1> QED
  BY <1>1, PromptInvariant, PTL

\* Prompt workers never deliver one row together.
THEOREM OneDelivererPerRowHolds ==
  ASSUME Prompt
  PROVE  Spec => []OneDelivererPerRow
<1>1. PromptInv => OneDelivererPerRow
  BY DEF PromptInv
<1> QED
  BY <1>1, PromptInvariant, PTL

\* With prompt workers a second delivery always has an excuse: an attempt
\* whose delivery was never recorded.
THEOREM NoUnexcusedRepeatHolds ==
  ASSUME Prompt
  PROVE  Spec => []NoUnexcusedRepeat
<1>1. PromptInv => NoUnexcusedRepeat
  BY DEF PromptInv
<1> QED
  BY <1>1, PromptInvariant, PTL

-----------------------------------------------------------------------------
(* The workers implement the promise of the outbox. *)

\* The refinement mapping: how far every notification is.
Mapped == [n \in 1..MaxRows |-> Progress(n)]

\* A step that settles, queues and delivers nothing is a stutter.
LEMMA NoProgress ==
  ASSUME BaseInv, DOMAIN outbox' = DOMAIN outbox, Len(outbox') = Len(outbox),
         \A n \in DOMAIN outbox :
             outbox'[n].status = "succeeded" <=> outbox[n].status = "succeeded",
         notified' = notified
  PROVE  Mapped' = Mapped
<1>1. DOMAIN outbox = 1..Len(outbox) /\ Len(outbox) \in Nat
  BY LenProperties DEF BaseInv, TypeOK, OutboxTypeOK
<1>2. \A n \in 1..MaxRows : Progress(n)' = Progress(n)
  BY <1>1, WorkerAssumption DEF Progress
<1> QED
  BY <1>2 DEF Mapped

\* The tables are untouched: only a notification may have reached its recipient.
LEMMA Reaching ==
  ASSUME BaseInv, outbox' = outbox, NEW k \in DOMAIN outbox, notified' = notified \cup {k}
  PROVE  Mapped' = Mapped \/ \E n \in 1..MaxRows : Promise!Reach(n)
<1>1. DOMAIN outbox = 1..Len(outbox) /\ Len(outbox) \in Nat /\ MaxRows \in Nat
  BY LenProperties, WorkerAssumption DEF BaseInv, TypeOK, OutboxTypeOK
<1>2. \A n \in 1..MaxRows : n # k => Progress(n)' = Progress(n)
  BY <1>1 DEF Progress
<1>3. CASE k \in 1..MaxRows /\ Progress(k) = "queued"
  <2>1. Progress(k)' = "reached"
    BY <1>1, <1>3 DEF Progress
  <2>2. Mapped' = [Mapped EXCEPT ![k] = "reached"]
    BY <1>2, <2>1 DEF Mapped
  <2>3. Promise!Reach(k)
    BY <1>3, <2>2 DEF Promise!Reach, Promise!Advance, Mapped
  <2> QED
    BY <1>3, <2>3
<1>4. CASE ~(k \in 1..MaxRows /\ Progress(k) = "queued")
  <2>1. k \in 1..MaxRows => Progress(k)' = Progress(k)
    BY <1>1, <1>4 DEF Progress
  <2>2. Mapped' = Mapped
    BY <1>2, <2>1 DEF Mapped
  <2> QED
    BY <2>2
<1> QED
  BY <1>3, <1>4

\* A notified row is settled.
LEMMA Settling ==
  ASSUME BaseInv, NEW k \in notified, NEW token, MarkNotificationSucceeded(k, token),
         notified' = notified
  PROVE  Mapped' = Mapped \/ \E n \in 1..MaxRows : Promise!Settle(n)
<1>1. DOMAIN outbox = 1..Len(outbox) /\ Len(outbox) \in Nat /\ MaxRows \in Nat
  BY LenProperties, WorkerAssumption DEF BaseInv, TypeOK, OutboxTypeOK
<1>2. k \in DOMAIN outbox /\ outbox[k] \in Row
  BY ElementOfSeq, <1>1 DEF BaseInv, TypeOK, OutboxTypeOK
<1>3. /\ OutboxTypeOK' /\ DOMAIN outbox' = DOMAIN outbox
      /\ outbox'[k] = Settled(outbox[k], "succeeded", 0)
      /\ \A m \in DOMAIN outbox : m # k => outbox'[m] = outbox[m]
  BY <1>2, MarkSucceededType DEF BaseInv, TypeOK
<1>4. Len(outbox') = Len(outbox)
  BY <1>1, <1>3, LenProperties DEF OutboxTypeOK
<1>5. outbox[k].status = "in_progress" /\ outbox'[k].status = "succeeded"
  BY <1>2, <1>3 DEF MarkNotificationSucceeded, HoldsClaim, Settled, Row
<1>6. \A n \in 1..MaxRows : n # k => Progress(n)' = Progress(n)
  BY <1>1, <1>3, <1>4 DEF Progress
<1>7. Progress(k) = "reached" /\ Progress(k)' = "settled"
  BY <1>1, <1>2, <1>4, <1>5 DEF Progress
<1>8. CASE k \in 1..MaxRows
  <2>1. Mapped' = [Mapped EXCEPT ![k] = "settled"]
    BY <1>6, <1>7 DEF Mapped
  <2>2. Promise!Settle(k)
    BY <1>7, <1>8, <2>1 DEF Promise!Settle, Promise!Advance, Mapped
  <2> QED
    BY <1>8, <2>2
<1>9. CASE k \notin 1..MaxRows
  BY <1>6, <1>9 DEF Mapped
<1> QED
  BY <1>8, <1>9

\* A release queues notifications that were not there before.
LEMMA Queueing ==
  ASSUME BaseInv, NEW id \in StickIDs, HolderReleases(id)
  PROVE  Promise!Queue
<1>1. /\ OutboxTypeOK'
      /\ Len(outbox') >= Len(outbox)
      /\ \A n \in 1..Len(outbox) : outbox'[n] = outbox[n]
      /\ \A n \in (Len(outbox) + 1)..Len(outbox') :
            \E u \in Subscribers(id) : outbox'[n] = NewRow(id, u, clock, clock)
  BY EnqueueAppends DEF HolderReleases, BaseInv, TypeOK
<1>2. /\ DOMAIN outbox = 1..Len(outbox) /\ Len(outbox) \in Nat /\ Len(outbox') \in Nat
      /\ MaxRows \in Nat
  BY <1>1, LenProperties, WorkerAssumption DEF BaseInv, TypeOK, OutboxTypeOK
<1>3. notified' = notified /\ notified \subseteq 1..Len(outbox)
  BY <1>2 DEF HolderReleases, workerVars, BaseInv, TypeOK
<1>4. \A n \in (Len(outbox) + 1)..Len(outbox') : outbox'[n].status = "pending"
  <2>1. \A u : NewRow(id, u, clock, clock).status = "pending"
    BY DEF NewRow
  <2> QED
    BY <1>1, <2>1
<1> DEFINE batch == {n \in 1..MaxRows : n > Len(outbox) /\ n <= Len(outbox')}
<1>5. \A n \in 1..MaxRows : n \notin batch => Progress(n)' = Progress(n)
  BY <1>1, <1>2, <1>3 DEF Progress
<1>6. \A n \in batch : Progress(n) = "none" /\ Progress(n)' = "queued"
  BY <1>2, <1>3, <1>4 DEF Progress
<1>7. Mapped' = [n \in 1..MaxRows |-> IF n \in batch THEN "queued" ELSE Mapped[n]]
  BY <1>5, <1>6 DEF Mapped
<1>8. batch \in SUBSET {n \in 1..MaxRows : Mapped[n] = "none"}
  BY <1>6 DEF Mapped
<1> QED
  BY <1>7, <1>8 DEF Promise!Queue, Mapped

\* Every step of a worker is a step of the promise or a stutter.
LEMMA WorkerStepPromise ==
  ASSUME BaseInv, NEW w \in Workers, WorkerStep(w)
  PROVE  Mapped' = Mapped \/ Promise!Next
<1> DEFINE d == worker[w]
           dl == Deliverable(d.now, StaleBefore(d.now))
           next == NextDeliverable(d.now, StaleBefore(d.now))
<1>1. d \in Worker /\ d.now \in Nat
  BY DEF BaseInv, TypeOK, Worker
<1>2. ASSUME UNCHANGED outboxVars, notified' = notified PROVE Mapped' = Mapped
  BY <1>2, NoProgress DEF outboxVars
<1>3. ASSUME dl # {}, ClaimNotification(next, d.now), notified' = notified
      PROVE  Mapped' = Mapped
  <2>1. next \in dl /\ next \in DOMAIN outbox /\ outbox[next].status # "succeeded"
    BY <1>3, NextIsDeliverable DEF BaseInv, TypeOK, Deliverable
  <2>2. outbox[next] \in Row
    BY <2>1, ElementOfSeq, LenProperties DEF BaseInv, TypeOK, OutboxTypeOK
  <2>3. /\ OutboxTypeOK' /\ DOMAIN outbox' = DOMAIN outbox
        /\ outbox'[next] = Claimed(outbox[next], nextToken, d.now)
        /\ \A m \in DOMAIN outbox : m # next => outbox'[m] = outbox[m]
    BY <1>1, <1>3, <2>1, ClaimType DEF BaseInv, TypeOK
  <2>4. Len(outbox') = Len(outbox)
    BY <2>3, LenProperties DEF BaseInv, TypeOK, OutboxTypeOK
  <2>5. outbox'[next].status = "in_progress"
    BY <2>2, <2>3 DEF Claimed, Row
  <2> HIDE DEF next
  <2> QED
    BY <1>3, <2>1, <2>3, <2>4, <2>5, NoProgress
<1>4. CASE Poll(w) \/ RecordFails(w) \/ Crash(w) \/ Restart(w)
  BY <1>2, <1>4 DEF Poll, RecordFails, Crash, Restart
<1>5. CASE ClaimRow(w)
  BY <1>2, <1>3, <1>5 DEF ClaimRow
<1>6. CASE ClaimFails(w)
  BY <1>2, <1>3, <1>6 DEF ClaimFails
<1>7. CASE NotifySucceeds(w) \/ NotifyFails(w)
  <2>1. d.row \in DOMAIN outbox
    BY <1>7 DEF NotifySucceeds, NotifyFails, Answer, Delivering, BaseInv, DeliveriesValid
  <2>2. /\ UNCHANGED outboxVars
        /\ notified' = notified \/ notified' = notified \cup {d.row}
    BY <1>7 DEF NotifySucceeds, NotifyFails, Deliver
  <2> QED
    BY <1>2, <2>1, <2>2, Reaching DEF outboxVars, Promise!Next
<1>8. CASE RecordResult(w)
  <2>1. w \in Delivering /\ (d.ok => d.row \in notified) /\ d.row \in DOMAIN outbox
    BY <1>8 DEF RecordResult, Delivering, BaseInv, DeliveriesValid
  <2>2. notified' = notified
    BY <1>8 DEF RecordResult
  <2>3. CASE d.ok /\ MarkNotificationSucceeded(d.row, d.token)
    BY <2>1, <2>2, <2>3, Settling DEF Promise!Next
  <2>4. ASSUME NEW now \in Reading,
               MarkNotificationFailed(d.row, d.token, now + Backoff(d.attempts))
        PROVE  Mapped' = Mapped
    <3> DEFINE at == now + Backoff(d.attempts)
    <3>1. at \in Nat
      BY <2>1, BackoffAssumption DEF Reading, BaseInv, TypeOK, DeliveriesValid
    <3> HIDE DEF at
    <3>2. /\ OutboxTypeOK' /\ DOMAIN outbox' = DOMAIN outbox
          /\ outbox'[d.row] = Settled(outbox[d.row], "failed", at)
          /\ \A m \in DOMAIN outbox : m # d.row => outbox'[m] = outbox[m]
      BY <2>1, <2>4, <3>1, MarkFailedType DEF BaseInv, TypeOK, at
    <3>3. outbox[d.row] \in Row
      BY <2>1, ElementOfSeq, LenProperties DEF BaseInv, TypeOK, OutboxTypeOK
    <3>4. outbox'[d.row].status = "failed" /\ outbox[d.row].status = "in_progress"
      <4>1. outbox[d.row].status = "in_progress"
        BY <2>4 DEF MarkNotificationFailed, HoldsClaim
      <4>2. Settled(outbox[d.row], "failed", at).status = "failed"
        BY <3>3 DEF Settled, Row
      <4> QED
        BY <3>2, <4>1, <4>2
    <3>5. Len(outbox') = Len(outbox)
      BY <3>2, LenProperties DEF BaseInv, TypeOK, OutboxTypeOK
    <3> QED
      BY <2>1, <2>2, <3>2, <3>4, <3>5, NoProgress
  <2> QED
    BY <1>2, <1>8, <2>2, <2>3, <2>4 DEF RecordResult
<1> QED
  BY <1>4, <1>5, <1>6, <1>7, <1>8 DEF WorkerStep

\* Whatever expires, crashes or is recorded late, every notification goes from
\* queued to reached to settled and never back.
THEOREM ImplementsDeliveryHolds == Spec => ImplementsDelivery
<1>1. Init => Promise!Init
  <2> SUFFICES ASSUME Init PROVE Promise!Init
    OBVIOUS
  <2>1. Len(outbox) = 0
    BY EmptySeq DEF Init, OutboxInit
  <2>2. \A n \in 1..MaxRows : Progress(n) = "none"
    BY <2>1, WorkerAssumption DEF Progress
  <2> QED
    BY <2>2 DEF Promise!Init
<1>2. BaseInv /\ [Next]_vars => [Promise!Next]_Mapped
  <2> SUFFICES ASSUME BaseInv, [Next]_vars PROVE Mapped' = Mapped \/ Promise!Next
    OBVIOUS
  <2>1. CASE Tick \/ UNCHANGED vars
    BY <2>1, NoProgress DEF Tick, vars, workerVars, outboxVars
  <2>2. ASSUME NEW w \in Workers, WorkerStep(w) PROVE Mapped' = Mapped \/ Promise!Next
    BY <2>2, WorkerStepPromise
  <2>3. ASSUME NEW id \in StickIDs, NEW user \in Users,
               UserSubscribes(id, user) \/ UserUnsubscribes(id, user)
        PROVE  Mapped' = Mapped
    BY <2>3, NoProgress DEF UserSubscribes, UserUnsubscribes, Subscribe, Unsubscribe, workerVars
  <2>4. ASSUME NEW id \in StickIDs, HolderReleases(id) PROVE Promise!Next
    BY <2>4, Queueing DEF Promise!Next
  <2> QED
    BY <2>1, <2>2, <2>3, <2>4 DEF Next
<1> QED
  BY <1>1, <1>2, BaseInvariant, PTL DEF Spec, ImplementsDelivery, Promise!Safety, Mapped

\* A delivery ends no subscription but the generation it notified, in the step
\* that settles a row that has reached its recipient.
THEOREM DeliveryEndsItsGenerationHolds == Spec => DeliveryEndsItsGeneration
<1> DEFINE Ends == worker' # worker =>
              \A id \in StickIDs, u \in Users :
                  subscriptions'[id][u] # subscriptions[id][u] =>
                      /\ subscriptions'[id][u] = NoToken
                      /\ \E n \in notified :
                             /\ outbox[n].generation = subscriptions[id][u]
                             /\ outbox[n].status # "succeeded"
                             /\ outbox'[n].status = "succeeded"
<1>1. BaseInv /\ [Next]_vars => [Ends]_vars
  <2> SUFFICES ASSUME BaseInv, Next, worker' # worker,
                      NEW id \in StickIDs, NEW u \in Users,
                      subscriptions'[id][u] # subscriptions[id][u]
               PROVE  /\ subscriptions'[id][u] = NoToken
                      /\ \E n \in notified :
                             /\ outbox[n].generation = subscriptions[id][u]
                             /\ outbox[n].status # "succeeded"
                             /\ outbox'[n].status = "succeeded"
    OBVIOUS
  <2>1. PICK w \in Workers : WorkerStep(w)
    BY DEF Next, Tick, UserSubscribes, UserUnsubscribes, HolderReleases, workerVars
  <2> DEFINE n == worker[w].row
  <2>2. RecordResult(w) /\ worker[w].ok /\ MarkNotificationSucceeded(n, worker[w].token)
    BY <2>1 DEF WorkerStep, Poll, ClaimRow, ClaimFails, NotifySucceeds, NotifyFails,
           RecordResult, RecordFails, Crash, Restart, ClaimNotification,
           MarkNotificationFailed, outboxVars
  <2>3. n \in notified /\ n \in DOMAIN outbox
    BY <2>2 DEF RecordResult, Delivering, BaseInv, DeliveriesValid
  <2>4. outbox[n] \in Row
    BY <2>3, ElementOfSeq, LenProperties DEF BaseInv, TypeOK, OutboxTypeOK
  <2> HIDE DEF n
  <2>5. outbox'[n] = Settled(outbox[n], "succeeded", 0)
    BY <2>2, <2>3, MarkSucceededType DEF BaseInv, TypeOK
  <2>6. outbox'[n].status = "succeeded" /\ outbox[n].status # "succeeded"
    <3>1. outbox[n].status = "in_progress"
      BY <2>2 DEF MarkNotificationSucceeded, HoldsClaim
    <3>2. Settled(outbox[n], "succeeded", 0).status = "succeeded"
      BY <2>4 DEF Settled, Row
    <3> QED
      BY <2>5, <3>1, <3>2
  <2>7. /\ outbox[n].stick \in StickIDs /\ outbox[n].recipient \in Users
        /\ subscriptions \in [StickIDs -> [Users -> Nat]]
    BY <2>4 DEF Row, BaseInv, TypeOK, OutboxTypeOK
  <2>8. /\ subscriptions[outbox[n].stick][outbox[n].recipient] = outbox[n].generation
        /\ subscriptions' = [subscriptions EXCEPT ![outbox[n].stick][outbox[n].recipient] = NoToken]
    BY <2>2 DEF MarkNotificationSucceeded
  <2>9. /\ id = outbox[n].stick /\ u = outbox[n].recipient
        /\ subscriptions'[id][u] = NoToken
    BY <2>7, <2>8
  <2> QED
    BY <2>3, <2>6, <2>8, <2>9
<1> QED
  BY <1>1, BaseInvariant, PTL DEF Spec, DeliveryEndsItsGeneration

-----------------------------------------------------------------------------
(* The delay before the next attempt. *)

Durations == 1..MaxDuration

\* One more round of the loop in backoff.
Longer(max, d) ==
    IF d >= max THEN d
    ELSE IF d > max \div 2 THEN max
    ELSE Double(d)

\* Up to half of the largest duration, the doubling does not wrap.
LEMMA DoubleIsExact ==
  ASSUME NEW d \in Nat, 2 * d <= MaxDuration
  PROVE  Double(d) = 2 * d
<1> DEFINE span == 2 * (MaxDuration + 1)
<1>1. MaxDuration \in Nat /\ span \in Nat /\ 2 * d \in 0..(span - 1)
  BY BackoffDefaults
<1>2. (2 * d) % span = 2 * d
  <2> HIDE DEF span
  <2> QED
    BY <1>1
<1> QED
  BY <1>1, <1>2 DEF Double

\* A round of the loop stays within the durations, and is a doubling up to max.
LEMMA LongerFacts ==
  ASSUME NEW max \in Durations, NEW d \in Durations
  PROVE  /\ Longer(max, d) \in Durations
         /\ d <= max => Longer(max, d) = IF 2 * d < max THEN 2 * d ELSE max
<1>1. MaxDuration \in Nat /\ max \in Nat /\ d \in Nat /\ max <= MaxDuration
  BY BackoffDefaults DEF Durations
<1>2. max \div 2 \in Nat /\ (max = 2 * (max \div 2) \/ max = 2 * (max \div 2) + 1)
  BY <1>1
<1>3. d <= max \div 2 => Double(d) = 2 * d
  BY <1>1, <1>2, DoubleIsExact
<1> QED
  BY <1>1, <1>2, <1>3 DEF Longer, Durations

\* What the loop computes, round by round.
LEMMA LoopDelayFacts ==
  ASSUME NEW initial \in Durations, NEW max \in Durations
  PROVE  /\ LoopDelay(initial, max, 0) = initial
         /\ \A n \in Nat : LoopDelay(initial, max, n + 1) = Longer(max, LoopDelay(initial, max, n))
<1> DEFINE Is(f) == f = [n \in Nat |->
                            IF n = 0 THEN initial
                            ELSE LET d == f[n - 1] IN
                                 IF d >= max THEN d
                                 ELSE IF d > max \div 2 THEN max
                                 ELSE Double(d)]
           delay == CHOOSE f : Is(f)
<1>1. PICK G : G = [d \in Durations |-> Longer(max, d)]
  OBVIOUS
<1>2. G \in [Durations -> Durations]
  BY <1>1, LongerFacts
<1>3. PICK f : Iterates(f, Durations, G, initial)
  BY <1>2, Iteration
<1>4. Is(f)
  <2> SUFFICES ASSUME NEW n \in Nat
               PROVE  f[n] = IF n = 0 THEN initial ELSE Longer(max, f[n - 1])
    BY <1>3 DEF Iterates, Longer
  <2>1. CASE n = 0
    BY <1>3, <2>1 DEF Iterates
  <2>2. CASE n # 0
    <3>1. n - 1 \in Nat /\ (n - 1) + 1 = n
      BY <2>2
    <3>2. f[(n - 1) + 1] = G[f[n - 1]] /\ f[n - 1] \in Durations
      BY <1>3, <3>1 DEF Iterates
    <3> QED
      BY <1>1, <2>2, <3>1, <3>2
  <2> QED
    BY <2>1, <2>2
<1> HIDE DEF Is
<1>5. Is(delay)
  BY <1>4
<1>6. \A n : LoopDelay(initial, max, n) = delay[n]
  BY DEF LoopDelay, Is
<1> HIDE DEF delay
<1> USE DEF Is
<1>7. delay[0] = initial
  BY <1>5
<1>8. ASSUME NEW n \in Nat PROVE delay[n + 1] = Longer(max, delay[n])
  <2>1. n + 1 \in Nat /\ n + 1 # 0 /\ (n + 1) - 1 = n
    OBVIOUS
  <2> QED
    BY <1>5, <2>1 DEF Longer
<1> QED
  BY <1>6, <1>7, <1>8

\* The lesser of a delay and the cap.
Capped(d, cap) == IF d < cap THEN d ELSE cap

\* The loop doubles the first delay until it reaches the cap.
LEMMA LoopDelayDoubles ==
  ASSUME NEW initial \in Durations, NEW max \in Durations, initial <= max
  PROVE  \A n \in Nat : LoopDelay(initial, max, n) = Capped(Doubled(initial, n), max)
<1> DEFINE P == {n \in Nat : LoopDelay(initial, max, n) = Capped(Doubled(initial, n), max)}
<1>1. initial \in Nat \ {0} /\ max \in Nat \ {0} /\ max <= MaxDuration /\ MaxDuration \in Nat
  BY BackoffDefaults DEF Durations
<1>2. 0 \in P
  <2>1. initial \in Int /\ LoopDelay(initial, max, 0) = initial
    BY <1>1, LoopDelayFacts
  <2>2. Doubled(initial, 0) = initial
    BY <2>1, DoubledFacts
  <2>3. Capped(initial, max) = initial
    BY <1>1 DEF Capped
  <2> QED
    BY <2>1, <2>2, <2>3
<1>3. ASSUME NEW n \in Nat, n \in P PROVE n + 1 \in P
  <2> DEFINE d == Doubled(initial, n)
  <2>1. d \in Nat \ {0} /\ Doubled(initial, n + 1) = 2 * d
    <3>1. initial \in Int
      BY <1>1
    <3>2. Doubled(initial, n + 1) = 2 * d
      BY <3>1, DoubledFacts
    <3>3. d \in Nat \ {0}
      BY <1>1, DoubledIsPositive
    <3> QED
      BY <3>2, <3>3
  <2>2. LoopDelay(initial, max, n + 1) = Longer(max, Capped(d, max))
    BY <1>3, LoopDelayFacts
  <2> HIDE DEF d
  <2>3. Capped(d, max) \in Durations /\ Capped(d, max) <= max
    BY <1>1, <2>1 DEF Capped, Durations
  <2>4. Longer(max, Capped(d, max)) = Capped(2 * Capped(d, max), max)
    BY <2>3, LongerFacts DEF Capped
  <2>5. Capped(2 * Capped(d, max), max) = Capped(2 * d, max)
    BY <1>1, <2>1 DEF Capped
  <2> QED
    BY <2>1, <2>2, <2>4, <2>5
<1> HIDE DEF P
<1>4. \A n \in Nat : n \in P
  BY <1>2, <1>3, Induction
<1> QED
  BY <1>4 DEF P

\* The options as NewWorker leaves them.
LEMMA NormalizedOptions ==
  ASSUME NEW initial \in -1..MaxDuration, NEW max \in -1..MaxDuration
  PROVE  /\ InitialBackoff(initial) \in Durations
         /\ MaxBackoff(initial, max) \in Durations
         /\ InitialBackoff(initial) <= MaxBackoff(initial, max)
  BY BackoffDefaults DEF InitialBackoff, MaxBackoff, Durations

\* The delay after k attempts is the first delay doubled k - 1 times, at most
\* the cap.
LEMMA BackoffDoubles ==
  ASSUME NEW initial \in Durations, NEW max \in Durations, initial <= max, NEW k \in Nat \ {0}
  PROVE  backoff(initial, max, k) = Capped(Doubled(initial, k - 1), max)
<1>1. k - 1 \in Nat /\ ~(k < 1)
  OBVIOUS
<1>2. LoopDelay(initial, max, k - 1) = Capped(Doubled(initial, k - 1), max)
  BY <1>1, LoopDelayDoubles
<1>3. Doubled(initial, k - 1) \in Nat /\ max \in Nat
  BY <1>1, DoubledIsPositive, BackoffDefaults DEF Durations
<1> QED
  BY <1>1, <1>2, <1>3 DEF backoff, Capped

\* A failed attempt is followed by the first delay, doubled once for every
\* earlier attempt of the row and never more than the cap, for any options and
\* any width of a duration (worker.go 63-71, 156-168).
THEOREM BackoffIsCappedDoublingHolds == Spec => []BackoffIsCappedDoubling
<1>1. BaseInv => BackoffIsCappedDoubling
  <2> SUFFICES ASSUME BaseInv, NEW w \in Workers, worker[w].pc = "recording",
                      NEW initial \in -1..MaxDuration, NEW max \in -1..MaxDuration
               PROVE  backoff(InitialBackoff(initial), MaxBackoff(initial, max), worker[w].attempts)
                      = Capped(Doubled(InitialBackoff(initial), worker[w].attempts - 1),
                               MaxBackoff(initial, max))
    BY DEF BackoffIsCappedDoubling, Capped
  <2>1. worker[w].attempts \in Nat \ {0}
    BY WorkerAssumption DEF BaseInv, DeliveriesValid, Delivering
  <2> QED
    BY <2>1, NormalizedOptions, BackoffDoubles
<1> QED
  BY <1>1, BaseInvariant, PTL
=============================================================================
