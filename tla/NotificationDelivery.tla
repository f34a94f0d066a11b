------------------------- MODULE NotificationDelivery ------------------------
(***************************************************************************)
(* What the outbox promises for a queued notification, workers, claims,     *)
(* retries and crashes left out: it reaches its recipient, and only then it *)
(* is settled, for good.  Reaching the recipient again before it is settled *)
(* is allowed (at least once).  OutboxWorker implements the safety part,    *)
(* DeliveryLoop all of it.                                                  *)
(***************************************************************************)
CONSTANT Notifications

VARIABLE progress   \* how far each notification is

Init == progress = [n \in Notifications |-> "none"]

Advance(n, from, to) ==
    /\ progress[n] = from
    /\ progress' = [progress EXCEPT ![n] = to]

Reach(n) == Advance(n, "queued", "reached")

Settle(n) == Advance(n, "reached", "settled")

\* A release queues the notifications of all its subscribers at once.
Queue ==
    \E batch \in SUBSET {n \in Notifications : progress[n] = "none"} :
        progress' = [n \in Notifications |-> IF n \in batch THEN "queued" ELSE progress[n]]

Next == Queue \/ \E n \in Notifications : Reach(n) \/ Settle(n)

Safety == Init /\ [][Next]_progress

Spec == Safety /\ \A n \in Notifications : WF_progress(Reach(n)) /\ WF_progress(Settle(n))
=============================================================================
