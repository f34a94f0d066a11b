---------------------------- MODULE DeliveryLoop -----------------------------
(***************************************************************************)
(* The delivery protocol of OutboxWorker without a clock, so that it has    *)
(* finitely many states and "eventually" can be checked.                    *)
(*                                                                          *)
(* A retry time or a claim's time to live is a flag, ripe, that some later  *)
(* moment raises.  A claim token is the worker that holds it: a worker has  *)
(* one delivery at a time.  A live worker's claim does not expire: that is  *)
(* ClaimKept of OutboxWorker, for rounds that fit in the time to live.      *)
(***************************************************************************)
EXTENDS Integers, FiniteSets

CONSTANTS Workers, NULL,
          Rows,        \* ids of the notifications a run queues, 1..k
          MaxFaults    \* bound: crashes, lost claims and unrecorded results

ASSUME LoopAssumption == Rows \subseteq Nat /\ MaxFaults \in Nat /\ NULL \notin Workers

VARIABLES status,   \* of each row; "absent" before it is queued
          ripe,     \* the row's retry time, or its claim's time to live, is over
          owner,    \* the worker whose token is in claim_token
          worker,   \* [pc, row] of each worker
          reached,  \* rows whose notification reached the recipient
          faults

vars == <<status, ripe, owner, worker, reached, faults>>

Idle == [pc |-> "idle", row |-> 0]

Init ==
    /\ status = [n \in Rows |-> "absent"]
    /\ ripe = [n \in Rows |-> FALSE]
    /\ owner = [n \in Rows |-> NULL]
    /\ worker = [w \in Workers |-> Idle]
    /\ reached = {}
    /\ faults = 0

Set(w, state) == worker' = [worker EXCEPT ![w] = state]

Fault == faults < MaxFaults /\ faults' = faults + 1

\* Rows are queued in id order and are due at once.
Enqueue(n) ==
    /\ status[n] = "absent"
    /\ \A m \in Rows : m < n => status[m] # "absent"
    /\ status' = [status EXCEPT ![n] = "pending"]
    /\ ripe' = [ripe EXCEPT ![n] = TRUE]
    /\ UNCHANGED <<owner, worker, reached, faults>>

DeliveredBy(w, n) ==
    worker[w].pc \in {"notifying", "record_success", "record_failure"} /\ worker[w].row = n

\* Mutant: a claim never expires.
ElapseRetryOnly(n) ==
    /\ ~ripe[n]
    /\ status[n] = "failed"
    /\ ripe' = [ripe EXCEPT ![n] = TRUE]
    /\ UNCHANGED <<status, owner, worker, reached, faults>>

\* Time reaches next_attempt_at, or claimed_at plus the time to live.
Elapse(n) ==
    /\ ~ripe[n]
    /\ \/ status[n] = "failed"
       \/ status[n] = "in_progress" /\ \A w \in Workers : ~DeliveredBy(w, n)
    /\ ripe' = [ripe EXCEPT ![n] = TRUE]
    /\ UNCHANGED <<status, owner, worker, reached, faults>>

Deliverable == {n \in Rows : ripe[n] /\ status[n] \in {"pending", "failed", "in_progress"}}

\* The smallest deliverable id, as ORDER BY id LIMIT 1 picks it.
ClaimRow(w) ==
    /\ worker[w].pc = "idle"
    /\ \E n \in Deliverable :
           /\ \A m \in Deliverable : n <= m
           /\ status' = [status EXCEPT ![n] = "in_progress"]
           /\ ripe' = [ripe EXCEPT ![n] = FALSE]
           /\ owner' = [owner EXCEPT ![n] = w]
           /\ Set(w, [pc |-> "notifying", row |-> n])
    /\ UNCHANGED <<reached, faults>>

\* The claim returns an error although its transaction was committed: nobody
\* delivers the row, and no live worker has its token.
ClaimFails(w) ==
    /\ worker[w].pc = "idle"
    /\ \E n \in Deliverable :
           /\ \A m \in Deliverable : n <= m
           /\ status' = [status EXCEPT ![n] = "in_progress"]
           /\ ripe' = [ripe EXCEPT ![n] = FALSE]
           /\ owner' = [owner EXCEPT ![n] = NULL]
    /\ Fault
    /\ UNCHANGED <<worker, reached>>

Answer(w, pc) ==
    /\ worker[w].pc = "notifying"
    /\ Set(w, [worker[w] EXCEPT !.pc = pc])
    /\ UNCHANGED <<status, ripe, owner, faults>>

NotifySucceeds(w) ==
    /\ Answer(w, "record_success")
    /\ reached' = reached \cup {worker[w].row}

\* A failure is reported, though a part of the backends, or the one whose
\* reply was lost, may have reached the recipient.
NotifyFails(w) ==
    /\ Answer(w, "record_failure")
    /\ reached' \in {reached, reached \cup {worker[w].row}}

RecordResult(w) ==
    LET n == worker[w].row
        Mark(s) == /\ status' = [status EXCEPT ![n] = s]
                   /\ owner' = [owner EXCEPT ![n] = NULL]
    IN
    /\ worker[w].pc \in {"record_success", "record_failure"}
    /\ IF status[n] = "in_progress" /\ owner[n] = w
         THEN Mark(IF worker[w].pc = "record_success" THEN "succeeded" ELSE "failed")
         ELSE UNCHANGED <<status, owner>>
    /\ Set(w, Idle)
    /\ UNCHANGED <<ripe, reached, faults>>

RecordFails(w) ==
    /\ worker[w].pc \in {"record_success", "record_failure"}
    /\ Set(w, Idle)
    /\ Fault
    /\ UNCHANGED <<status, ripe, owner, reached>>

Crash(w) ==
    /\ worker[w].pc # "down"
    /\ Set(w, [pc |-> "down", row |-> 0])
    /\ Fault
    /\ UNCHANGED <<status, ripe, owner, reached>>

Restart(w) ==
    /\ worker[w].pc = "down"
    /\ Set(w, Idle)
    /\ UNCHANGED <<status, ripe, owner, reached, faults>>

WorkerStep(w) ==
    \/ ClaimRow(w)
    \/ ClaimFails(w)
    \/ NotifySucceeds(w)
    \/ NotifyFails(w)
    \/ RecordResult(w)
    \/ RecordFails(w)
    \/ Crash(w)
    \/ Restart(w)

Next ==
    \/ \E n \in Rows : Enqueue(n) \/ Elapse(n)
    \/ \E w \in Workers : WorkerStep(w)

\* The loop of Run keeps polling, an attempt is cut off by its timeout, a
\* crashed process is restarted, and time passes.  A backend that is asked
\* about the same notification again and again does not refuse it forever.
Fairness ==
    /\ \A w \in Workers : WF_vars(ClaimRow(w)) /\ WF_vars(NotifySucceeds(w) \/ NotifyFails(w))
                          /\ WF_vars(RecordResult(w)) /\ WF_vars(Restart(w))
    /\ \A n \in Rows : WF_vars(Elapse(n))
    /\ \A n \in Rows : SF_vars(\E w \in Workers : worker[w].row = n /\ NotifySucceeds(w))

Spec == Init /\ [][Next]_vars /\ Fairness

-----------------------------------------------------------------------------
(* Properties *)

Progress(n) ==
    CASE status[n] = "absent"    -> "none"
      [] status[n] = "succeeded" -> "settled"
      [] OTHER                   -> IF n \in reached THEN "reached" ELSE "queued"

Promise == INSTANCE NotificationDelivery WITH
    Notifications <- Rows, progress <- [n \in Rows |-> Progress(n)]

\* The loop does what the outbox promises, liveness included: nothing is
\* settled that has not reached its recipient, nothing settled is taken up
\* again, and every notification gets that far.
ImplementsDelivery == Promise!Spec
=============================================================================
