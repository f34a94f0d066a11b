------------------------------- MODULE Fanout --------------------------------
(***************************************************************************)
(* fanoutNotifier (internal/application/notification.go): one notification  *)
(* goes to every configured backend in turn, all under the one deadline of  *)
(* the worker's attempt.  buildNotifier lists SMTP backends first, then     *)
(* webhooks, then Teams.  A failed attempt is retried by the worker.        *)
(***************************************************************************)
EXTENDS Integers, Sequences, FiniteSets, Functions

CONSTANTS Notifiers,       \* the backends, in the order of buildNotifier
          OwnLimit,        \* [backend -> longest time it spends on a call]
          AttemptTimeout,  \* the deadline the worker puts on an attempt
          MaxAttempts      \* bound: attempts of a run

ASSUME FanoutAssumption ==
    /\ Notifiers \in Seq(Range(Notifiers)) /\ IsInjective(Notifiers)
    /\ AttemptTimeout \in Nat \ {0}
    /\ OwnLimit \in [Range(Notifiers) -> Nat \ {0}]

VARIABLES attempt,      \* number of the current attempt
          next,         \* index of the next backend to call
          left,         \* time left before the attempt's deadline
          slow,         \* backends whose call took time, whatever came of it
          accepted,     \* backends that took the notification in this attempt
          unavailable,  \* backends that refused it or hung in this attempt
          failures      \* backends whose call returned an error

fanoutVars == <<attempt, next, left, slow, accepted, unavailable, failures>>

StartAttempt(n) ==
    /\ attempt' = n
    /\ next' = 1
    /\ left' = AttemptTimeout
    /\ slow' = {}
    /\ accepted' = {}
    /\ unavailable' = {}
    /\ failures' = {}

FanoutInit ==
    /\ attempt = 1
    /\ next = 1
    /\ left = AttemptTimeout
    /\ slow = {}
    /\ accepted = {}
    /\ unavailable = {}
    /\ failures = {}

\* Mutant: the HTTP clients have no timeout of their own.
CallUnlimited(b) == AttemptTimeout

\* A call ends at the backend's own limit at the latest.  An http.Client has its
\* own timeout; smtp.Notify sets one only when the caller set no deadline.
CallLimit(b) == OwnLimit[b]

Lesser(a, b) == IF a < b THEN a ELSE b

\* What the calls of an attempt take, they take from the same deadline.
Takes(b, spent) ==
    /\ next <= Len(Notifiers) /\ b = Notifiers[next]
    /\ next' = next + 1
    /\ left' = left - spent
    /\ slow' = IF spent > 0 THEN slow \cup {b} ELSE slow
    /\ UNCHANGED attempt

\* A call that fails leaves its error behind and the loop goes on.
CallFails(b, spent) ==
    /\ Takes(b, spent)
    /\ failures' = failures \cup {b}
    /\ UNCHANGED accepted

\* A backend answers at any time up to its limit and the deadline, the last
\* moment included.
AnswerTimes(b) == 0..Lesser(left, CallLimit(b))

Accepts(b) ==
    /\ left > 0
    /\ \E spent \in AnswerTimes(b) : Takes(b, spent)
    /\ accepted' = accepted \cup {b}
    /\ UNCHANGED <<unavailable, failures>>

Refuses(b) ==
    /\ left > 0
    /\ \E spent \in AnswerTimes(b) \ {CallLimit(b)} : CallFails(b, spent)
    /\ unavailable' = unavailable \cup {b}

\* No answer within the backend's own limit.
Hangs(b) ==
    /\ left > 0 /\ CallLimit(b) <= left
    /\ CallFails(b, CallLimit(b))
    /\ unavailable' = unavailable \cup {b}

\* The deadline comes before the backend's own limit; with its full time the
\* backend might have answered, so it does not count as unavailable.
CutOff(b) ==
    /\ left > 0 /\ CallLimit(b) > left
    /\ CallFails(b, left)
    /\ UNCHANGED unavailable

\* Called with an expired context, a backend fails without sending anything.
Expired(b) ==
    /\ left = 0
    /\ CallFails(b, 0)
    /\ UNCHANGED unavailable

Returned == next > Len(Notifiers)

\* Mutant: the error of the last call overwrites the earlier ones.
LastError == Notifiers[Len(Notifiers)] \in failures

\* errors.Join of no errors is nil.
NotifyError == failures # {}

Retry ==
    /\ Returned
    /\ NotifyError
    /\ attempt < MaxAttempts
    /\ StartAttempt(attempt + 1)

FanoutNext ==
    \/ \E b \in Range(Notifiers) :
           Accepts(b) \/ Refuses(b) \/ Hangs(b) \/ CutOff(b) \/ Expired(b)
    \/ Retry

FanoutSpec == FanoutInit /\ [][FanoutNext]_fanoutVars

-----------------------------------------------------------------------------
(* Properties *)

\* Notify returns no error only when every backend took the notification, so
\* the worker never marks a row succeeded that some backend still misses.
NilMeansEveryBackend ==
    Returned /\ ~NotifyError => accepted = Range(Notifiers)

\* "All backends are attempted even when one fails; ... so one unavailable
\* backend does not prevent the others from receiving the notification"
\* (notification.go 64-67): after an attempt in which one backend refused or
\* hung and no other call took time, all the others have the notification.
UnavailableStopsNoOther ==
    Returned /\ Cardinality(unavailable) = 1 /\ slow \subseteq unavailable
        => Range(Notifiers) \ unavailable \subseteq accepted

\* What of that promise holds, with slow backends of either kind: k calls that
\* take time, accepted ones included, and that each end within m (the
\* http.Client timeout of webhooks and Teams) cost the attempt at most k * m.
\* While that is less than its deadline, every backend that neither refused
\* nor hung has the notification, wherever the slow ones stand in the list.
BoundedStopsNoOther ==
    \A m \in Range(OwnLimit) :
        /\ Returned
        /\ \A b \in slow : OwnLimit[b] <= m
        /\ Cardinality(slow) * m < AttemptTimeout
        => Range(Notifiers) \ unavailable \subseteq accepted
=============================================================================
