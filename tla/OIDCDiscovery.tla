---------------------------- MODULE OIDCDiscovery ----------------------------
(***************************************************************************)
(* providerConfig of internal/web/auth/handler.go: the identity provider is *)
(* discovered once, on first use, by one of the login and callback requests *)
(* that need it; the others wait for that one or fail fast after a failure. *)
(*                                                                          *)
(* Each stretch of code under providerMu is one step.  A discoveryDone      *)
(* channel is the number of the discovery it belongs to.                    *)
(***************************************************************************)
EXTENDS Doubling

CONSTANTS Requests,         \* requests that need the provider
          InitialBackoff,   \* h.initialBackoff
          MaxBackoff,       \* maxOIDCFailureBackoff
          DiscoveryTimeout, \* h.discoveryTimeout
          MaxClock          \* bound: largest time a run reaches

ASSUME DiscoveryAssumption ==
    /\ InitialBackoff \in Nat \ {0}
    /\ MaxBackoff \in Nat \ {0} /\ MaxBackoff % 2 = 0
    /\ DiscoveryTimeout \in Nat \ {0} /\ MaxClock \in Nat

VARIABLES clock,
          provider,          \* h.provider is set
          discoveryDone,     \* the discovery in flight, NoChannel when there is none
          lastDiscoveryErr,  \* h.lastDiscoveryErr is set
          retryDiscoveryAt,
          failureBackoff,
          made,              \* discoveryDone channels made so far
          closed,            \* the ones that have been closed
          request,           \* [pc, done, due] of each request
          failures,          \* failed discoveries so far
          lastFailure        \* when the latest one was recorded

handler == <<provider, discoveryDone, lastDiscoveryErr, retryDiscoveryAt, failureBackoff,
             made, closed>>
history == <<failures, lastFailure>>
vars == <<clock, handler, request, history>>

NoChannel == 0

\* entering: about to lock providerMu; waiting: in the select on done;
\* discovering: in discoverProvider, which ends before due.
Request == [pc : {"new", "entering", "waiting", "discovering", "ok", "error"},
            done : Nat, due : Nat]

TypeOK ==
    /\ clock \in Nat
    /\ provider \in BOOLEAN /\ lastDiscoveryErr \in BOOLEAN
    /\ discoveryDone \in Nat /\ retryDiscoveryAt \in Nat /\ failureBackoff \in Nat
    /\ made \in Nat /\ closed \subseteq Nat
    /\ request \in [Requests -> Request]
    /\ failures \in Nat /\ lastFailure \in Nat

Init ==
    /\ clock = 0
    /\ provider = FALSE
    /\ discoveryDone = NoChannel
    /\ lastDiscoveryErr = FALSE
    /\ retryDiscoveryAt = 0
    /\ failureBackoff = 0
    /\ made = 0
    /\ closed = {}
    /\ request = [r \in Requests |-> [pc |-> "new", done |-> NoChannel, due |-> 0]]
    /\ failures = 0
    /\ lastFailure = 0

Goto(r, pc, done, due) ==
    request' = [request EXCEPT ![r] = [pc |-> pc, done |-> done, due |-> due]]

\* Login and Callback ask for the provider first.
Arrive(r) ==
    /\ request[r].pc = "new"
    /\ Goto(r, "entering", NoChannel, 0)
    /\ UNCHANGED <<clock, handler, history>>

-----------------------------------------------------------------------------
(* One pass of the loop. *)

InBackoff == lastDiscoveryErr /\ clock < retryDiscoveryAt

ReturnProvider(r) ==
    /\ request[r].pc = "entering"
    /\ provider
    /\ Goto(r, "ok", NoChannel, 0)
    /\ UNCHANGED <<clock, handler, history>>

ReturnLastError(r) ==
    /\ request[r].pc = "entering"
    /\ ~provider /\ InBackoff
    /\ Goto(r, "error", NoChannel, 0)
    /\ UNCHANGED <<clock, handler, history>>

Wait(r) ==
    /\ request[r].pc = "entering"
    /\ ~provider /\ ~InBackoff
    /\ discoveryDone # NoChannel
    /\ Goto(r, "waiting", discoveryDone, 0)
    /\ UNCHANGED <<clock, handler, history>>

\* Mutant: a request starts a discovery whether or not one is in flight.
StartAlways(r) ==
    /\ request[r].pc = "entering"
    /\ ~provider /\ ~InBackoff
    /\ made' = made + 1
    /\ discoveryDone' = made'
    /\ Goto(r, "discovering", made', clock + DiscoveryTimeout)
    /\ UNCHANGED <<clock, provider, lastDiscoveryErr, retryDiscoveryAt, failureBackoff,
                   closed, history>>

StartDiscovery(r) ==
    /\ request[r].pc = "entering"
    /\ ~provider /\ ~InBackoff
    /\ discoveryDone = NoChannel
    /\ made' = made + 1
    /\ discoveryDone' = made'
    /\ Goto(r, "discovering", made', clock + DiscoveryTimeout)
    /\ UNCHANGED <<clock, provider, lastDiscoveryErr, retryDiscoveryAt, failureBackoff,
                   closed, history>>

\* The channel is closed: around the loop again.
Wake(r) ==
    /\ request[r].pc = "waiting"
    /\ request[r].done \in closed
    /\ Goto(r, "entering", NoChannel, 0)
    /\ UNCHANGED <<clock, handler, history>>

\* The browser goes away.  A waiter leaves; a discovery under way does not
\* notice (context.WithoutCancel).
Cancel(r) ==
    /\ request[r].pc = "waiting"
    /\ Goto(r, "error", NoChannel, 0)
    /\ UNCHANGED <<clock, handler, history>>

-----------------------------------------------------------------------------
(* The end of a discovery. *)

\* Mutant: the next delay is compared with the cap, not with half of it.
NextDiscoveryBackoffLate(current, initial) ==
    IF current <= 0 THEN (IF initial > MaxBackoff THEN MaxBackoff ELSE initial)
    ELSE IF current >= MaxBackoff THEN MaxBackoff
    ELSE 2 * current

nextDiscoveryBackoff(current, initial) ==
    IF current <= 0 THEN (IF initial > MaxBackoff THEN MaxBackoff ELSE initial)
    ELSE IF current >= MaxBackoff \div 2 THEN MaxBackoff
    ELSE 2 * current

\* Mutant: the waiters are not woken.
FinishSilently(r) ==
    /\ discoveryDone' = NoChannel
    /\ UNCHANGED <<made, closed>>

Finish(r) ==
    /\ discoveryDone' = NoChannel
    /\ closed' = closed \cup {request[r].done}
    /\ UNCHANGED made

DiscoverySucceeds(r) ==
    /\ request[r].pc = "discovering"
    /\ provider' = TRUE
    /\ lastDiscoveryErr' = FALSE
    /\ retryDiscoveryAt' = 0
    /\ failureBackoff' = 0
    /\ Finish(r)
    /\ Goto(r, "ok", NoChannel, 0)
    /\ UNCHANGED <<clock, history>>

\* An error, or the discovery timeout.
DiscoveryFails(r) ==
    LET backoff == nextDiscoveryBackoff(failureBackoff, InitialBackoff) IN
    /\ request[r].pc = "discovering"
    /\ lastDiscoveryErr' = TRUE
    /\ failureBackoff' = backoff
    /\ retryDiscoveryAt' = clock + backoff
    /\ Finish(r)
    /\ Goto(r, "error", NoChannel, 0)
    /\ failures' = failures + 1
    /\ lastFailure' = clock
    /\ UNCHANGED <<clock, provider>>

\* Time passes, but not beyond the timeout of a discovery.
Tick ==
    /\ clock < MaxClock
    /\ \A r \in Requests : request[r].pc = "discovering" => clock < request[r].due
    /\ clock' = clock + 1
    /\ UNCHANGED <<handler, request, history>>

Pass(r) == ReturnProvider(r) \/ ReturnLastError(r) \/ Wait(r) \/ StartDiscovery(r)

Next ==
    \/ Tick
    \/ \E r \in Requests :
           \/ Arrive(r)
           \/ ReturnProvider(r)
           \/ ReturnLastError(r)
           \/ Wait(r)
           \/ StartDiscovery(r)
           \/ Wake(r)
           \/ Cancel(r)
           \/ DiscoverySucceeds(r)
           \/ DiscoveryFails(r)

\* Goroutines run, and a discovery is ended by its timeout at the latest.
Fairness ==
    \A r \in Requests :
        /\ WF_vars(Pass(r))
        /\ WF_vars(Wake(r))
        /\ WF_vars(DiscoverySucceeds(r) \/ DiscoveryFails(r))

Spec == Init /\ [][Next]_vars /\ Fairness

-----------------------------------------------------------------------------
(* Properties *)

\* One discovery at a time, and it is the one new requests wait for: however
\* logins, wake-ups and failures interleave, the provider sees one caller
\* (handler.go 251-262).
SingleFlight ==
    \A r \in Requests : request[r].pc = "discovering" =>
        /\ request[r].done = discoveryDone
        /\ \A q \in Requests : request[q].pc = "discovering" => q = r

\* Nobody waits for a discovery that is over without being woken: the channel
\* of a waiter is closed, or belongs to a discovery somebody is running
\* (handler.go 251-258, 278-279), also when the browser behind it has gone.
NoWaiterForgotten ==
    \A r \in Requests : request[r].pc = "waiting" =>
        \/ request[r].done \in closed
        \/ \E q \in Requests : request[q].pc = "discovering" /\ request[q].done = request[r].done

\* After the k-th failure the provider is left alone for exactly the initial
\* delay doubled k - 1 times, at most the cap: no discovery is running inside
\* that time, whichever requests arrive or wake (handler.go 246, 304-315).
QuietAfterFailure ==
    failures > 0 /\ ~provider =>
        LET uncapped == Doubled(InitialBackoff, failures - 1)
            delay == IF uncapped < MaxBackoff THEN uncapped ELSE MaxBackoff IN
        /\ retryDiscoveryAt = lastFailure + delay
        /\ clock < lastFailure + delay => \A r \in Requests : request[r].pc # "discovering"

\* Every request that asks for the provider gets an answer, although a waiter
\* that is woken goes round the loop and may have to wait again.
EveryRequestAnswered ==
    \A r \in Requests : request[r].pc = "entering" ~> request[r].pc \in {"ok", "error"}
=============================================================================
