------------------------------ MODULE WebProofs ------------------------------
(***************************************************************************)
(* The web side: signing in (OIDCDiscovery and Login on top of it) and      *)
(* reading (Pagination and Dashboard on top of it), for any number of       *)
(* requests, people, restarts, sticks, sessions and pages.                  *)
(*                                                                          *)
(* SingleFlight says nothing of discoveryDone while nobody is discovering,  *)
(* and NoWaiterForgotten nothing of who will close a channel.  The          *)
(* inductive invariant IInv ties both to discoveryDone: it is set exactly   *)
(* while one request is discovering, and an open channel somebody waits on  *)
(* is the one in discoveryDone.                                             *)
(*                                                                          *)
(* QuietAfterFailure counts the failures, of which the handler keeps only   *)
(* its latest delay: QInv says that this delay is the one that the number   *)
(* of failures calls for.                                                   *)
(*                                                                          *)
(* The properties of a login are about requests that carry cookies of an    *)
(* earlier moment.  Their invariant WInv is about the cookies themselves:   *)
(* state and verifier always come from one login, and as long as a login is *)
(* undisturbed the browser can send no others than its own.                 *)
(*                                                                          *)
(* ReadingHasNoGap says too little of the page that is open: a following    *)
(* page closes up with it only because everything from its last session up  *)
(* to the start of the reading has been seen (PInv).  UntouchedShownRight   *)
(* speaks of the finished page; DInv says of every stage of putting the     *)
(* page together what has been read so far.                                 *)
(***************************************************************************)
EXTENDS Login, Dashboard, RecursionProofs

Running(r) == request[r].pc = "discovering"

\* The handler's channel has exactly one request that will close it.
OneRunner ==
    /\ SingleFlight
    /\ discoveryDone # NoChannel <=> \E r \in Requests : Running(r)

\* A waiter's channel is closed or is the handler's current one.
WaitersServed ==
    \A r \in Requests : request[r].pc = "waiting" =>
        request[r].done \in closed \/ (request[r].done = discoveryDone /\ discoveryDone # NoChannel)

IInv == TypeOK /\ OneRunner /\ WaitersServed

-----------------------------------------------------------------------------

\* What Goto does to the requests' table.
LEMMA GotoEffect ==
    ASSUME TypeOK, NEW r \in Requests, NEW pc, NEW done, NEW due, Goto(r, pc, done, due)
    PROVE  /\ request'[r] = [pc |-> pc, done |-> done, due |-> due]
           /\ \A q \in Requests : q # r => request'[q] = request[q]
BY DEF TypeOK, Goto

\* A step that takes a request that is not discovering to one that is neither
\* discovering nor waiting, and leaves the handler alone, keeps the invariant.
LEMMA MoveOnKeepsInvariant ==
    ASSUME IInv, NEW r \in Requests, ~Running(r),
           NEW pc \in {"entering", "ok", "error"}, Goto(r, pc, NoChannel, 0),
           UNCHANGED <<clock, handler, history>>
    PROVE  IInv'
<1>1. /\ request'[r] = [pc |-> pc, done |-> NoChannel, due |-> 0]
      /\ \A q \in Requests : q # r => request'[q] = request[q]
  BY GotoEffect DEF IInv
<1>2. TypeOK'
  BY DEF IInv, TypeOK, Goto, Request, NoChannel, handler, history
<1>3. \A q \in Requests : /\ Running(q)' <=> Running(q)
                          /\ Running(q) => request'[q] = request[q]
                          /\ request'[q].pc = "waiting" => request'[q] = request[q]
  BY <1>1 DEF Running
<1>4. OneRunner'
  BY <1>3 DEF IInv, OneRunner, SingleFlight, Running, handler
<1>5. WaitersServed'
  BY <1>3 DEF IInv, WaitersServed, handler
<1> QED
  BY <1>2, <1>4, <1>5 DEF IInv

\* A request that finds a discovery in flight waits on its channel.
LEMMA WaitKeepsInvariant ==
    ASSUME IInv, NEW r \in Requests, Wait(r)
    PROVE  IInv'
<1>1. /\ request'[r] = [pc |-> "waiting", done |-> discoveryDone, due |-> 0]
      /\ \A q \in Requests : q # r => request'[q] = request[q]
  BY GotoEffect DEF IInv, Wait
<1>2. TypeOK'
  BY DEF IInv, TypeOK, Wait, Goto, Request, handler, history
<1>3. \A q \in Requests : /\ Running(q)' <=> Running(q)
                          /\ Running(q) => request'[q] = request[q]
  BY <1>1 DEF Running, Wait
<1>4. OneRunner'
  BY <1>3 DEF IInv, OneRunner, SingleFlight, Running, Wait, handler
<1>5. WaitersServed'
  BY <1>1 DEF IInv, WaitersServed, Wait, handler
<1> QED
  BY <1>2, <1>4, <1>5 DEF IInv

\* A request that finds none becomes the one that runs the next discovery.
LEMMA StartKeepsInvariant ==
    ASSUME IInv, NEW r \in Requests, StartDiscovery(r)
    PROVE  IInv'
<1>1. /\ request'[r] = [pc |-> "discovering", done |-> made', due |-> clock + DiscoveryTimeout]
      /\ \A q \in Requests : q # r => request'[q] = request[q]
  BY GotoEffect DEF IInv, StartDiscovery
<1>2. TypeOK'
  BY DiscoveryAssumption DEF IInv, TypeOK, StartDiscovery, Goto, Request, history
<1>3. discoveryDone = NoChannel /\ discoveryDone' = made' /\ discoveryDone' # NoChannel
  BY DEF IInv, TypeOK, StartDiscovery, NoChannel
<1>4. \A q \in Requests : Running(q)' <=> q = r
  BY <1>1, <1>3 DEF IInv, OneRunner, Running
<1>5. OneRunner'
  BY <1>1, <1>3, <1>4 DEF OneRunner, SingleFlight, Running
<1>6. WaitersServed'
  BY <1>1, <1>3 DEF IInv, WaitersServed, StartDiscovery
<1> QED
  BY <1>2, <1>5, <1>6 DEF IInv

\* The request that ends the discovery closes the channel all waiters are on.
LEMMA FinishKeepsInvariant ==
    ASSUME IInv, TypeOK', NEW r \in Requests, Running(r), Finish(r),
           NEW pc \in {"ok", "error"}, Goto(r, pc, NoChannel, 0)
    PROVE  IInv'
<1>1. /\ request'[r] = [pc |-> pc, done |-> NoChannel, due |-> 0]
      /\ \A q \in Requests : q # r => request'[q] = request[q]
  BY GotoEffect DEF IInv
<1>2. request[r].done = discoveryDone /\ \A q \in Requests : Running(q) => q = r
  BY DEF IInv, OneRunner, SingleFlight, Running
<1>3. \A q \in Requests : ~Running(q)'
  BY <1>1, <1>2 DEF Running
<1>4. OneRunner'
  BY <1>3 DEF OneRunner, SingleFlight, Running, Finish, NoChannel
<1>5. WaitersServed'
  BY <1>1, <1>2 DEF IInv, WaitersServed, Finish
<1> QED
  BY <1>4, <1>5 DEF IInv

-----------------------------------------------------------------------------

\* Every step keeps the invariant: providerConfig has one runner and no lost
\* waiter after each stretch under the mutex.
LEMMA NextKeepsInvariant ==
    ASSUME IInv, [Next]_vars
    PROVE  IInv'
<1>1. CASE UNCHANGED vars
  BY <1>1 DEF IInv, TypeOK, OneRunner, SingleFlight, Running, WaitersServed, vars,
              handler, history
<1>2. CASE Tick
  BY <1>2 DEF Tick, IInv, TypeOK, OneRunner, SingleFlight, Running, WaitersServed,
              handler, history
<1>3. ASSUME NEW r \in Requests,
             Arrive(r) \/ ReturnProvider(r) \/ ReturnLastError(r) \/ Wake(r) \/ Cancel(r)
      PROVE  IInv'
  BY <1>3, MoveOnKeepsInvariant DEF Arrive, ReturnProvider, ReturnLastError, Wake, Cancel,
                                    Running
<1>4. ASSUME NEW r \in Requests, DiscoverySucceeds(r) PROVE IInv'
  <2>1. TypeOK'
    BY <1>4 DEF DiscoverySucceeds, Finish, Goto, IInv, TypeOK, Request, NoChannel, history
  <2> QED
    BY <1>4, <2>1, FinishKeepsInvariant DEF DiscoverySucceeds, Running
<1>5. ASSUME NEW r \in Requests, DiscoveryFails(r) PROVE IInv'
  <2>1. nextDiscoveryBackoff(failureBackoff, InitialBackoff) \in Nat
    BY DiscoveryAssumption DEF nextDiscoveryBackoff, IInv, TypeOK
  <2>2. /\ clock' \in Nat /\ discoveryDone' \in Nat /\ made' \in Nat /\ closed' \subseteq Nat
        /\ request' \in [Requests -> Request]
    BY <1>5 DEF DiscoveryFails, Finish, Goto, IInv, TypeOK, Request, NoChannel
  <2>3. /\ retryDiscoveryAt' \in Nat /\ failureBackoff' \in Nat
        /\ failures' \in Nat /\ lastFailure' \in Nat
    BY <1>5, <2>1 DEF DiscoveryFails, IInv, TypeOK
  <2>4. provider' \in BOOLEAN /\ lastDiscoveryErr' \in BOOLEAN
    BY <1>5, Zenon DEF DiscoveryFails, IInv, TypeOK
  <2>5. TypeOK'
    BY <2>2, <2>3, <2>4 DEF TypeOK
  <2> QED
    BY <1>5, <2>5, FinishKeepsInvariant DEF DiscoveryFails, Running
<1> QED
  BY <1>1, <1>2, <1>3, <1>4, <1>5, WaitKeepsInvariant, StartKeepsInvariant DEF Next

\* Before the first request nobody discovers and nobody waits.
LEMMA InitInvariant ==
    ASSUME Init
    PROVE  IInv
<1>1. /\ clock \in Nat /\ discoveryDone \in Nat /\ made \in Nat /\ closed \subseteq Nat
      /\ retryDiscoveryAt \in Nat /\ failureBackoff \in Nat
      /\ failures \in Nat /\ lastFailure \in Nat
  BY DEF Init, NoChannel
<1>2. request \in [Requests -> Request]
  BY DEF Init, Request, NoChannel
<1>3. provider \in BOOLEAN /\ lastDiscoveryErr \in BOOLEAN
  BY Zenon DEF Init
<1>4. OneRunner /\ WaitersServed
  BY DEF Init, OneRunner, SingleFlight, Running, WaitersServed
<1> QED
  BY <1>1, <1>2, <1>3, <1>4 DEF IInv, TypeOK

\* The invariant holds throughout: discoveryDone is set exactly while one
\* request of providerConfig is discovering.
THEOREM DiscoveryInvariant == Spec => []IInv
<1>1. Init => IInv
  BY InitInvariant
<1>2. IInv /\ [Next]_vars => IInv'
  BY NextKeepsInvariant
<1> QED
  BY <1>1, <1>2, PTL DEF Spec

\* One discovery at a time, for any number of logins (handler.go 251-262).
THEOREM SingleFlightHolds == Spec => []SingleFlight
<1>1. IInv => SingleFlight
  BY DEF IInv, OneRunner
<1> QED
  BY <1>1, DiscoveryInvariant, PTL

\* No waiter is forgotten, for any number of logins (handler.go 251-279).
THEOREM NoWaiterForgottenHolds == Spec => []NoWaiterForgotten
<1>1. IInv => NoWaiterForgotten
  BY DEF IInv, OneRunner, SingleFlight, Running, WaitersServed, NoWaiterForgotten
<1> QED
  BY <1>1, DiscoveryInvariant, PTL

-----------------------------------------------------------------------------
(* The delay after a failed discovery. *)

\* The delay that k failures call for.
Delay(k) ==
    LET uncapped == Doubled(InitialBackoff, k - 1)
    IN IF uncapped < MaxBackoff THEN uncapped ELSE MaxBackoff

\* What the handler remembers of its failures is enough for all of them.
BackoffCounts ==
    ~provider =>
        /\ lastDiscoveryErr <=> failures > 0
        /\ failureBackoff = IF failures = 0 THEN 0 ELSE Delay(failures)
        /\ failures > 0 => /\ retryDiscoveryAt = lastFailure + failureBackoff
                           /\ \A r \in Requests : Running(r) => clock >= retryDiscoveryAt

QInv == IInv /\ BackoffCounts

\* nextDiscoveryBackoff goes from the delay of k failures to that of k + 1; the
\* comparison with half of the cap is exact since the cap is even.
LEMMA NextDelay ==
    ASSUME NEW k \in Nat
    PROVE  nextDiscoveryBackoff(IF k = 0 THEN 0 ELSE Delay(k), InitialBackoff) = Delay(k + 1)
<1>1. CASE k = 0
  <2>1. Doubled(InitialBackoff, (k + 1) - 1) = InitialBackoff
    BY <1>1, DoubledFacts, DiscoveryAssumption
  <2> QED
    BY <1>1, <2>1, DiscoveryAssumption DEF Delay, nextDiscoveryBackoff
<1>2. CASE k # 0
  <2> DEFINE d == Doubled(InitialBackoff, k - 1)
  <2>1. k - 1 \in Nat /\ (k - 1) + 1 = k /\ (k + 1) - 1 = k
    BY <1>2
  <2>2. d \in Nat \ {0}
    BY <2>1, DoubledIsPositive, DiscoveryAssumption
  <2>3. Doubled(InitialBackoff, k) = 2 * d
    <3>1. Doubled(InitialBackoff, (k - 1) + 1) = 2 * d
      BY <2>1, DoubledFacts, DiscoveryAssumption
    <3> QED
      BY <2>1, <3>1
  <2>4. Delay(k + 1) = IF 2 * d < MaxBackoff THEN 2 * d ELSE MaxBackoff
    BY <2>1, <2>3 DEF Delay
  <2>5. Delay(k) = IF d < MaxBackoff THEN d ELSE MaxBackoff
    BY DEF Delay
  <2> HIDE DEF d
  <2>6. /\ MaxBackoff \in Nat \ {0} /\ MaxBackoff \div 2 \in Nat
        /\ MaxBackoff = 2 * (MaxBackoff \div 2)
    BY DiscoveryAssumption
  <2> QED
    BY <1>2, <2>2, <2>4, <2>5, <2>6 DEF nextDiscoveryBackoff
<1> QED
  BY <1>1, <1>2

\* Every step of the discovery keeps count.
LEMMA NextKeepsBackoff ==
    ASSUME QInv, [Next]_vars
    PROVE  BackoffCounts'
<1> USE DEF QInv
<1>1. CASE UNCHANGED vars
  BY <1>1 DEF BackoffCounts, Running, Delay, vars, handler, history
<1>2. CASE Tick
  BY <1>2 DEF Tick, BackoffCounts, Running, Delay, handler, history, IInv, TypeOK
<1>3. ASSUME NEW r \in Requests,
             \/ Arrive(r) \/ ReturnProvider(r) \/ ReturnLastError(r) \/ Wait(r) \/ Wake(r)
             \/ Cancel(r)
      PROVE  BackoffCounts'
  <2>1. UNCHANGED <<clock, handler, history>>
    BY <1>3 DEF Arrive, ReturnProvider, ReturnLastError, Wait, Wake, Cancel
  <2>2. PICK pc \in {"entering", "ok", "error", "waiting"}, done \in Nat : Goto(r, pc, done, 0)
    BY <1>3 DEF Arrive, ReturnProvider, ReturnLastError, Wait, Wake, Cancel, NoChannel, IInv, TypeOK
  <2>3. /\ request'[r] = [pc |-> pc, done |-> done, due |-> 0]
        /\ \A q \in Requests : q # r => request'[q] = request[q]
    BY <2>2, GotoEffect DEF IInv
  <2>4. \A q \in Requests : Running(q)' => Running(q)
    BY <2>3 DEF Running
  <2> QED
    BY <2>1, <2>4 DEF BackoffCounts, Delay, handler, history
<1>4. ASSUME NEW r \in Requests, StartDiscovery(r) PROVE BackoffCounts'
  <2>1. ~provider /\ ~InBackoff
        /\ UNCHANGED <<clock, provider, lastDiscoveryErr, retryDiscoveryAt, failureBackoff, history>>
    BY <1>4 DEF StartDiscovery
  <2>2. failures > 0 => clock >= retryDiscoveryAt
    BY <2>1 DEF BackoffCounts, InBackoff, IInv, TypeOK
  <2> QED
    BY <2>1, <2>2 DEF BackoffCounts, Delay, history
<1>5. ASSUME NEW r \in Requests, DiscoverySucceeds(r) PROVE BackoffCounts'
  BY <1>5 DEF DiscoverySucceeds, BackoffCounts
<1>6. ASSUME NEW r \in Requests, DiscoveryFails(r) PROVE BackoffCounts'
  <2> SUFFICES ASSUME ~provider PROVE BackoffCounts'
    BY <1>6 DEF DiscoveryFails, BackoffCounts
  <2>1. failures \in Nat /\ clock \in Nat
    BY DEF IInv, TypeOK
  <2>2. /\ failures' = failures + 1 /\ lastFailure' = clock /\ lastDiscoveryErr'
        /\ failureBackoff' = nextDiscoveryBackoff(failureBackoff, InitialBackoff)
        /\ retryDiscoveryAt' = clock + failureBackoff'
    BY <1>6 DEF DiscoveryFails
  <2>3. failureBackoff' = Delay(failures')
    BY <2>1, <2>2, NextDelay DEF BackoffCounts
  <2>4. \A q \in Requests : ~Running(q)'
    <3>1. \A q \in Requests : Running(q) => q = r
      BY <1>6 DEF DiscoveryFails, Running, IInv, OneRunner, SingleFlight
    <3>2. Goto(r, "error", NoChannel, 0)
      BY <1>6 DEF DiscoveryFails
    <3>3. /\ request'[r] = [pc |-> "error", done |-> NoChannel, due |-> 0]
          /\ \A q \in Requests : q # r => request'[q] = request[q]
      BY <3>2, GotoEffect DEF IInv
    <3> QED
      BY <3>1, <3>3 DEF Running
  <2> QED
    BY <2>1, <2>2, <2>3, <2>4 DEF BackoffCounts, Delay
<1> QED
  BY <1>1, <1>2, <1>3, <1>4, <1>5, <1>6 DEF Next

\* Before the first discovery nothing has failed.
LEMMA InitBackoff == Init => BackoffCounts
  BY DEF Init, BackoffCounts

\* What the invariant says of the delays, in the property's words.
LEMMA BackoffIsQuiet == QInv => QuietAfterFailure
<1> SUFFICES ASSUME QInv, failures > 0, ~provider
             PROVE  /\ retryDiscoveryAt = lastFailure + Delay(failures)
                    /\ clock < lastFailure + Delay(failures) =>
                          \A r \in Requests : request[r].pc # "discovering"
  BY DEF QuietAfterFailure, Delay
<1>1. failures # 0 /\ clock \in Nat /\ retryDiscoveryAt \in Nat /\ failures \in Nat
  BY DEF QInv, IInv, TypeOK
<1>2. /\ retryDiscoveryAt = lastFailure + Delay(failures)
      /\ \A r \in Requests : Running(r) => clock >= retryDiscoveryAt
  BY <1>1 DEF QInv, BackoffCounts
<1> QED
  BY <1>1, <1>2 DEF Running

\* After the k-th failure the provider is left alone for the initial delay
\* doubled k - 1 times, at most the cap (handler.go 246, 304-315).
THEOREM QuietAfterFailureHolds == Spec => []QuietAfterFailure
<1>1. Init => QInv
  BY InitInvariant, InitBackoff DEF QInv
<1>2. QInv /\ [Next]_vars => QInv'
  BY NextKeepsInvariant, NextKeepsBackoff DEF QInv
<1> QED
  BY <1>1, <1>2, BackoffIsQuiet, PTL DEF Spec

-----------------------------------------------------------------------------
(* Signing in *)

Cookies == [state : Logins \cup {None, Stale},
            verifier : Logins \cup {None, Stale},
            session : {None, OldSession} \cup [who : People, expires : Nat]]

Carried == [login : Logins \cup {None},
            state : Logins \cup {None, Stale},
            verifier : Logins \cup {None, Stale}]

WTyped ==
    /\ jar \in [Paths -> Cookies]
    /\ sent \subseteq Logins
    /\ carried \in [Callbacks -> Carried]
    /\ answer \in [Requests -> Answers \cup {None}]

\* State and verifier of a path belong to the same login.
CookiesPaired == \A p \in Paths : jar[p].state = jar[p].verifier

\* The browser has the cookies of an undisturbed login and no older ones.
UndisturbedInJar ==
    \A l \in sent \ disturbed : jar["mount"].state = l /\ jar["root"].state = None

\* The same of what a callback carries, however long ago it was sent.
CarriedPaired == \A r \in Callbacks : carried[r].state = carried[r].verifier

CarriedUndisturbed ==
    \A r \in Callbacks : request[r].pc # "new" =>
        /\ carried[r].login \in Logins
        /\ carried[r].login \notin disturbed => carried[r].state = carried[r].login

\* Only requests that were sent are answered.
AnsweredWereSent == \A r \in Requests : answer[r] # None => request[r].pc # "new"

WInv ==
    /\ WTyped /\ CookiesPaired /\ UndisturbedInJar
    /\ CarriedPaired /\ CarriedUndisturbed /\ AnsweredWereSent
    /\ ExchangesOwnVerifier /\ UndisturbedLoginAccepted /\ FormActsAsShown

-----------------------------------------------------------------------------

\* A restart drops the discovery in flight together with everyone waiting.
LEMMA RestartKeepsDiscovery == IInv /\ Restart => IInv'
<1> SUFFICES ASSUME IInv, Restart PROVE IInv'
  OBVIOUS
<1>1. \A r \in Requests : request'[r].pc \in {"new", "error"} /\ request'[r] \in Request
  BY DEF Restart, IInv, TypeOK, Request, NoChannel
<1>2. request' \in [Requests -> Request]
  BY <1>1 DEF Restart
<1>3. provider' \in BOOLEAN /\ lastDiscoveryErr' \in BOOLEAN
  BY Zenon DEF Restart
<1>4. TypeOK'
  BY <1>2, <1>3 DEF TypeOK, Restart, IInv, NoChannel
<1>5. \A r \in Requests : ~Running(r)' /\ request'[r].pc # "waiting"
  BY <1>1 DEF Running
<1>6. OneRunner'
  BY <1>5 DEF OneRunner, SingleFlight, Running, Restart
<1>7. WaitersServed'
  BY <1>5 DEF WaitersServed
<1> QED
  BY <1>4, <1>6, <1>7 DEF IInv

\* Every step of Login is, for the discovery, a step of its own, a restart or
\* nothing.
LEMMA LoginKeepsDiscovery == IInv /\ [LoginNext]_loginVars => IInv'
<1> SUFFICES ASSUME IInv, [LoginNext]_loginVars PROVE IInv'
  OBVIOUS
<1>1. CASE Discovering
  BY <1>1, NextKeepsInvariant DEF Discovering, Next
<1>2. CASE Restart
  BY <1>2, RestartKeepsDiscovery
<1>3. CASE \E r \in Logins : SendLogin(r)
  BY <1>3, NextKeepsInvariant, LoginAssumption DEF SendLogin, Next
<1>4. CASE \E r \in Callbacks, login \in Logins, first \in Paths : SendCallback(r, login, first)
  BY <1>4, NextKeepsInvariant, LoginAssumption DEF SendCallback, Next
<1>5. CASE UNCHANGED vars
  BY <1>5, NextKeepsInvariant
<1> QED
  BY <1>1, <1>2, <1>3, <1>4, <1>5
  DEF LoginNext, loginVars, LoginAnswers, LoginLost, CallbackRejects, CallbackFails,
      CallbackAnswers, CookiesExpire, RenderPage, SubmitForm, Logout

\* A restart forgets the failures with the delay they led to.
LEMMA RestartKeepsBackoff == Restart => BackoffCounts'
  BY DEF Restart, BackoffCounts

\* So the delays stay right while people sign in and out.
LEMMA LoginKeepsBackoff == QInv /\ [LoginNext]_loginVars => BackoffCounts'
<1> SUFFICES ASSUME QInv, [LoginNext]_loginVars PROVE BackoffCounts'
  OBVIOUS
<1>1. CASE Discovering
  BY <1>1, NextKeepsBackoff DEF Discovering, Next
<1>2. CASE Restart
  BY <1>2, RestartKeepsBackoff
<1>3. CASE \E r \in Logins : SendLogin(r)
  BY <1>3, NextKeepsBackoff, LoginAssumption DEF SendLogin, Next
<1>4. CASE \E r \in Callbacks, login \in Logins, first \in Paths : SendCallback(r, login, first)
  BY <1>4, NextKeepsBackoff, LoginAssumption DEF SendCallback, Next
<1>5. CASE UNCHANGED vars
  BY <1>5, NextKeepsBackoff
<1> QED
  BY <1>1, <1>2, <1>3, <1>4, <1>5
  DEF LoginNext, loginVars, LoginAnswers, LoginLost, CallbackRejects, CallbackFails,
      CallbackAnswers, CookiesExpire, RenderPage, SubmitForm, Logout

\* The discovery neither sends a request nor unsends one.
LEMMA DiscoveryKeepsSent ==
    ASSUME TypeOK, Discovering
    PROVE  \A q \in Requests : request'[q].pc = "new" <=> request[q].pc = "new"
<1>1. CASE Tick
  BY <1>1 DEF Tick
<1>2. ASSUME NEW r \in Requests,
             \/ ReturnProvider(r) \/ ReturnLastError(r) \/ Wait(r) \/ StartDiscovery(r)
             \/ Wake(r) \/ Cancel(r) \/ DiscoverySucceeds(r) \/ DiscoveryFails(r)
      PROVE  \A q \in Requests : request'[q].pc = "new" <=> request[q].pc = "new"
  BY <1>2 DEF TypeOK, ReturnProvider, ReturnLastError, Wait, StartDiscovery, Wake, Cancel,
              DiscoverySucceeds, DiscoveryFails, Goto
<1> QED
  BY <1>1, <1>2 DEF Discovering

\* A step that leaves the browser and the answers alone, and sends no callback.
LEMMA WebUntouched ==
    ASSUME WInv, UNCHANGED web,
           \A q \in Requests : request'[q].pc = "new" => request[q].pc = "new",
           \A q \in Callbacks : request'[q].pc = "new" <=> request[q].pc = "new"
    PROVE  WInv'
<1>1. WTyped' /\ CookiesPaired' /\ UndisturbedInJar' /\ CarriedPaired'
  BY DEF WInv, web, WTyped, CookiesPaired, UndisturbedInJar, CarriedPaired
<1>2. CarriedUndisturbed' /\ AnsweredWereSent'
  BY DEF WInv, web, CarriedUndisturbed, AnsweredWereSent
<1>3. ExchangesOwnVerifier' /\ UndisturbedLoginAccepted' /\ FormActsAsShown'
  BY DEF WInv, web, ExchangesOwnVerifier, UndisturbedLoginAccepted, FormActsAsShown
<1> QED
  BY <1>1, <1>2, <1>3 DEF WInv

\* The cookies a login's answer stores are its own, and the only ones.
LEMMA LoginCookiesStored ==
    ASSUME WInv, NEW r \in Logins, LoginCookies(r)
    PROVE  /\ jar' \in [Paths -> Cookies]
           /\ jar'["mount"].state = r /\ jar'["mount"].verifier = r
           /\ jar'["root"].state = None /\ jar'["root"].verifier = None
<1>1. jar["mount"] \in Cookies
  BY DEF WInv, WTyped, Paths
<1>2. [jar["mount"] EXCEPT !.state = r, !.verifier = r] \in Cookies
  BY <1>1 DEF Cookies
<1>3. NoCookies \in Cookies /\ NoCookies.state = None /\ NoCookies.verifier = None
  BY DEF NoCookies, Cookies
<1>4. /\ jar'["mount"] = [jar["mount"] EXCEPT !.state = r, !.verifier = r]
      /\ jar'["root"] = NoCookies
      /\ jar' \in [Paths -> Cookies]
  BY <1>2, <1>3 DEF LoginCookies, Paths
<1>5. jar'["mount"].state = r /\ jar'["mount"].verifier = r
  BY <1>1, <1>4 DEF Cookies
<1> QED
  BY <1>3, <1>4, <1>5

\* Login answers with a redirect: all earlier logins are disturbed.
LEMMA LoginAnswersKeeps == \A r : WInv /\ LoginAnswers(r) => WInv'
<1> SUFFICES ASSUME NEW r, WInv, LoginAnswers(r) PROVE WInv'
  OBVIOUS
<1>0. r \in Logins /\ r \in Requests /\ request' = request
  BY LoginAssumption DEF LoginAnswers, vars
<1>1. /\ jar' \in [Paths -> Cookies]
      /\ jar'["mount"].state = r /\ jar'["mount"].verifier = r
      /\ jar'["root"].state = None /\ jar'["root"].verifier = None
  BY <1>0, LoginCookiesStored DEF LoginAnswers
<1>2. WTyped'
  BY <1>0, <1>1 DEF LoginAnswers, Answered, WInv, WTyped, Answers
<1>3. CookiesPaired' /\ UndisturbedInJar'
  BY <1>1 DEF CookiesPaired, UndisturbedInJar, Paths, LoginAnswers
<1>4. CarriedPaired' /\ CarriedUndisturbed' /\ ExchangesOwnVerifier' /\ FormActsAsShown'
  BY <1>0 DEF LoginAnswers, WInv, CarriedPaired, CarriedUndisturbed, ExchangesOwnVerifier,
              FormActsAsShown
<1>5. AnsweredWereSent' /\ UndisturbedLoginAccepted'
  BY <1>0 DEF LoginAnswers, Answered, Serving, WInv, WTyped, AnsweredWereSent,
              UndisturbedLoginAccepted
<1> QED
  BY <1>2, <1>3, <1>4, <1>5 DEF WInv

\* Answers other than a redirect or a session leave the cookies alone.
LEMMA LoginLostKeeps == \A r : WInv /\ LoginLost(r) => WInv'
<1> SUFFICES ASSUME NEW r, WInv, LoginLost(r) PROVE WInv'
  OBVIOUS
<1>0. r \in Requests /\ request' = request
  BY LoginAssumption DEF LoginLost, vars
<1>1. WTyped' /\ CookiesPaired' /\ UndisturbedInJar'
  BY <1>0 DEF LoginLost, Answered, WInv, WTyped, Answers, CookiesPaired, UndisturbedInJar
<1>2. CarriedPaired' /\ CarriedUndisturbed' /\ ExchangesOwnVerifier' /\ FormActsAsShown'
  BY <1>0 DEF LoginLost, WInv, CarriedPaired, CarriedUndisturbed, ExchangesOwnVerifier,
              FormActsAsShown
<1>3. AnsweredWereSent' /\ UndisturbedLoginAccepted'
  BY <1>0 DEF LoginLost, Answered, Serving, WInv, WTyped, AnsweredWereSent,
              UndisturbedLoginAccepted
<1> QED
  BY <1>1, <1>2, <1>3 DEF WInv

\* The cookies of a request come from one path for both names, and are those
\* of any undisturbed login.
LEMMA CookiesSent ==
    ASSUME WInv, NEW first \in Paths
    PROVE  /\ Cookie(first, "state") \in Logins \cup {None, Stale}
           /\ Cookie(first, "state") = Cookie(first, "verifier")
           /\ \A l \in sent \ disturbed : Cookie(first, "state") = l
<1>1. \A p \in Paths : jar[p].state \in Logins \cup {None, Stale} /\ jar[p].state = jar[p].verifier
  BY DEF WInv, WTyped, CookiesPaired, Cookies
<1>2. PICK other \in Paths : other # first /\ other = CHOOSE p \in Paths : p # first
  BY DEF Paths
<1>3. \A p \in Paths : p = first \/ p = other
  BY <1>2 DEF Paths
<1>4. /\ Cookie(first, "state") = IF jar[first].state # None THEN jar[first].state ELSE jar[other].state
      /\ Cookie(first, "verifier") = IF jar[first].verifier # None THEN jar[first].verifier
                                     ELSE jar[other].verifier
  BY <1>2 DEF Cookie
<1>5. ASSUME NEW l \in sent \ disturbed PROVE Cookie(first, "state") = l
  <2>1. jar["mount"].state = l /\ jar["root"].state = None /\ l # None
    BY LoginAssumption DEF WInv, UndisturbedInJar, WTyped
  <2> QED
    BY <1>2, <1>4, <2>1 DEF Paths
<1> QED
  BY <1>1, <1>4, <1>5

\* A callback carries the cookies of the moment it is sent.
LEMMA SendCallbackKeeps ==
    \A r, login, first : IInv /\ WInv /\ first \in Paths /\ SendCallback(r, login, first) => WInv'
<1> SUFFICES ASSUME NEW r, NEW login, NEW first \in Paths, IInv, WInv,
                    SendCallback(r, login, first)
             PROVE  WInv'
  OBVIOUS
<1> DEFINE c == [login |-> login, state |-> Cookie(first, "state"),
                 verifier |-> Cookie(first, "verifier")]
<1>0. /\ r \in Callbacks /\ r \in Requests /\ login \in sent
      /\ request[r].pc = "new"
      /\ carried' = [carried EXCEPT ![r] = c]
      /\ UNCHANGED <<jar, sent, answer, exchanged, disturbed, performed>>
  BY LoginAssumption DEF SendCallback, Arrive
<1>1. /\ c \in Carried /\ c.state = c.verifier /\ c.login = login
      /\ login \notin disturbed => c.state = login
  BY <1>0, CookiesSent DEF WInv, WTyped, Carried
<1> HIDE DEF c
<1>2. /\ request'[r].pc = "entering"
      /\ \A q \in Requests : q # r => request'[q] = request[q]
  <2>1. TypeOK /\ Goto(r, "entering", NoChannel, 0)
    BY DEF SendCallback, Arrive, IInv
  <2>2. request'[r] = [pc |-> "entering", done |-> NoChannel, due |-> 0]
    BY <1>0, <2>1, GotoEffect
  <2> QED
    BY <1>0, <2>1, <2>2, GotoEffect
<1>3. /\ carried'[r] = c
      /\ \A q \in Callbacks : q # r => carried'[q] = carried[q]
      /\ carried' \in [Callbacks -> Carried]
  BY <1>0, <1>1 DEF WInv, WTyped
<1>4. WTyped' /\ CookiesPaired' /\ UndisturbedInJar' /\ ExchangesOwnVerifier' /\ FormActsAsShown'
  BY <1>0, <1>3 DEF WInv, WTyped, CookiesPaired, UndisturbedInJar, ExchangesOwnVerifier,
                    FormActsAsShown
<1>5. CarriedPaired'
  BY <1>1, <1>3 DEF WInv, CarriedPaired
<1>6. CarriedUndisturbed'
  BY <1>0, <1>1, <1>2, <1>3, LoginAssumption DEF WInv, WTyped, CarriedUndisturbed
<1>7. answer[r] = None
  BY <1>0 DEF WInv, AnsweredWereSent
<1>8. AnsweredWereSent'
  BY <1>0, <1>2 DEF WInv, AnsweredWereSent
<1>9. UndisturbedLoginAccepted'
  BY <1>0, <1>3, <1>7, LoginAssumption DEF WInv, UndisturbedLoginAccepted, Answers
<1> QED
  BY <1>4, <1>5, <1>6, <1>8, <1>9 DEF WInv

\* A callback refused as invalid carried other cookies than its login's.
LEMMA CallbackRejectsKeeps == \A r : WInv /\ CallbackRejects(r) => WInv'
<1> SUFFICES ASSUME NEW r, WInv, CallbackRejects(r) PROVE WInv'
  OBVIOUS
<1>0. r \in Callbacks /\ r \in Requests /\ request' = request /\ request[r].pc # "new"
  BY LoginAssumption DEF CallbackRejects, Serving, vars
<1>1. WTyped' /\ CookiesPaired' /\ UndisturbedInJar'
  BY <1>0 DEF CallbackRejects, Answered, WInv, WTyped, Answers, CookiesPaired, UndisturbedInJar
<1>2. CarriedPaired' /\ CarriedUndisturbed' /\ ExchangesOwnVerifier' /\ FormActsAsShown'
  BY <1>0 DEF CallbackRejects, WInv, CarriedPaired, CarriedUndisturbed, ExchangesOwnVerifier,
              FormActsAsShown
<1>3. AnsweredWereSent'
  BY <1>0 DEF CallbackRejects, Answered, WInv, WTyped, AnsweredWereSent
<1>4. carried[r].login \in disturbed
  BY <1>0, LoginAssumption
  DEF CallbackRejects, StateMatches, WInv, CarriedPaired, CarriedUndisturbed
<1>5. UndisturbedLoginAccepted'
  BY <1>0, <1>4, LoginAssumption
  DEF CallbackRejects, Answered, WInv, WTyped, UndisturbedLoginAccepted
<1> QED
  BY <1>1, <1>2, <1>3, <1>5 DEF WInv

\* A callback that gets as far as the exchange uses its own login's verifier.
LEMMA ExchangeOwn ==
    \A r \in Callbacks : WInv /\ Exchange(carried[r]) => ExchangesOwnVerifier'
BY DEF Exchange, StateMatches, WInv, CarriedPaired, ExchangesOwnVerifier

\* A callback that is refused leaves the other logins alone.
LEMMA CallbackFailsKeeps == \A r : WInv /\ CallbackFails(r) => WInv'
<1> SUFFICES ASSUME NEW r, WInv, CallbackFails(r) PROVE WInv'
  OBVIOUS
<1>0. r \in Callbacks /\ r \in Requests /\ request' = request /\ request[r].pc # "new"
  BY LoginAssumption DEF CallbackFails, Serving, vars
<1>1. WTyped' /\ CookiesPaired' /\ UndisturbedInJar'
  BY <1>0 DEF CallbackFails, Answered, WInv, WTyped, Answers, CookiesPaired, UndisturbedInJar
<1>2. CarriedPaired' /\ CarriedUndisturbed' /\ FormActsAsShown'
  BY <1>0 DEF CallbackFails, WInv, CarriedPaired, CarriedUndisturbed, FormActsAsShown
<1>3. AnsweredWereSent' /\ UndisturbedLoginAccepted'
  BY <1>0 DEF CallbackFails, Answered, WInv, WTyped, AnsweredWereSent, UndisturbedLoginAccepted
<1>4. ExchangesOwnVerifier'
  BY <1>0, ExchangeOwn DEF CallbackFails
<1> QED
  BY <1>1, <1>2, <1>3, <1>4 DEF WInv

\* The session cookie of a callback clears all others: every login so far is
\* disturbed.
LEMMA CallbackAnswersKeeps == \A r, who : IInv /\ WInv /\ who \in People /\ CallbackAnswers(r, who) => WInv'
<1> SUFFICES ASSUME NEW r, NEW who \in People, IInv, WInv, CallbackAnswers(r, who) PROVE WInv'
  OBVIOUS
<1>0. r \in Callbacks /\ r \in Requests /\ request' = request /\ request[r].pc # "new"
  BY LoginAssumption DEF CallbackAnswers, Serving, vars
<1>1. Issue(who) \in [who : People, expires : Nat]
  BY LoginAssumption DEF Issue, IInv, TypeOK
<1> DEFINE m == [NoCookies EXCEPT !.session = Issue(who)]
<1>2. /\ NoCookies \in Cookies /\ m \in Cookies
      /\ NoCookies.state = NoCookies.verifier /\ m.state = m.verifier
  BY <1>1 DEF NoCookies, Cookies
<1>a. jar' = [root |-> NoCookies, mount |-> m]
  BY DEF CallbackAnswers
<1> HIDE DEF m
<1>3. /\ jar' \in [Paths -> Cookies]
      /\ \A p \in Paths : jar'[p].state = jar'[p].verifier
  BY <1>2, <1>a DEF Paths
<1>4. WTyped' /\ CookiesPaired' /\ UndisturbedInJar'
  BY <1>0, <1>3 DEF CallbackAnswers, Answered, WInv, WTyped, Answers, CookiesPaired,
                    UndisturbedInJar
<1>5. CarriedPaired' /\ CarriedUndisturbed' /\ FormActsAsShown'
  BY <1>0 DEF CallbackAnswers, WInv, CarriedPaired, CarriedUndisturbed, FormActsAsShown
<1>6. AnsweredWereSent' /\ UndisturbedLoginAccepted'
  BY <1>0 DEF CallbackAnswers, Answered, WInv, WTyped, AnsweredWereSent, UndisturbedLoginAccepted
<1>7. ExchangesOwnVerifier'
  BY <1>0, ExchangeOwn DEF CallbackAnswers
<1> QED
  BY <1>4, <1>5, <1>6, <1>7 DEF WInv

\* A step that replaces the cookies, in pairs, and disturbs all logins.
LEMMA CookiesReplaced ==
    ASSUME WInv, jar' \in [Paths -> Cookies],
           \A p \in Paths : jar'[p].state = jar'[p].verifier,
           disturbed' = disturbed \cup sent,
           UNCHANGED <<vars, sent, carried, answer, exchanged, performed>>
    PROVE  WInv'
<1>1. WTyped' /\ CookiesPaired' /\ UndisturbedInJar'
  BY DEF WInv, WTyped, CookiesPaired, UndisturbedInJar
<1>2. CarriedPaired' /\ CarriedUndisturbed' /\ AnsweredWereSent'
  BY DEF WInv, CarriedPaired, CarriedUndisturbed, AnsweredWereSent, vars
<1>3. ExchangesOwnVerifier' /\ UndisturbedLoginAccepted' /\ FormActsAsShown'
  BY DEF WInv, ExchangesOwnVerifier, UndisturbedLoginAccepted, FormActsAsShown
<1> QED
  BY <1>1, <1>2, <1>3 DEF WInv

\* The browser drops its cookies.
LEMMA CookiesExpireKeeps == WInv /\ CookiesExpire => WInv'
<1> SUFFICES ASSUME WInv, CookiesExpire PROVE WInv'
  OBVIOUS
<1>1. jar["mount"] \in Cookies /\ jar["root"] \in Cookies /\ jar["root"].state = jar["root"].verifier
  BY DEF WInv, WTyped, CookiesPaired, Paths
<1> DEFINE m == [jar["mount"] EXCEPT !.state = None, !.verifier = None]
<1>2. m \in Cookies /\ m.state = None /\ m.verifier = None
  BY <1>1 DEF Cookies
<1>3. jar' = [jar EXCEPT !["mount"] = m]
  BY DEF CookiesExpire, WInv, WTyped, Paths
<1> HIDE DEF m
<1>4. jar' \in [Paths -> Cookies] /\ \A p \in Paths : jar'[p].state = jar'[p].verifier
  BY <1>1, <1>2, <1>3 DEF WInv, WTyped, Paths
<1> QED
  BY <1>4, CookiesReplaced DEF CookiesExpire

\* A logout ends the session, whichever cookie it meets first.
LEMMA LogoutKeeps == \A first : WInv /\ Logout(first) => WInv'
<1> SUFFICES ASSUME NEW first, WInv, Logout(first) PROVE WInv'
  OBVIOUS
<1>1. NoCookies \in Cookies /\ NoCookies.state = NoCookies.verifier
  BY DEF NoCookies, Cookies
<1>2. jar' \in [Paths -> Cookies] /\ \A p \in Paths : jar'[p].state = jar'[p].verifier
  BY <1>1 DEF Logout
<1> QED
  BY <1>2, CookiesReplaced DEF Logout

\* A page is rendered or a form sent: only the form's outcome can matter, and
\* its token ties the page to the session that sends it.
LEMMA PageKeeps == \A first : WInv /\ (RenderPage(first) \/ SubmitForm(first)) => WInv'
<1> SUFFICES ASSUME NEW first, WInv, RenderPage(first) \/ SubmitForm(first) PROVE WInv'
  OBVIOUS
<1>0. UNCHANGED <<vars, jar, sent, carried, answer, exchanged, disturbed>>
  BY DEF RenderPage, SubmitForm
<1>1. WTyped' /\ CookiesPaired' /\ UndisturbedInJar'
  BY <1>0 DEF WInv, WTyped, CookiesPaired, UndisturbedInJar
<1>2. CarriedPaired' /\ CarriedUndisturbed' /\ AnsweredWereSent'
  BY <1>0 DEF WInv, CarriedPaired, CarriedUndisturbed, AnsweredWereSent, vars
<1>3. ExchangesOwnVerifier' /\ UndisturbedLoginAccepted'
  BY <1>0 DEF WInv, ExchangesOwnVerifier, UndisturbedLoginAccepted
<1>4. FormActsAsShown'
  BY DEF RenderPage, SubmitForm, validCSRFToken, WInv, FormActsAsShown
<1> QED
  BY <1>1, <1>2, <1>3, <1>4 DEF WInv

-----------------------------------------------------------------------------

\* What an older deployment may have left at the root is a pair of cookies too.
LEMMA LoginInitInv == LoginInit => IInv /\ WInv
<1> SUFFICES ASSUME LoginInit PROVE IInv /\ WInv
  OBVIOUS
<1>1. IInv
  BY InitInvariant DEF LoginInit
<1>2. PICK s \in {None, Stale}, old \in {None, OldSession} :
         jar = [mount |-> NoCookies, root |-> [state |-> s, verifier |-> s, session |-> old]]
  BY DEF LoginInit
<1>3. /\ NoCookies \in Cookies /\ NoCookies.state = NoCookies.verifier
      /\ [state |-> s, verifier |-> s, session |-> old] \in Cookies
  BY DEF NoCookies, Cookies
<1>4. jar \in [Paths -> Cookies] /\ CookiesPaired
  BY <1>2, <1>3 DEF Paths, CookiesPaired
<1>5. WTyped
  BY <1>4 DEF LoginInit, WTyped, Carried
<1>6. \A r \in Requests : request[r].pc = "new"
  BY DEF LoginInit, Init
<1>7. UndisturbedInJar /\ CarriedPaired /\ CarriedUndisturbed /\ AnsweredWereSent
  BY <1>6, LoginAssumption DEF LoginInit, UndisturbedInJar, CarriedPaired, CarriedUndisturbed,
                               AnsweredWereSent
<1>8. ExchangesOwnVerifier /\ UndisturbedLoginAccepted /\ FormActsAsShown
  BY LoginAssumption DEF LoginInit, ExchangesOwnVerifier, UndisturbedLoginAccepted,
                         FormActsAsShown, Answers
<1> QED
  BY <1>1, <1>4, <1>5, <1>7, <1>8 DEF WInv

\* Both invariants hold throughout signing in and out, in any number of tabs,
\* with restarts of the process in between.
THEOREM LoginInvariant == LoginSpec => [](IInv /\ WInv)
<1>1. LoginInit => IInv /\ WInv
  BY LoginInitInv
<1>2. IInv /\ WInv /\ [LoginNext]_loginVars => (IInv /\ WInv)'
  <2> SUFFICES ASSUME IInv, WInv, [LoginNext]_loginVars PROVE WInv'
    BY LoginKeepsDiscovery
  <2>1. CASE Discovering
    BY <2>1, DiscoveryKeepsSent, WebUntouched, LoginAssumption DEF Discovering, IInv
  <2>2. CASE Restart
    <3>1. \A q \in Requests : request'[q].pc = "new" <=> request[q].pc = "new"
      BY <2>2 DEF Restart
    <3> QED
      BY <2>2, <3>1, WebUntouched, LoginAssumption DEF Restart
  <2>3. ASSUME NEW r \in Logins, SendLogin(r) PROVE WInv'
    <3>1. TypeOK /\ r \in Requests /\ Goto(r, "entering", NoChannel, 0) /\ UNCHANGED web
      BY <2>3, LoginAssumption DEF SendLogin, Arrive, IInv
    <3>2. request'[r] = [pc |-> "entering", done |-> NoChannel, due |-> 0]
      BY <3>1, GotoEffect
    <3>3. \A q \in Requests : q # r => request'[q] = request[q]
      BY <3>1, GotoEffect
    <3> QED
      BY <3>1, <3>2, <3>3, WebUntouched, LoginAssumption
  <2>4. CASE UNCHANGED loginVars
    BY <2>4, WebUntouched, LoginAssumption DEF loginVars, vars
  <2> QED
    BY <2>1, <2>2, <2>3, <2>4, LoginAnswersKeeps, LoginLostKeeps, SendCallbackKeeps,
       CallbackRejectsKeeps, CallbackFailsKeeps, CallbackAnswersKeeps, CookiesExpireKeeps,
       PageKeeps, LogoutKeeps
    DEF LoginNext
<1> QED
  BY <1>1, <1>2, PTL DEF LoginSpec

\* One discovery at a time, also with restarts in between (handler.go 251-262).
THEOREM LoginSingleFlight == LoginSpec => []SingleFlight
<1>1. IInv => SingleFlight
  BY DEF IInv, OneRunner
<1> QED
  BY <1>1, LoginInvariant, PTL

\* No waiter is forgotten, also with restarts in between (handler.go 251-279).
THEOREM LoginNoWaiterForgotten == LoginSpec => []NoWaiterForgotten
<1>1. IInv => NoWaiterForgotten
  BY DEF IInv, OneRunner, SingleFlight, Running, WaitersServed, NoWaiterForgotten
<1> QED
  BY <1>1, LoginInvariant, PTL

\* The provider is left alone after a failure, also with restarts in between: a
\* restarted process starts counting again (handler.go 246, 304-315).
THEOREM LoginQuietAfterFailure == LoginSpec => []QuietAfterFailure
<1>1. LoginInit => QInv
  BY InitInvariant, InitBackoff DEF LoginInit, QInv
<1>2. QInv /\ [LoginNext]_loginVars => QInv'
  BY LoginKeepsDiscovery, LoginKeepsBackoff DEF QInv
<1> QED
  BY <1>1, <1>2, BackoffIsQuiet, PTL DEF LoginSpec

\* A code is exchanged with its own login's verifier, whatever other tabs do to
\* the cookies while the callback waits (handler.go 123-171).
THEOREM ExchangesOwnVerifierHolds == LoginSpec => []ExchangesOwnVerifier
<1>1. WInv => ExchangesOwnVerifier
  BY DEF WInv
<1> QED
  BY <1>1, LoginInvariant, PTL

\* Only a login after which other cookies were stored can be refused as an
\* invalid state (handler.go 99-106, 123-135).
THEOREM UndisturbedLoginAcceptedHolds == LoginSpec => []UndisturbedLoginAccepted
<1>1. WInv => UndisturbedLoginAccepted
  BY DEF WInv
<1> QED
  BY <1>1, LoginInvariant, PTL

\* A form acts as the person its page shows (csrf.go 26-65).
THEOREM FormActsAsShownHolds == LoginSpec => []FormActsAsShown
<1>1. WInv => FormActsAsShown
  BY DEF WInv
<1> QED
  BY <1>1, LoginInvariant, PTL

-----------------------------------------------------------------------------
(* The pages of a history, and the dashboard. *)

\* The reader's page is one the handler serves, and was read in the past.
PTyped ==
    /\ total \in Nat /\ known \in Nat /\ known <= total
    /\ openPage \in Nat /\ openPage >= 1 /\ openPage <= maxHistoryPage
    /\ seen \subseteq Int /\ newest \in Int

\* Sessions that ended after the last one on the open page, page by page back
\* to where the reading started, have been seen ...
SeenSincePage == \A s \in Nat : s >= 1 /\ s <= newest /\ s > known - openPage * pageSize => s \in seen

\* ... and so have those between any session seen and that start.
SeenUpwards == \A a \in seen : \A s \in Nat : a <= s /\ s <= newest => s \in seen

SeenPositive == \A a \in seen : a >= 1

PInv == PTyped /\ SeenSincePage /\ SeenUpwards /\ SeenPositive

-----------------------------------------------------------------------------
(* Arithmetic of pages. *)

\* Division as the code rounds it up.
LEMMA DivisionFacts ==
    ASSUME NEW a \in Nat, NEW b \in Nat \ {0}
    PROVE  /\ a \div b \in Nat
           /\ b * (a \div b) <= a
           /\ a < b * (a \div b) + b
  OBVIOUS

\* The sessions before page p, and before the page after it.
LEMMA PageOffset ==
    ASSUME NEW p \in Nat, p >= 1
    PROVE  /\ p * pageSize \in Nat /\ (p - 1) * pageSize \in Nat
           /\ p * pageSize = (p - 1) * pageSize + pageSize
           /\ (p + 1) * pageSize = p * pageSize + pageSize
           /\ ((p + 1) - 1) * pageSize = p * pageSize
  BY PaginationAssumption

\* Products grow with their first factor.
LEMMA ProductGrows ==
    ASSUME NEW p \in Nat, NEW q \in Nat, NEW k \in Nat, p <= q
    PROVE  p * k <= q * k
  OBVIOUS

\* There are no more pages than it takes to hold all sessions.
LEMMA PagesFilled ==
    ASSUME NEW n \in Nat, NEW p \in Nat, p >= 1, p <= TotalPages(n), TotalPages(n) > 1
    PROVE  (p - 1) * pageSize < n
<1>1. n # 0
  BY DEF TotalPages
<1>2. /\ n + pageSize - 1 \in Nat /\ pageSize \in Nat \ {0}
      /\ TotalPages(n) = (n + pageSize - 1) \div pageSize
  BY <1>1, PaginationAssumption DEF TotalPages
<1> DEFINE t == TotalPages(n)
<1>3. t \in Nat /\ pageSize * t <= n + pageSize - 1
  BY <1>2, DivisionFacts
<1>4. p * pageSize <= t * pageSize
  BY <1>2, <1>3, ProductGrows
<1>5. t * pageSize = pageSize * t
  BY <1>2, <1>3
<1> QED
  BY <1>2, <1>3, <1>4, <1>5, PageOffset

\* The number of pages is a number.
LEMMA TotalPagesType == \A n \in Nat : TotalPages(n) \in Nat
<1> SUFFICES ASSUME NEW n \in Nat PROVE TotalPages(n) \in Nat
  OBVIOUS
<1>1. n + pageSize - 1 \in Nat /\ pageSize \in Nat \ {0}
  BY PaginationAssumption
<1> QED
  BY <1>1, DivisionFacts DEF TotalPages

\* parseHistoryPage answers with a page the handler serves.
LEMMA ParsedPage ==
    ASSUME NEW raw \in Nat
    PROVE  /\ parseHistoryPage(raw) \in Nat
           /\ parseHistoryPage(raw) >= 1 /\ parseHistoryPage(raw) <= maxHistoryPage
           /\ raw >= 1 => parseHistoryPage(raw) <= raw
           /\ raw >= 1 /\ raw <= maxHistoryPage => parseHistoryPage(raw) = raw
           /\ raw > maxHistoryPage => parseHistoryPage(raw) = maxHistoryPage
  BY PaginationAssumption DEF parseHistoryPage

\* What page p of n sessions shows.
LEMMA ShownIs ==
    ASSUME NEW p \in Nat, p >= 1, NEW n \in Nat, NEW s \in Int
    PROVE  s \in Shown(p, n) <=>
               s >= 1 /\ s <= n - (p - 1) * pageSize /\ s > n - p * pageSize
  BY PageOffset, PaginationAssumption DEF Shown

\* A page that starts below the number of sessions is not empty.
LEMMA ShownNotEmpty ==
    ASSUME NEW p \in Nat, p >= 1, NEW n \in Nat, (p - 1) * pageSize < n
    PROVE  Shown(p, n) # {}
<1>1. (p - 1) * pageSize \in Nat /\ p * pageSize = (p - 1) * pageSize + pageSize
  BY PageOffset
<1>2. n - (p - 1) * pageSize \in Int
  BY <1>1
<1>3. n - (p - 1) * pageSize \in Shown(p, n)
  BY <1>1, <1>2, ShownIs, PaginationAssumption
<1> QED
  BY <1>3

\* The window of links lies inside the pages, has the current page's
\* neighbours, and the last page when the reader is beyond it.
LEMMA WindowOfLinks ==
    ASSUME NEW p \in Nat, p >= 1, NEW pages \in Nat, pages > 1
    PROVE  /\ historyPageLinks(p, pages) \subseteq 1 .. pages
           /\ p > pages => pages \in historyPageLinks(p, pages)
           /\ p < pages => p + 1 \in historyPageLinks(p, pages)
           /\ p > 1 /\ p <= pages => p - 1 \in historyPageLinks(p, pages)
  BY PaginationAssumption DEF historyPageLinks

-----------------------------------------------------------------------------
(* Paging *)

\* A reading that starts on page p has seen that page.
LEMMA StartKeeps ==
    ASSUME PInv, NEW p \in Nat, p >= 1, p <= maxHistoryPage, Read(p), Start(p)
    PROVE  PInv'
<1>1. /\ openPage' = p /\ known' = total /\ total' = total
      /\ seen' = Shown(p, total) /\ newest' = total - (p - 1) * pageSize
  BY DEF Read, Start
<1>2. /\ p * pageSize \in Nat /\ (p - 1) * pageSize \in Nat
      /\ p * pageSize = (p - 1) * pageSize + pageSize
  BY PageOffset
<1>3. total \in Nat /\ Shown(p, total) \subseteq Int
  BY DEF PInv, PTyped, Shown
<1>4. \A s \in Int : s \in seen' <=> s >= 1 /\ s <= newest' /\ s > known' - openPage' * pageSize
  BY <1>1, <1>3, ShownIs
<1>5. PTyped'
  BY <1>1, <1>2, <1>3 DEF PTyped
<1>6. known' - openPage' * pageSize \in Int
  BY <1>1, <1>2, <1>3
<1>7. SeenSincePage' /\ SeenPositive'
  BY <1>1, <1>3, <1>4 DEF SeenSincePage, SeenPositive
<1>8. SeenUpwards'
  BY <1>1, <1>3, <1>4, <1>5, <1>6 DEF SeenUpwards, PTyped
<1> QED
  BY <1>5, <1>7, <1>8 DEF PInv

\* The following page continues the reading without a gap: sessions that ended
\* since the page was read have only moved others onto the following one.
\* Beyond the largest page the handler serves the same page comes again.
LEMMA ContinueKeeps ==
    ASSUME PInv, NEW p \in Nat, p >= 1, p <= maxHistoryPage, p = openPage \/ p = openPage + 1,
           Read(p), Continue(p)
    PROVE  PInv'
<1>1. /\ openPage' = p /\ known' = total /\ total' = total
      /\ seen' = seen \cup Shown(p, total) /\ newest' = newest
  BY DEF Read, Continue
<1>2. /\ total \in Nat /\ known \in Nat /\ known <= total /\ newest \in Int
      /\ openPage \in Nat /\ openPage >= 1 /\ seen \subseteq Int
      /\ Shown(p, total) \subseteq Int
  BY DEF PInv, PTyped, Shown
<1>3. /\ p * pageSize \in Nat /\ (p - 1) * pageSize \in Nat /\ openPage * pageSize \in Nat
      /\ p * pageSize = (p - 1) * pageSize + pageSize
      /\ (p - 1) * pageSize <= openPage * pageSize
  <2>1. /\ p * pageSize \in Nat /\ (p - 1) * pageSize \in Nat /\ openPage * pageSize \in Nat
        /\ p * pageSize = (p - 1) * pageSize + pageSize
    BY <1>2, PageOffset
  <2>2. p - 1 \in Nat /\ p - 1 <= openPage /\ pageSize \in Nat
    BY <1>2, PaginationAssumption
  <2> QED
    BY <1>2, <2>1, <2>2, ProductGrows
<1>4. \A s \in Int : s \in Shown(p, total) <=>
          s >= 1 /\ s <= total - (p - 1) * pageSize /\ s > total - p * pageSize
  BY <1>2, ShownIs
<1>5. \A s \in Nat : s >= 1 /\ s <= newest /\ s > total - p * pageSize => s \in seen'
  <2> SUFFICES ASSUME NEW s \in Nat, s >= 1, s <= newest, s > total - p * pageSize
               PROVE  s \in seen'
    OBVIOUS
  <2>1. CASE s <= total - (p - 1) * pageSize
    BY <1>1, <1>4, <2>1
  <2>2. CASE s > total - (p - 1) * pageSize
    BY <1>1, <1>2, <1>3, <2>2 DEF PInv, SeenSincePage
  <2> QED
    BY <1>2, <1>3, <2>1, <2>2
<1>6. PTyped'
  <2>1. total' \in Nat /\ known' \in Nat /\ known' <= total' /\ newest' \in Int
    BY <1>1, <1>2
  <2>2. openPage' \in Nat /\ openPage' >= 1 /\ openPage' <= maxHistoryPage
    BY <1>1
  <2>3. seen' \subseteq Int
    BY <1>1, <1>2
  <2> QED
    BY <2>1, <2>2, <2>3 DEF PTyped
<1>7. SeenSincePage' /\ SeenPositive'
  BY <1>1, <1>2, <1>4, <1>5 DEF SeenSincePage, SeenPositive, PInv
<1>8. SeenUpwards'
  <2> SUFFICES ASSUME NEW a \in seen', NEW s \in Nat, a <= s, s <= newest
               PROVE  s \in seen'
    BY <1>1 DEF SeenUpwards
  <2>1. CASE a \in seen
    BY <1>1, <2>1 DEF PInv, SeenUpwards
  <2>2. CASE a \in Shown(p, total)
    <3>1. a \in Int /\ a >= 1 /\ a > total - p * pageSize
      BY <1>2, <1>4, <2>2
    <3>2. s >= 1 /\ s > total - p * pageSize
      BY <1>2, <1>3, <3>1
    <3> QED
      BY <1>5, <3>2
  <2> QED
    BY <1>1, <2>1, <2>2
<1> QED
  BY <1>6, <1>7, <1>8 DEF PInv

\* Opening a page by its number keeps the reader's part of the invariant.
LEMMA OpenKeeps == \A raw \in Nat : PInv /\ Open(raw) => PInv'
  BY ParsedPage, StartKeeps DEF Open

\* So does following a link of the page on the screen.
LEMMA FollowKeeps == \A link \in Nat : link >= 1 /\ PInv /\ Follow(link) => PInv'
<1> SUFFICES ASSUME NEW link \in Nat, link >= 1, PInv, Follow(link) PROVE PInv'
  OBVIOUS
<1> DEFINE p == parseHistoryPage(link)
<1>1. p \in Nat /\ p >= 1 /\ p <= maxHistoryPage
  BY ParsedPage
<1>2. CASE link = openPage + 1
  <2>1. p = openPage \/ p = openPage + 1
    BY <1>2, ParsedPage, PaginationAssumption DEF PInv, PTyped
  <2>2. Read(p) /\ Continue(p)
    BY <1>2 DEF Follow
  <2> HIDE DEF p
  <2> QED
    BY <1>1, <2>1, <2>2, ContinueKeeps
<1>3. CASE link # openPage + 1
  <2>1. Read(p) /\ Start(p)
    BY <1>3 DEF Follow
  <2> HIDE DEF p
  <2> QED
    BY <1>1, <2>1, StartKeeps
<1> QED
  BY <1>2, <1>3

\* A session that ends moves what the pages hold, and keeps what is promised.
LEMMA SessionEndsKeeps == PInv /\ SessionEnds => PInv'
  BY DEF SessionEnds, PInv, PTyped, SeenSincePage, SeenUpwards, SeenPositive

\* Before the first page is opened there is nothing to keep.
LEMMA PInitInv == ReaderInit => PInv
  BY PaginationAssumption DEF ReaderInit, PInv, PTyped, SeenSincePage, SeenUpwards, SeenPositive

-----------------------------------------------------------------------------
(* The dashboard *)

\* How far the page has been put together, and from what.
DTyped ==
    /\ isAdmin \in BOOLEAN
    /\ status \in [Sticks -> Statuses]
    /\ subscribed \subseteq Sticks
    /\ at \in {"history", "archived", "subscriptions", "shown"}
    /\ at = "archived" => isAdmin

ShownActive(s) == Cards(s) = Rows({s} \cap {x \in Sticks : status[x] # "archived"})

ShownArchived(s) ==
    Restorable(s) = IF isAdmin THEN Rows({s} \cap {x \in Sticks : status[x] = "archived"}) ELSE {}

ShownSubscribed(s) == CardSubscribed(s) <=> (status[s] = "other" /\ s \in subscribed)

\* Each read is still right of the sticks nobody touched.
ReadsRight ==
    \A s \in Sticks \ touched :
        /\ at # "history" => ShownActive(s)
        /\ at = "subscriptions" \/ at = "shown" => ShownArchived(s)
        /\ at = "shown" => ShownSubscribed(s)

DInv == PInv /\ DTyped /\ ReadsRight

-----------------------------------------------------------------------------

\* A row of a stick as it is.
LEMMA RowsOfOne ==
    ASSUME NEW s \in Sticks, NEW S \in SUBSET Sticks
    PROVE  {row \in Rows(S) : row[1] = s} = Rows({s} \cap S)
  BY DEF Rows

\* A step that leaves the page being put together alone and touches a stick
\* leaves the others as they are.
LEMMA TouchKeeps ==
    ASSUME DInv, NEW t \in Sticks, Touch(t), UNCHANGED <<readerVars, isAdmin, at, board>>,
           status' \in [Sticks -> Statuses], subscribed' \subseteq Sticks,
           \A s \in Sticks \ {t} : status'[s] = status[s] /\ (s \in subscribed' <=> s \in subscribed)
    PROVE  DInv'
<1>1. PInv'
  BY DEF DInv, PInv, PTyped, SeenSincePage, SeenUpwards, SeenPositive, readerVars
<1>2. DTyped'
  BY DEF DInv, DTyped
<1>3. ASSUME NEW s \in Sticks \ touched', at # "history"
      PROVE  s \in Sticks \ touched /\ s # t /\ status'[s] = status[s]
             /\ (s \in subscribed' <=> s \in subscribed)
  BY <1>3 DEF Touch
<1>4. ASSUME NEW s \in Sticks, status'[s] = status[s]
      PROVE  /\ Rows({s} \cap {x \in Sticks : status[x] # "archived"})'
                 = Rows({s} \cap {x \in Sticks : status[x] # "archived"})
             /\ Rows({s} \cap {x \in Sticks : status[x] = "archived"})'
                 = Rows({s} \cap {x \in Sticks : status[x] = "archived"})
  BY <1>4 DEF Rows
<1>5. ASSUME NEW s \in Sticks \ touched', at # "history"
      PROVE  /\ ShownActive(s)' <=> ShownActive(s)
             /\ ShownArchived(s)' <=> ShownArchived(s)
             /\ ShownSubscribed(s)' <=> ShownSubscribed(s)
  <2>1. UNCHANGED <<isAdmin, active, archived, mine>>
    BY DEF board
  <2>2. Cards(s)' = Cards(s) /\ Restorable(s)' = Restorable(s)
    BY <2>1 DEF Cards, Restorable
  <2>3. CardSubscribed(s)' <=> CardSubscribed(s)
    BY <2>1 DEF CardSubscribed
  <2>4. ShownActive(s)' <=> ShownActive(s)
    <3>1. Rows({s} \cap {x \in Sticks : status[x] # "archived"})'
             = Rows({s} \cap {x \in Sticks : status[x] # "archived"})
      BY <1>3, <1>4, <1>5
    <3> QED
      BY <2>2, <3>1 DEF ShownActive
  <2>5. ShownArchived(s)' <=> ShownArchived(s)
    <3>1. Rows({s} \cap {x \in Sticks : status[x] = "archived"})'
             = Rows({s} \cap {x \in Sticks : status[x] = "archived"})
      BY <1>3, <1>4, <1>5
    <3> QED
      BY <2>1, <2>2, <3>1 DEF ShownArchived
  <2>6. ShownSubscribed(s)' <=> ShownSubscribed(s)
    BY <1>3, <1>5, <2>3 DEF ShownSubscribed
  <2> QED
    BY <2>4, <2>5, <2>6
<1>6. ReadsRight'
  BY <1>3, <1>5 DEF DInv, ReadsRight
<1> QED
  BY <1>1, <1>2, <1>6 DEF DInv

\* Somebody changes a stick: its card is out of date from then on.
LEMMA ChangeKeeps == \A s \in Sticks : DInv /\ Change(s) => DInv'
<1> SUFFICES ASSUME NEW s \in Sticks, DInv, Change(s) PROVE DInv'
  OBVIOUS
<1>1. PICK to \in Statuses : status' = [status EXCEPT ![s] = to]
  BY DEF Change
<1>2. /\ status' \in [Sticks -> Statuses]
      /\ \A x \in Sticks \ {s} : status'[x] = status[x]
  BY <1>1 DEF DInv, DTyped
<1> QED
  BY <1>2, TouchKeeps DEF Change, DInv, DTyped

\* The reader's own subscription changes elsewhere.
LEMMA ChangeSubscriptionKeeps == \A s \in Sticks : DInv /\ ChangeSubscription(s) => DInv'
<1> SUFFICES ASSUME NEW s \in Sticks, DInv, ChangeSubscription(s) PROVE DInv'
  OBVIOUS
<1>1. /\ subscribed' \subseteq Sticks
      /\ \A x \in Sticks \ {s} : x \in subscribed' <=> x \in subscribed
  BY DEF ChangeSubscription, DInv, DTyped
<1> QED
  BY <1>1, TouchKeeps DEF ChangeSubscription, DInv, DTyped

\* The first read: active sticks.
LEMMA StartDashboardKeeps == DInv /\ StartDashboard => DInv'
<1> SUFFICES ASSUME DInv, StartDashboard PROVE DInv'
  OBVIOUS
<1>1. PInv'
  BY PaginationAssumption
  DEF StartDashboard, DInv, PInv, PTyped, SeenSincePage, SeenUpwards, SeenPositive
<1>2. DTyped'
  BY DEF StartDashboard, DInv, DTyped, tables
<1>3. active' = Rows({x \in Sticks : status[x] # "archived"}) /\ status' = status
  BY DEF StartDashboard, ListSticks, tables
<1>4. \A s \in Sticks : ShownActive(s)'
  BY <1>3, RowsOfOne DEF ShownActive, Cards, Rows
<1>5. \A s \in Sticks : at' = "subscriptions" => ShownArchived(s)'
  BY DEF StartDashboard, ShownArchived, Restorable
<1>6. at' # "shown"
  BY DEF StartDashboard
<1> QED
  BY <1>1, <1>2, <1>4, <1>5, <1>6 DEF DInv, ReadsRight

\* The second read: archived sticks, for administrators.
LEMMA ReadArchivedKeeps == DInv /\ ReadArchived => DInv'
<1> SUFFICES ASSUME DInv, ReadArchived PROVE DInv'
  OBVIOUS
<1>1. PInv'
  BY DEF ReadArchived, DInv, PInv, PTyped, SeenSincePage, SeenUpwards, SeenPositive, readerVars
<1>2. DTyped' /\ isAdmin
  BY DEF ReadArchived, DInv, DTyped, tables
<1>3. /\ archived' = Rows({x \in Sticks : status[x] = "archived"})
      /\ UNCHANGED <<status, isAdmin, active, touched>> /\ at # "history" /\ at' = "subscriptions"
  BY DEF ReadArchived, ListArchivedSticks, tables
<1>4. \A s \in Sticks : ShownArchived(s)'
  BY <1>2, <1>3, RowsOfOne DEF ShownArchived, Restorable, Rows
<1>5. \A s \in Sticks \ touched' : ShownActive(s)'
  BY <1>3 DEF DInv, ReadsRight, ShownActive, Cards, Rows
<1> QED
  BY <1>1, <1>2, <1>3, <1>4, <1>5 DEF DInv, ReadsRight

\* The last read: the reader's subscriptions, unless no card needs them.
LEMMA ReadSubscriptionsKeeps == DInv /\ ReadSubscriptions => DInv'
<1> SUFFICES ASSUME DInv, ReadSubscriptions PROVE DInv'
  OBVIOUS
<1>1. PInv'
  BY DEF ReadSubscriptions, DInv, PInv, PTyped, SeenSincePage, SeenUpwards, SeenPositive, readerVars
<1>2. DTyped'
  BY DEF ReadSubscriptions, DInv, DTyped, tables
<1>3. /\ UNCHANGED <<status, subscribed, isAdmin, active, archived, touched>>
      /\ at = "subscriptions" /\ at' = "shown"
      /\ mine' = IF needsSubscriptionViewState(active) THEN SubscribedStickIDs ELSE {}
  BY DEF ReadSubscriptions, tables
<1>4. \A s \in Sticks \ touched' : ShownActive(s)' /\ ShownArchived(s)'
  BY <1>3 DEF DInv, ReadsRight, ShownActive, ShownArchived, Cards, Restorable, Rows
<1>5. ASSUME NEW s \in Sticks \ touched' PROVE ShownSubscribed(s)'
  <2>1. Cards(s) = Rows({s} \cap {x \in Sticks : status[x] # "archived"})
    BY <1>3 DEF DInv, ReadsRight, ShownActive
  <2>2. <<s, "other">> \in active <=> status[s] = "other"
    BY <2>1 DEF Cards, Rows
  <2>3. <<s, "other">> \in active => needsSubscriptionViewState(active)
    BY DEF needsSubscriptionViewState
  <2>4. CardSubscribed(s)' <=> <<s, "other">> \in active /\ s \in mine'
    BY <1>3 DEF CardSubscribed
  <2> QED
    BY <1>3, <2>2, <2>3, <2>4 DEF ShownSubscribed, SubscribedStickIDs
<1> QED
  BY <1>1, <1>2, <1>3, <1>4, <1>5 DEF DInv, ReadsRight

\* Steps of the history pages leave the dashboard blank, or as it is.
LEMMA PagingKeeps ==
    ASSUME DInv, PInv', UNCHANGED <<isAdmin, tables>>,
           \/ at' = "history"
           \/ UNCHANGED <<at, board, touched>>
    PROVE  DInv'
<1>1. DTyped'
  BY DEF DInv, DTyped, tables
<1>2. CASE at' = "history"
  BY <1>1, <1>2 DEF DInv, ReadsRight
<1>3. CASE UNCHANGED <<at, board, touched>>
  <2>1. UNCHANGED <<isAdmin, status, subscribed, at, active, archived, mine, touched>>
    BY <1>3 DEF tables, board
  <2>2. \A s \in Sticks : ShownActive(s)' <=> ShownActive(s)
    BY <2>1 DEF ShownActive, Cards, Rows
  <2>3. \A s \in Sticks : ShownArchived(s)' <=> ShownArchived(s)
    BY <2>1 DEF ShownArchived, Restorable, Rows
  <2>4. \A s \in Sticks : ShownSubscribed(s)' <=> ShownSubscribed(s)
    BY <2>1 DEF ShownSubscribed, CardSubscribed
  <2>5. ReadsRight'
    BY <2>1, <2>2, <2>3, <2>4 DEF DInv, ReadsRight
  <2> QED
    BY <1>1, <2>5 DEF DInv
<1> QED
  BY <1>2, <1>3

\* The invariant of pages and dashboard holds throughout.
THEOREM DashboardInvariant == DashboardSpec => []DInv
<1>1. DashboardInit => DInv
  <2> SUFFICES ASSUME DashboardInit PROVE DInv
    OBVIOUS
  <2>1. DTyped
    BY DEF DashboardInit, DTyped, Statuses
  <2> QED
    BY <2>1, PInitInv DEF DashboardInit, DInv, ReadsRight
<1>2. DInv /\ [DashboardNext]_dashboardVars => DInv'
  <2> SUFFICES ASSUME DInv, [DashboardNext]_dashboardVars PROVE DInv'
    OBVIOUS
  <2>1. CASE HistoryGrows
    BY <2>1, SessionEndsKeeps, PagingKeeps DEF HistoryGrows, DInv
  <2>2. CASE Paging
    <3>1. PInv'
      BY <2>2, OpenKeeps, FollowKeeps, PaginationAssumption DEF Paging, DInv
    <3> QED
      BY <2>2, <3>1, PagingKeeps DEF Paging
  <2>3. CASE OpenDetail
    BY <2>3, OpenKeeps, PagingKeeps DEF OpenDetail, DInv
  <2>4. CASE ReadFails
    <3>1. PInv'
      BY <2>4 DEF ReadFails, DInv, PInv, PTyped, SeenSincePage, SeenUpwards, SeenPositive, readerVars
    <3> QED
      BY <2>4, <3>1, PagingKeeps DEF ReadFails
  <2>5. CASE UNCHANGED dashboardVars
    <3>1. PInv'
      BY <2>5 DEF dashboardVars, DInv, PInv, PTyped, SeenSincePage, SeenUpwards, SeenPositive,
                  readerVars
    <3> QED
      BY <2>5, <3>1, PagingKeeps DEF dashboardVars
  <2> QED
    BY <2>1, <2>2, <2>3, <2>4, <2>5, StartDashboardKeeps, ReadArchivedKeeps,
       ReadSubscriptionsKeeps, ChangeKeeps, ChangeSubscriptionKeeps
    DEF DashboardNext
<1> QED
  BY <1>1, <1>2, PTL DEF DashboardSpec

\* No link of a page, however old, leads to an empty page
\* (pagination.go, historyPageLinks).
THEOREM LinkedPagesHaveSessionsHolds == DashboardSpec => []LinkedPagesHaveSessions
<1>1. DInv => LinkedPagesHaveSessions
  <2> SUFFICES ASSUME DInv, NEW link \in Links(openPage, known)
               PROVE  Shown(parseHistoryPage(link), total) # {}
    BY DEF LinkedPagesHaveSessions
  <2> DEFINE p == parseHistoryPage(link)
  <2>1. /\ known \in Nat /\ total \in Nat /\ known <= total /\ openPage \in Nat /\ openPage >= 1
        /\ TotalPages(known) \in Nat
    BY TotalPagesType DEF DInv, PInv, PTyped
  <2>2. TotalPages(known) > 1 /\ link \in historyPageLinks(openPage, TotalPages(known))
    BY <2>1 DEF Links
  <2>3. link \in 1 .. TotalPages(known)
    BY <2>1, <2>2, WindowOfLinks
  <2>4. p \in Nat /\ p >= 1 /\ p <= TotalPages(known)
    BY <2>1, <2>3, ParsedPage
  <2> HIDE DEF p
  <2>5. (p - 1) * pageSize < known
    BY <2>1, <2>2, <2>4, PagesFilled
  <2>6. (p - 1) * pageSize < total
    BY <2>1, <2>4, <2>5, PageOffset
  <2>7. Shown(p, total) # {}
    BY <2>1, <2>4, <2>6, ShownNotEmpty
  <2> QED
    BY <2>7 DEF p
<1> QED
  BY <1>1, DashboardInvariant, PTL

\* From any page, by links alone, every other page that the handler serves is
\* reached: some link always leads to one nearer to it (pagination.go,
\* historyPageLinks and parseHistoryPage).
THEOREM LinksConvergeHolds == DashboardSpec => []LinksConverge
<1>1. DInv => LinksConverge
  <2> DEFINE pages == TotalPages(known)
  <2> SUFFICES ASSUME DInv, pages > 1, NEW wanted \in 1 .. Lesser(pages, maxHistoryPage),
                      wanted # openPage
               PROVE  \E link \in Links(openPage, known) :
                          Distance(parseHistoryPage(link), wanted) < Distance(openPage, wanted)
    BY DEF LinksConverge
  <2>1. /\ known \in Nat /\ openPage \in Nat /\ openPage >= 1 /\ openPage <= maxHistoryPage
        /\ pages \in Nat /\ maxHistoryPage \in Nat
    BY TotalPagesType, PaginationAssumption DEF DInv, PInv, PTyped
  <2>2. Links(openPage, known) = historyPageLinks(openPage, pages)
    BY DEF Links
  <2>3. wanted \in Nat /\ wanted >= 1 /\ wanted <= pages /\ wanted <= maxHistoryPage
    BY <2>1 DEF Lesser
  <2> HIDE DEF pages
  <2>4. ASSUME NEW link \in Nat, link >= 1, link <= maxHistoryPage
        PROVE  parseHistoryPage(link) = link
    BY <2>4, ParsedPage
  <2>5. CASE openPage > pages
    <3>1. pages \in Links(openPage, known)
      BY <2>1, <2>2, <2>5, WindowOfLinks
    <3>2. parseHistoryPage(pages) = pages
      BY <2>1, <2>4, <2>5
    <3> QED
      BY <2>1, <2>3, <2>5, <3>1, <3>2 DEF Distance
  <2>6. CASE openPage <= pages /\ wanted > openPage
    <3>1. openPage + 1 \in Links(openPage, known)
      BY <2>1, <2>2, <2>3, <2>6, WindowOfLinks
    <3>2. parseHistoryPage(openPage + 1) = openPage + 1
      BY <2>1, <2>3, <2>4, <2>6
    <3> QED
      BY <2>1, <2>3, <2>6, <3>1, <3>2 DEF Distance
  <2>7. CASE openPage <= pages /\ wanted < openPage
    <3>1. openPage - 1 \in Links(openPage, known) /\ openPage > 1
      BY <2>1, <2>2, <2>3, <2>7, WindowOfLinks
    <3>2. parseHistoryPage(openPage - 1) = openPage - 1
      BY <2>1, <2>4, <3>1
    <3> QED
      BY <2>1, <2>3, <2>7, <3>1, <3>2 DEF Distance
  <2> QED
    BY <2>1, <2>3, <2>5, <2>6, <2>7
<1> QED
  BY <1>1, DashboardInvariant, PTL

\* Reading page after page misses no session, although others end meanwhile
\* (renderStickDetail's offsets and the LIMIT/OFFSET query).
THEOREM ReadingHasNoGapHolds == DashboardSpec => []ReadingHasNoGap
<1>1. DInv => ReadingHasNoGap
  <2> SUFFICES ASSUME DInv, NEW a \in seen, NEW b \in seen, NEW s \in a .. b, s <= newest
               PROVE  s \in seen
    BY DEF ReadingHasNoGap
  <2>1. a \in Int /\ b \in Int /\ a >= 1
    BY DEF DInv, PInv, PTyped, SeenPositive
  <2>2. s \in Nat /\ a <= s
    BY <2>1
  <2> QED
    BY <2>2 DEF DInv, PInv, SeenUpwards
<1> QED
  BY <1>1, DashboardInvariant, PTL

\* Although its reads see different moments, the dashboard shows every stick
\* nobody touched once and as it is (internal/web/dashboard/handler.go 35-62).
THEOREM UntouchedShownRightHolds == DashboardSpec => []UntouchedShownRight
<1>1. DInv => UntouchedShownRight
  BY DEF DInv, ReadsRight, ShownActive, ShownArchived, ShownSubscribed, UntouchedShownRight
<1> QED
  BY <1>1, DashboardInvariant, PTL
=============================================================================
