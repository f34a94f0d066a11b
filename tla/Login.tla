-------------------------------- MODULE Login --------------------------------
(***************************************************************************)
(* Signing in and out (internal/web/auth/handler.go), the session check and *)
(* the form check in front of every page (internal/web/security), on top of *)
(* the shared discovery of module OIDCDiscovery.                            *)
(*                                                                          *)
(* All tabs of a browser share one cookie jar.  A request carries the       *)
(* cookies of the moment it is sent, may then wait for the discovery, and   *)
(* the cookies of its answer are stored when the answer arrives, so the     *)
(* logins, callbacks and logouts of several tabs overwrite each other's     *)
(* cookies in any order.  The application is mounted below the root, and    *)
(* the browser may still have cookies of an older deployment at the root:   *)
(* it then sends two cookies of one name, and the server reads the first.   *)
(*                                                                          *)
(* The state and the verifier of a login are fresh random values, named     *)
(* here by the request that made them.                                      *)
(***************************************************************************)
EXTENDS OIDCDiscovery

CONSTANTS Logins,      \* requests for /auth/login
          Callbacks,   \* requests for /auth/callback
          People,      \* who signs in at the provider
          SessionTTL,
          None,
          MaxRestarts  \* bound: times the process is restarted

\* How Login and Callback answer.
Answers == {"redirected", "lost", "badRequest", "failed", "session"}

ASSUME LoginAssumption ==
    /\ Requests = Logins \cup Callbacks /\ Logins \cap Callbacks = {}
    /\ None \notin Logins \cup Answers
    /\ SessionTTL \in Nat \ {0} /\ MaxRestarts \in Nat

VARIABLES jar,        \* the browser's cookies at each path
          sent,       \* logins whose redirect reached the browser
          spent,      \* codes the provider has exchanged
          carried,    \* what a callback request carries
          answer,     \* how Login and Callback answered
          restarts,
          page,       \* the page a tab shows: session it was rendered for
          \* history
          exchanged,  \* the exchanges: the code's login and the verifier used
          disturbed,  \* logins after which other cookies were stored
          performed   \* the latest form that passed: page's and sender's identity

web == <<jar, sent, spent, carried, answer, page, exchanged, disturbed, performed>>
loginVars == <<vars, web, restarts>>

Paths == {"root", "mount"}

Stale == "stale"   \* state and verifier left by an older deployment

\* ... and a session that is still valid, of anybody.
OldSession == [who |-> CHOOSE p \in People : TRUE, expires |-> SessionTTL]

NoCookies == [state |-> None, verifier |-> None, session |-> None]

\* An older deployment at the root may have left cookies of either kind.
LoginInit ==
    /\ Init
    /\ \E s \in {None, Stale}, old \in {None, OldSession} :
           jar = [mount |-> NoCookies,
                  root |-> [state |-> s, verifier |-> s, session |-> old]]
    /\ sent = {} /\ spent = {}
    /\ carried = [r \in Callbacks |-> [login |-> None, state |-> None, verifier |-> None]]
    /\ answer = [r \in Requests |-> None]
    /\ page = None
    /\ restarts = 0
    /\ exchanged = {} /\ disturbed = {} /\ performed = None

\* r.Cookie(name) when the browser lists the cookies of path first.
Cookie(first, name) ==
    IF jar[first][name] # None THEN jar[first][name]
    ELSE jar[CHOOSE p \in Paths : p # first][name]

\* Discovery steps of a request leave the browser alone.
Discovering ==
    /\ \/ Tick
       \/ \E r \in Requests :
              \/ ReturnProvider(r) \/ ReturnLastError(r) \/ Wait(r) \/ StartDiscovery(r)
              \/ Wake(r) \/ Cancel(r) \/ DiscoverySucceeds(r) \/ DiscoveryFails(r)
    /\ UNCHANGED <<web, restarts>>

\* The process is restarted: the discovered provider is forgotten and the
\* requests in progress are dropped; the browser keeps its cookies.
Restart ==
    /\ restarts < MaxRestarts
    /\ restarts' = restarts + 1
    /\ provider' = FALSE /\ discoveryDone' = NoChannel
    /\ lastDiscoveryErr' = FALSE /\ retryDiscoveryAt' = 0 /\ failureBackoff' = 0
    /\ request' = [r \in Requests |->
           IF request[r].pc = "new" THEN request[r]
           ELSE [pc |-> "error", done |-> NoChannel, due |-> 0]]
    /\ failures' = 0
    /\ UNCHANGED <<clock, made, closed, lastFailure, web>>

\* The request is about to be answered; each is answered once.
Serving(r) == request[r].pc = "ok" /\ answer[r] = None

Answered(r, how) == answer' = [answer EXCEPT ![r] = how]

-----------------------------------------------------------------------------
(* Login *)

SendLogin(r) == r \in Logins /\ Arrive(r) /\ UNCHANGED <<web, restarts>>

\* Mutant: cookies of the older deployment are left alone.
LoginCookiesMountOnly(r) ==
    jar' = [jar EXCEPT !.mount.state = r, !.mount.verifier = r]

LoginCookies(r) ==
    jar' = [root |-> NoCookies,
            mount |-> [jar.mount EXCEPT !.state = r, !.verifier = r]]

\* The answer stores the cookies and sends the browser to the provider.
LoginAnswers(r) ==
    /\ r \in Logins /\ Serving(r)
    /\ LoginCookies(r)
    /\ sent' = sent \cup {r}
    /\ disturbed' = disturbed \cup sent
    /\ Answered(r, "redirected")
    /\ UNCHANGED <<vars, restarts, spent, carried, page, exchanged, performed>>

\* No randomness, or the browser has gone: nothing is stored.
LoginLost(r) ==
    /\ r \in Logins /\ Serving(r)
    /\ Answered(r, "lost")
    /\ UNCHANGED <<vars, restarts, jar, sent, spent, carried, page, exchanged, disturbed, performed>>

-----------------------------------------------------------------------------
(* Callback *)

\* The provider sends the browser back with the state and the code of a
\* login; the user may load that address again.
SendCallback(r, login, first) ==
    /\ r \in Callbacks
    /\ login \in sent
    /\ Arrive(r)
    /\ carried' = [carried EXCEPT ![r] =
           [login |-> login, state |-> Cookie(first, "state"),
            verifier |-> Cookie(first, "verifier")]]
    /\ UNCHANGED <<restarts, jar, sent, spent, answer, page, exchanged, disturbed, performed>>

\* Mutant: the state of the query is not compared with the cookie.
AnyState(c) == c.state # None

StateMatches(c) == c.state = c.login

CallbackRejects(r) ==
    /\ r \in Callbacks /\ Serving(r)
    /\ ~StateMatches(carried[r]) \/ carried[r].verifier = None
    /\ Answered(r, "badRequest")
    /\ UNCHANGED <<vars, restarts, jar, sent, spent, carried, page, exchanged, disturbed, performed>>

\* The provider takes a code once, from the holder of its verifier.
Exchange(c) ==
    /\ StateMatches(c) /\ c.verifier # None
    /\ exchanged' = exchanged \cup {[code |-> c.login, verifier |-> c.verifier]}

\* Exchange, ID token, claims or signing fail; or the browser has gone when
\* the answer comes.
CallbackFails(r) ==
    /\ r \in Callbacks /\ Serving(r)
    /\ Exchange(carried[r])
    /\ \/ UNCHANGED spent
       \/ spent' = spent \cup {carried[r].login}
    /\ Answered(r, "failed")
    /\ UNCHANGED <<vars, restarts, jar, sent, carried, page, disturbed, performed>>

Issue(who) == [who |-> who, expires |-> clock + SessionTTL]

CallbackAnswers(r, who) ==
    /\ r \in Callbacks /\ Serving(r)
    /\ Exchange(carried[r])
    /\ carried[r].verifier = carried[r].login /\ carried[r].login \notin spent
    /\ spent' = spent \cup {carried[r].login}
    /\ jar' = [root |-> NoCookies,
               mount |-> [NoCookies EXCEPT !.session = Issue(who)]]
    /\ disturbed' = disturbed \cup sent
    /\ Answered(r, "session")
    /\ UNCHANGED <<vars, restarts, sent, carried, page, performed>>

\* The cookies of a login expire after ten minutes.
CookiesExpire ==
    /\ jar.mount.state # None
    /\ jar' = [jar EXCEPT !.mount.state = None, !.mount.verifier = None]
    /\ disturbed' = disturbed \cup sent
    /\ UNCHANGED <<vars, restarts, sent, spent, carried, answer, page, exchanged, performed>>

-----------------------------------------------------------------------------
(* Pages and forms *)

\* Verify of RequireAuth; without a valid session the answer is a redirect to
\* the login, which changes nothing.
Valid(session) == session # None /\ clock < session.expires

RenderPage(first) ==
    /\ Valid(Cookie(first, "session"))
    /\ page' = Cookie(first, "session")
    /\ UNCHANGED <<vars, restarts, jar, sent, spent, carried, answer, exchanged, disturbed, performed>>

\* Mutant: the token is not bound to the session cookie.
AnyToken(shown, session) == session # None

\* The token of a page is the MAC of the session it was rendered for.
validCSRFToken(shown, session) == session # None /\ shown = session

\* A form that is not accepted leaves the tab on an error page.
SubmitForm(first) ==
    LET session == Cookie(first, "session") IN
    /\ page # None
    /\ page' = None
    /\ \/ /\ Valid(session) /\ validCSRFToken(page, session)
          /\ performed' = [shown |-> page.who, actor |-> session.who]
       \/ /\ ~(Valid(session) /\ validCSRFToken(page, session))
          /\ UNCHANGED performed
    /\ UNCHANGED <<vars, restarts, jar, sent, spent, carried, answer, exchanged, disturbed>>

\* Logout is behind the form check but not behind the session check.
Logout(first) ==
    /\ page # None
    /\ validCSRFToken(page, Cookie(first, "session"))
    /\ page' = None
    /\ jar' = [p \in Paths |-> NoCookies]
    /\ disturbed' = disturbed \cup sent
    /\ UNCHANGED <<vars, restarts, sent, spent, carried, answer, exchanged, performed>>

LoginNext ==
    \/ Discovering \/ Restart
    \/ \E r \in Logins : SendLogin(r) \/ LoginAnswers(r) \/ LoginLost(r)
    \/ \E r \in Callbacks, login \in Logins, first \in Paths : SendCallback(r, login, first)
    \/ \E r \in Callbacks : CallbackRejects(r) \/ CallbackFails(r)
    \/ \E r \in Callbacks, who \in People : CallbackAnswers(r, who)
    \/ CookiesExpire
    \/ \E first \in Paths : RenderPage(first) \/ SubmitForm(first) \/ Logout(first)

LoginSpec == LoginInit /\ [][LoginNext]_loginVars /\ Fairness

-----------------------------------------------------------------------------
(* Properties *)

\* A code is exchanged only with the verifier of the login that asked for it,
\* although the logins, callbacks and logouts of other tabs replace and clear
\* the cookies while a callback waits: state and verifier are stored, sent and
\* cleared together (handler.go 105-106, 123-135, 171).
ExchangesOwnVerifier == \A e \in exchanged : e.code = e.verifier

\* A login that was not disturbed, that is, after which no other login,
\* callback or logout of this browser stored cookies and its own have not
\* expired, is never refused as an invalid state, whatever an older
\* deployment left behind and however long the callback waits for the
\* provider ("Without this, a browser can send both the stale Path=/ cookie
\* and the current mounted cookie", handler.go 99-101).
UndisturbedLoginAccepted ==
    \A r \in Callbacks :
        answer[r] = "badRequest" => carried[r].login \in disturbed

\* A form is performed as the person its page was rendered for, although
\* another tab may have signed out and somebody else in between, or an older
\* deployment's session is sent beside the current one (csrf.go 26-30, 65).
FormActsAsShown == performed # None => performed.shown = performed.actor
=============================================================================
