---------------------------- MODULE StickService -----------------------------
(***************************************************************************)
(* The use cases of internal/application/service.go, driven by browsers     *)
(* through the handlers of internal/web/sticks.                             *)
(*                                                                          *)
(* A client is one browser tab.  It loads a detail page with separate reads *)
(* (the stick, then its history, then the subscription state), and submits  *)
(* forms that carry the version of the stick on the page.  A handler takes  *)
(* its timestamp first and runs its transaction later, so any number of     *)
(* other transactions may commit between the page, the submission and the   *)
(* transaction.  A transaction is one step: every check, the compare-and-   *)
(* swap of SaveStick and the work that follows commit or roll back          *)
(* together.                                                                *)
(***************************************************************************)
EXTENDS StickCore, OutboxStore

CONSTANTS Clients,    \* browser tabs
          UserOf,     \* the identity a tab is signed in with
          Admins,     \* identities in the configured admin set
          MaxClock,   \* bound: largest time a run reaches
          MaxToken    \* bound: tokens a run hands out

ASSUME ServiceAssumption ==
    /\ UserOf \in [Clients -> Users]
    /\ Admins \subseteq Users
    /\ MaxClock \in Nat
    /\ MaxToken \in Nat

VARIABLES sticks,     \* the sticks table, NoStick where there is no row
          sessions,   \* the sessions table in id order
          clock,      \* time.Now of the server
          pc,         \* where each client's current request stands
          request,    \* the form each client is waiting on
          view        \* what each client's page shows

tables == <<sticks, sessions>>
clients == <<pc, request, view>>
vars == <<outboxVars, tables, clients, clock>>

IsAdmin(c) == UserOf[c] \in Admins

AdminOps == {"rename", "archive", "unarchive"}
Ops == AdminOps \cup {"claim", "release", "subscribe", "unsubscribe"}

\* A row of the sessions table; releasedAt is NoTime while the session is open.
NoTime == -1

Session == [stick : StickIDs, holder : Users, claimedAt : Nat, releasedAt : Nat \cup {NoTime}]

\* A submitted form: what it asks, the version hidden in it, the text the
\* user typed (a name, or whether the claim reason is valid), and the time
\* the handler read.
Request == [op : Ops, stick : StickIDs \cup {NULL}, version : 0..MaxVersion,
            name : Names \cup {NULL}, reasonValid : BOOLEAN, at : Nat]

NoRequest == [op |-> "claim", stick |-> NULL, version |-> 0, name |-> NULL,
              reasonValid |-> FALSE, at |-> 0]

\* A detail page: the stick, the completed sessions listed under it, and
\* whether the viewer is shown as subscribed.  A blank page has no stick.
View == [stick : StickIDs \cup {NULL}, state : Stick, history : SUBSET Nat,
         subscribed : BOOLEAN]

BlankView == [stick |-> NULL, state |-> NoStick, history |-> {}, subscribed |-> FALSE]

TypeOK ==
    /\ OutboxTypeOK
    /\ sticks \in [StickIDs -> Stick]
    /\ sessions \in Seq(Session)
    /\ clock \in Nat
    /\ pc \in [Clients -> {"idle", "submitted", "rerender", "check_history",
                           "get_history", "get_subscriptions"}]
    /\ request \in [Clients -> Request]
    /\ view \in [Clients -> View]

Init ==
    /\ OutboxInit
    /\ sticks = [id \in StickIDs |-> NoStick]
    /\ sessions = <<>>
    /\ clock = 0
    /\ pc = [c \in Clients |-> "idle"]
    /\ request = [c \in Clients |-> NoRequest]
    /\ view = [c \in Clients |-> BlankView]

-----------------------------------------------------------------------------
(* The sessions table. *)

OpenSessions(id) ==
    {n \in DOMAIN sessions : sessions[n].stick = id /\ sessions[n].releasedAt = NoTime}

CompletedSessions(id) ==
    {n \in DOMAIN sessions : sessions[n].stick = id /\ sessions[n].releasedAt # NoTime}

\* Mutant: the unique index is not restricted to open sessions.
CreateSessionOnce(id) == ErrorIf(\E n \in DOMAIN sessions : sessions[n].stick = id, "internal")

\* The unique index on open sessions per stick makes the insert fail.
CreateSessionError(id) == ErrorIf(OpenSessions(id) # {}, "internal")

CreateSession(id, user, at) ==
    sessions' = Append(sessions, [stick |-> id, holder |-> user, claimedAt |-> at,
                                  releasedAt |-> NoTime])

ClosingSessions(id, user) == {n \in OpenSessions(id) : sessions[n].holder = user}

\* The update must affect exactly one row.
CloseSessionError(id, user) ==
    ErrorIf(~ \E n \in OpenSessions(id) : ClosingSessions(id, user) = {n}, "internal")

\* Mutant: a release leaves the session open.
CloseSessionForgotten(id, user, at) == UNCHANGED sessions

CloseSession(id, user, at) ==
    sessions' = [n \in DOMAIN sessions |->
                    IF n \in ClosingSessions(id, user)
                      THEN [sessions[n] EXCEPT !.releasedAt = at]
                      ELSE sessions[n]]

-----------------------------------------------------------------------------
(* Loading a detail page: three reads, each seeing the tables of its moment. *)

\* getVisibleStick: archived sticks exist for administrators only.
Visible(c, id) == sticks[id].version > 0 /\ (sticks[id].archived => IsAdmin(c))

ShowPage(c, next, v) ==
    /\ pc' = [pc EXCEPT ![c] = next]
    /\ view' = [view EXCEPT ![c] = v]
    /\ request' = [request EXCEPT ![c] = NoRequest]
    /\ UNCHANGED <<outboxVars, tables, clock>>

GetStick(c, id) ==
    \/ /\ Visible(c, id)
       /\ ShowPage(c, "check_history", [BlankView EXCEPT !.stick = id, !.state = sticks[id]])
    \/ /\ ~Visible(c, id)
       /\ ShowPage(c, "idle", BlankView)

Detail(c, id) == pc[c] = "idle" /\ GetStick(c, id)

RenderCurrentStickDetail(c) == pc[c] = "rerender" /\ GetStick(c, request[c].stick)

\* GetHistory checks visibility again, then reads.
CheckHistoryVisible(c) ==
    /\ pc[c] = "check_history"
    /\ \/ /\ Visible(c, view[c].stick)
          /\ ShowPage(c, "get_history", view[c])
       \/ /\ ~Visible(c, view[c].stick)
          /\ ShowPage(c, "idle", BlankView)

HeldByOther(v, user) == ~v.state.archived /\ ~Available(v.state) /\ v.state.holder # user

HeldByMe(v, user) == ~v.state.archived /\ ~Available(v.state) /\ v.state.holder = user

GetHistory(c) ==
    /\ pc[c] = "get_history"
    /\ ShowPage(c,
                IF HeldByOther(view[c], UserOf[c]) THEN "get_subscriptions" ELSE "idle",
                [view[c] EXCEPT !.history = CompletedSessions(view[c].stick)])

\* SubscribedStickIDs lists subscriptions of active sticks only.
SubscribedStickIDs(c) ==
    /\ pc[c] = "get_subscriptions"
    /\ LET id == view[c].stick IN
       ShowPage(c, "idle",
                [view[c] EXCEPT !.subscribed =
                    UserOf[c] \in Subscribers(id) /\ ~sticks[id].archived])

\* A read fails: an error page.
ReadFails(c) ==
    /\ pc[c] \in {"rerender", "check_history", "get_history", "get_subscriptions"}
    /\ ShowPage(c, "idle", BlankView)

-----------------------------------------------------------------------------
(* Submitting a form, and the answers a handler gives. *)

\* Mutant: a held stick can be archived from the page.
OfferedWhileHeld(v, user) ==
    {op \in Ops :
        \/ op = "claim"       /\ ~v.state.archived /\ Available(v.state)
        \/ op = "release"     /\ HeldByMe(v, user)
        \/ op = "subscribe"   /\ HeldByOther(v, user) /\ ~v.subscribed
        \/ op = "unsubscribe" /\ HeldByOther(v, user) /\ v.subscribed
        \/ op = "rename"      /\ user \in Admins
        \/ op = "archive"     /\ user \in Admins /\ ~v.state.archived
        \/ op = "unarchive"   /\ user \in Admins /\ v.state.archived}

\* The forms stickDetail puts on the page for the viewer.
Offered(v, user) ==
    {op \in Ops :
        \/ op = "claim"       /\ ~v.state.archived /\ Available(v.state)
        \/ op = "release"     /\ HeldByMe(v, user)
        \/ op = "subscribe"   /\ HeldByOther(v, user) /\ ~v.subscribed
        \/ op = "unsubscribe" /\ HeldByOther(v, user) /\ v.subscribed
        \/ op = "rename"      /\ user \in Admins
        \/ op = "archive"     /\ user \in Admins /\ ~v.state.archived /\ Available(v.state)
        \/ op = "unarchive"   /\ user \in Admins /\ v.state.archived}

\* Any form may be posted for the stick on the page, offered or not: the page
\* may be old, and nothing but the server decides.
Submit(c, op, name, reasonValid) ==
    /\ pc[c] = "idle"
    /\ view[c].stick # NULL
    /\ (op = "rename") <=> (name # NULL)
    /\ reasonValid => op = "claim"
    /\ request' = [request EXCEPT ![c] =
           [op |-> op, stick |-> view[c].stick, version |-> view[c].state.version,
            name |-> name, reasonValid |-> reasonValid,
            at |-> IF op \in {"claim", "release"} THEN clock ELSE 0]]
    /\ pc' = [pc EXCEPT ![c] = "submitted"]
    /\ UNCHANGED <<outboxVars, tables, clock, view>>

Handling(c, op) == pc[c] = "submitted" /\ request[c].op = op

\* Errors the handlers answer by showing the stick's current detail page; the
\* others are error pages.
Rerendered == {"ErrInvalidStickName", "ErrInvalidClaimReason", "ErrVersionConflict",
               "ErrVersionExhausted", "ErrHeld", "ErrAlreadyHeld", "ErrAlreadyArchived",
               "ErrNotArchived", "ErrNotHolder"}

Respond(c, err) ==
    /\ IF err \in Rerendered
         THEN /\ pc' = [pc EXCEPT ![c] = "rerender"]
              /\ request' = [request EXCEPT ![c] = [NoRequest EXCEPT !.stick = request[c].stick]]
         ELSE /\ pc' = [pc EXCEPT ![c] = "idle"]
              /\ request' = [request EXCEPT ![c] = NoRequest]
    /\ UNCHANGED <<clock, view>>

Reject(c, err) ==
    /\ err # "nil"
    /\ Respond(c, err)
    /\ UNCHANGED <<outboxVars, tables>>

\* The transaction itself fails (lost connection, cancelled request): it is
\* rolled back and answered with an error page.
TransactionFails(c) ==
    /\ pc[c] = "submitted"
    /\ Reject(c, "unavailable")

requireAdmin(c) == ErrorIf(~IsAdmin(c), "ErrForbidden")

\* Mutant: the version of the form is ignored.
VersionIgnored(c) == "nil"

VersionError(c) ==
    ErrorIf(sticks[request[c].stick].version # request[c].version, "ErrVersionConflict")

\* SaveStick: UPDATE ... WHERE id=? AND version=?.
SaveStick(id, stick) == sticks' = [sticks EXCEPT ![id] = stick]

Current(c) == sticks[request[c].stick]

-----------------------------------------------------------------------------
(* One action per mutation: handler, service method and transaction. *)

CreateStickError(c, name) == FirstError(requireAdmin(c), ValidateStickName(name))

\* A refused creation changes nothing.  The id is a fresh UUID.
CreateStick(c, id, name) ==
    /\ pc[c] = "idle"
    /\ CreateStickError(c, name) = "nil"
    /\ sticks[id].version = 0
    /\ sticks' = [sticks EXCEPT ![id] = NewStick(name)]
    /\ UNCHANGED <<outboxVars, sessions, clients, clock>>

RenameStickError(c) ==
    FirstError(requireAdmin(c),
    FirstError(ValidateStickName(request[c].name),
    FirstError(VersionError(c), RenameError(Current(c), request[c].name))))

RenameStick(c) ==
    LET r == request[c] IN
    /\ Handling(c, "rename")
    /\ \/ Reject(c, RenameStickError(c))
       \/ /\ RenameStickError(c) = "nil"
          /\ SaveStick(r.stick, Rename(Current(c), r.name))
          /\ Respond(c, "nil")
          /\ UNCHANGED <<outboxVars, sessions>>

ArchiveStickError(c) ==
    FirstError(requireAdmin(c), FirstError(VersionError(c), ArchiveError(Current(c))))

ArchiveStick(c) ==
    LET r == request[c] IN
    /\ Handling(c, "archive")
    /\ \/ Reject(c, ArchiveStickError(c))
       \/ /\ ArchiveStickError(c) = "nil"
          /\ SaveStick(r.stick, Archive(Current(c)))
          /\ Respond(c, "nil")
          /\ UNCHANGED <<outboxVars, sessions>>

UnarchiveStickError(c) ==
    FirstError(requireAdmin(c), FirstError(VersionError(c), UnarchiveError(Current(c))))

UnarchiveStick(c) ==
    LET r == request[c] IN
    /\ Handling(c, "unarchive")
    /\ \/ Reject(c, UnarchiveStickError(c))
       \/ /\ UnarchiveStickError(c) = "nil"
          /\ SaveStick(r.stick, Unarchive(Current(c)))
          /\ Respond(c, "nil")
          /\ UNCHANGED <<outboxVars, sessions>>

ClaimStickError(c) ==
    LET r == request[c] IN
    FirstError(ValidateClaimReason(r.reasonValid),
    FirstError(VersionError(c),
    FirstError(ClaimError(Current(c), r.reasonValid),
               CreateSessionError(r.stick))))

ClaimStick(c) ==
    LET r == request[c] IN
    /\ Handling(c, "claim")
    /\ \/ Reject(c, ClaimStickError(c))
       \/ /\ ClaimStickError(c) = "nil"
          /\ SaveStick(r.stick, Claim(Current(c), UserOf[c], r.at))
          /\ CreateSession(r.stick, UserOf[c], r.at)
          /\ Respond(c, "nil")
          /\ UNCHANGED outboxVars

ReleaseStickError(c) ==
    LET r == request[c] IN
    FirstError(VersionError(c),
    FirstError(ReleaseError(Current(c), UserOf[c]),
               CloseSessionError(r.stick, UserOf[c])))

ReleaseStick(c) ==
    LET r == request[c] IN
    /\ Handling(c, "release")
    /\ \/ Reject(c, ReleaseStickError(c))
       \/ /\ ReleaseStickError(c) = "nil"
          /\ SaveStick(r.stick, Release(Current(c)))
          /\ CloseSession(r.stick, UserOf[c], r.at)
          /\ EnqueueReleaseNotifications(r.stick, Current(c).claimedAt, r.at)
          /\ Respond(c, "nil")

SubscribeStick(c) ==
    /\ Handling(c, "subscribe")
    /\ \/ Reject(c, VersionError(c))
       \/ /\ VersionError(c) = "nil"
          /\ nextToken <= MaxToken
          /\ Subscribe(request[c].stick, UserOf[c])
          /\ Respond(c, "nil")
          /\ UNCHANGED tables

UnsubscribeStick(c) ==
    /\ Handling(c, "unsubscribe")
    /\ \/ Reject(c, VersionError(c))
       \/ /\ VersionError(c) = "nil"
          /\ Unsubscribe(request[c].stick, UserOf[c])
          /\ Respond(c, "nil")
          /\ UNCHANGED tables

Tick ==
    /\ clock < MaxClock
    /\ clock' = clock + 1
    /\ UNCHANGED <<outboxVars, tables, clients>>

ClientStep(c) ==
    \/ \E id \in StickIDs : Detail(c, id)
    \/ RenderCurrentStickDetail(c)
    \/ CheckHistoryVisible(c)
    \/ GetHistory(c)
    \/ SubscribedStickIDs(c)
    \/ ReadFails(c)
    \/ \E op \in Ops, name \in Names \cup {NULL}, valid \in BOOLEAN :
           Submit(c, op, name, valid)
    \/ TransactionFails(c)
    \/ \E id \in StickIDs, name \in Names : CreateStick(c, id, name)
    \/ RenameStick(c)
    \/ ArchiveStick(c)
    \/ UnarchiveStick(c)
    \/ ClaimStick(c)
    \/ ReleaseStick(c)
    \/ SubscribeStick(c)
    \/ UnsubscribeStick(c)

Next == Tick \/ \E c \in Clients : ClientStep(c)

Spec == Init /\ [][Next]_vars

-----------------------------------------------------------------------------
(* Properties *)

\* A stick is held exactly while it has an open session, of the same holder
\* since the same moment, and an archived stick is not held.  ClaimStick and
\* ReleaseStick write the two tables in one transaction (service.go 115-143);
\* the unique index and CHECK of the schema rely on it.
HolderMatchesSession ==
    \A id \in StickIDs :
        IF Available(sticks[id])
          THEN OpenSessions(id) = {}
          ELSE /\ ~sticks[id].archived
               /\ \E n \in DOMAIN sessions :
                      /\ OpenSessions(id) = {n}
                      /\ sessions[n].holder = sticks[id].holder
                      /\ sessions[n].claimedAt = sticks[id].claimedAt

\* No submission can run into the errors CreateSession and CloseSession return
\* for an inconsistent sessions table (transaction.go 74, 91): a user never
\* gets a 500 page because two tables disagree.
NoInconsistentSession ==
    \A c \in Clients :
        /\ Handling(c, "claim") => ClaimStickError(c) # "internal"
        /\ Handling(c, "release") => ReleaseStickError(c) # "internal"

\* A page whose version is still current shows the current stick and, once
\* loaded, its complete history: no two states of a stick share a version,
\* and the history is read after the stick (handler.go 100-116).
VersionIdentifiesPage ==
    \A c \in Clients :
        LET v == view[c] IN
        v.stick # NULL =>
            /\ v.state.version <= sticks[v.stick].version
            /\ v.state.version = sticks[v.stick].version =>
                   /\ v.state = sticks[v.stick]
                   /\ pc[c] \in {"check_history", "get_history"}
                          \/ v.history = CompletedSessions(v.stick)

\* Sessions of a stick do not overlap: each one ends, no earlier than it
\* began, no later than the next one begins.  The timestamps are read before
\* the transactions that store them (service.go 116, 134), so only the
\* version check keeps a delayed request from storing an old time; the
\* history page sorts by claimed_at.
SessionsInOrder ==
    /\ \A n \in DOMAIN sessions :
           sessions[n].releasedAt # NoTime => sessions[n].claimedAt <= sessions[n].releasedAt
    /\ \A m, n \in DOMAIN sessions :
           m < n /\ sessions[m].stick = sessions[n].stick =>
               /\ sessions[m].releasedAt # NoTime
               /\ sessions[m].releasedAt <= sessions[n].claimedAt

\* A form the page offers is accepted by the domain as long as the page's
\* version is current: the buttons of stickDetail (views.go 341-428) agree
\* with the checks of the transitions, exhaustion of the version apart, and
\* "notify me" is only offered for a stick somebody else holds.
OfferedFormApplies ==
    \A c \in Clients :
        LET v == view[c]
            now == sticks[v.stick]
            Refusals(op) ==
                CASE op = "claim"     -> ClaimError(now, TRUE)
                  [] op = "release"   -> ReleaseError(now, UserOf[c])
                  [] op = "archive"   -> ArchiveError(now)
                  [] op = "unarchive" -> UnarchiveError(now)
                  [] op = "rename"    -> "nil"
                  [] OTHER            -> ErrorIf(Available(now) \/ now.holder = UserOf[c],
                                                 "not held by another")
        IN
        v.stick # NULL /\ pc[c] = "idle" /\ v.state.version = now.version =>
            \A op \in Offered(v, UserOf[c]) :
                Refusals(op) \in {"nil", "ErrVersionExhausted"}

\* A transaction changes a stick only when the stick is still exactly what the
\* submitting tab shows: no lost update, however the pages, submissions and
\* transactions of several tabs interleave.
ChangesOnlyWhatWasSeen ==
    [][\A c \in Clients :
          pc[c] = "submitted" /\ pc'[c] # "submitted"
              /\ sticks'[request[c].stick] # sticks[request[c].stick]
          => view[c].state = sticks[request[c].stick]]_vars

\* The notifications of a stick as the contract of a store has them.
QueuedRows(id) ==
    [n \in {k \in DOMAIN outbox : outbox[k].stick = id} |->
        [user |-> outbox[n].recipient, generation |-> outbox[n].generation,
         settled |-> outbox[n].status = "succeeded"]]

Contract(id) == INSTANCE StoreContract WITH
    version <- sticks[id].version, held <- ~Available(sticks[id]),
    open <- Cardinality(OpenSessions(id)), subs <- subscriptions[id],
    rows <- QueuedRows(id)

\* The transactions of the service change a stick, its sessions, its
\* subscriptions and its notifications only as the contract allows.
ImplementsContract ==
    /\ \A id \in StickIDs : Contract(id)!Init
    /\ [][\A id \in StickIDs : UNCHANGED Contract(id)!vars \/ Contract(id)!Next]_vars
=============================================================================
