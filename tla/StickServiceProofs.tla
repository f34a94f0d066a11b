------------------------- MODULE StickServiceProofs --------------------------
(***************************************************************************)
(* StickService, for any number of tabs, users and sticks: the tables stay  *)
(* well typed, a stick is held exactly while it has an open session,        *)
(* sessions never overlap, and a version identifies what a page showed.     *)
(*                                                                          *)
(* The argument rests on one idea.  Every transaction that touches a stick  *)
(* or its sessions advances that stick's version by one (Advances below),   *)
(* so whatever is known about a page or a request "while its version is     *)
(* current" is not disturbed by it.                                         *)
(*                                                                          *)
(* From the invariant follow the properties of the module, and that every   *)
(* transaction is, for every stick, one step of StoreContract.              *)
(***************************************************************************)
EXTENDS StickService, OutboxStoreProofs

\* A page that shows a stick was read from a stored row; only such a page can
\* be loading further or have a form in flight.
PagesValid ==
    \A c \in Clients :
        /\ view[c].stick # NULL => view[c].state.version >= 1
        /\ pc[c] \in {"check_history", "get_history", "get_subscriptions", "submitted"} =>
               view[c].stick \in StickIDs

\* A form carries the id and the version of the page it was on.
RequestsFromPages ==
    \A c \in Clients :
        /\ pc[c] = "submitted" => /\ request[c].stick = view[c].stick
                                  /\ request[c].version = view[c].state.version
        /\ pc[c] = "rerender" => request[c].stick \in StickIDs

\* Nobody holds a stick that does not exist.
AbsentIsAvailable == \A id \in StickIDs : sticks[id].version = 0 => Available(sticks[id])

EndedBy(session, time) == session.claimedAt <= time /\ session.releasedAt <= time

\* Stored times are in the past.
TimesPast ==
    /\ \A n \in DOMAIN sessions : EndedBy(sessions[n], clock)
    /\ \A c \in Clients : request[c].at <= clock

\* A claim or release whose version is still current was submitted after
\* every time the stick's sessions record.
RequestsAreLate ==
    \A c \in Clients :
        /\ pc[c] = "submitted"
        /\ request[c].op \in {"claim", "release"}
        /\ view[c].state.version = sticks[view[c].stick].version
        => \A n \in DOMAIN sessions :
               sessions[n].stick = view[c].stick => EndedBy(sessions[n], request[c].at)

IInv ==
    /\ TypeOK
    /\ AbsentIsAvailable
    /\ HolderMatchesSession
    /\ PagesValid
    /\ RequestsFromPages
    /\ VersionIdentifiesPage
    /\ TimesPast
    /\ RequestsAreLate
    /\ SessionsInOrder

-----------------------------------------------------------------------------
(* The transitions of internal/core. *)

\* A transition that finds room in the version yields a stick one version on.
LEMMA TransitionTypes ==
  ASSUME NEW stick \in Stick, IncrementError(stick) = "nil"
  PROVE  /\ \A name \in Names : /\ Rename(stick, name) \in Stick
                                 /\ Rename(stick, name).version = stick.version + 1
                                 /\ Rename(stick, name).holder = stick.holder
                                 /\ Rename(stick, name).claimedAt = stick.claimedAt
                                 /\ Rename(stick, name).archived = stick.archived
         /\ Archive(stick) \in Stick
         /\ Archive(stick).version = stick.version + 1
         /\ Archive(stick).holder = stick.holder
         /\ Archive(stick).claimedAt = stick.claimedAt
         /\ Unarchive(stick) \in Stick
         /\ Unarchive(stick).version = stick.version + 1
         /\ Unarchive(stick).holder = stick.holder
         /\ Unarchive(stick).claimedAt = stick.claimedAt
         /\ ~Unarchive(stick).archived
         /\ \A user \in Users, at \in Nat :
               /\ Claim(stick, user, at) \in Stick
               /\ Claim(stick, user, at).version = stick.version + 1
               /\ Claim(stick, user, at).holder = user
               /\ Claim(stick, user, at).claimedAt = at
               /\ Claim(stick, user, at).archived = stick.archived
         /\ Release(stick) \in Stick
         /\ Release(stick).version = stick.version + 1
         /\ Release(stick).holder = NULL
<1> DEFINE up == stick.version + 1
<1>1. up \in 0..MaxVersion
  BY CoreAssumption DEF IncrementError, ErrorIf, Stick
<1> HIDE DEF up
<1>2. \A name \in Names : [stick EXCEPT !.version = up, !.name = name] \in Stick
  BY <1>1 DEF Stick
<1>3. /\ [stick EXCEPT !.version = up, !.archived = TRUE] \in Stick
      /\ [stick EXCEPT !.version = up, !.archived = FALSE] \in Stick
  BY <1>1 DEF Stick
<1>4. \A user \in Users, at \in Nat :
         [stick EXCEPT !.version = up, !.holder = user, !.claimedAt = at] \in Stick
  BY <1>1 DEF Stick
<1>5. [stick EXCEPT !.version = up, !.holder = NULL, !.claimedAt = 0] \in Stick
  BY <1>1 DEF Stick
<1>6. \A name \in Names : /\ Rename(stick, name) \in Stick
                           /\ Rename(stick, name).version = up
                           /\ Rename(stick, name).holder = stick.holder
                           /\ Rename(stick, name).claimedAt = stick.claimedAt
                           /\ Rename(stick, name).archived = stick.archived
  BY <1>2 DEF Rename, up, Stick
<1>7. /\ Archive(stick) \in Stick
      /\ Archive(stick).version = up
      /\ Archive(stick).holder = stick.holder
      /\ Archive(stick).claimedAt = stick.claimedAt
  BY <1>3 DEF Archive, up, Stick
<1>8. /\ Unarchive(stick) \in Stick
      /\ Unarchive(stick).version = up
      /\ Unarchive(stick).holder = stick.holder
      /\ Unarchive(stick).claimedAt = stick.claimedAt
      /\ ~Unarchive(stick).archived
  BY <1>3 DEF Unarchive, up, Stick
<1>9. \A user \in Users, at \in Nat :
         /\ Claim(stick, user, at) \in Stick
         /\ Claim(stick, user, at).version = up
         /\ Claim(stick, user, at).holder = user
         /\ Claim(stick, user, at).claimedAt = at
         /\ Claim(stick, user, at).archived = stick.archived
  BY <1>4 DEF Claim, up, Stick
<1>10. /\ Release(stick) \in Stick
       /\ Release(stick).version = up
       /\ Release(stick).holder = NULL
  BY <1>5 DEF Release, up, Stick
<1> QED
  BY <1>6, <1>7, <1>8, <1>9, <1>10 DEF up

\* A new stick is free and has version 1.
LEMMA NewStickType ==
  ASSUME NEW name \in Names
  PROVE  /\ NewStick(name) \in Stick
         /\ NewStick(name).version = 1
         /\ NewStick(name).holder = NULL
<1>1. NoStick \in Stick /\ NoStick.holder = NULL
  BY CoreAssumption DEF NoStick, Stick
<1>2. 1 \in 0..MaxVersion
  BY CoreAssumption
<1>3. [NoStick EXCEPT !.name = name, !.version = 1] \in Stick
  BY <1>1, <1>2 DEF Stick
<1> QED
  BY <1>1, <1>3 DEF NewStick, Stick

-----------------------------------------------------------------------------
(* What a handler's step may do to the other tabs and to other sticks. *)

\* The answer to a form ends it and leaves the page and the other tabs alone.
LEMMA RespondEffect ==
  ASSUME TypeOK, NEW c \in Clients, NEW err, Respond(c, err),
         request[c].stick \in StickIDs
  PROVE  /\ view' = view /\ clock' = clock
         /\ pc' \in [Clients -> {"idle", "submitted", "rerender", "check_history",
                                 "get_history", "get_subscriptions"}]
         /\ request' \in [Clients -> Request]
         /\ pc'[c] \in {"idle", "rerender"}
         /\ pc'[c] = "rerender" => request'[c].stick \in StickIDs
         /\ request'[c].at = 0
         /\ \A d \in Clients \ {c} : pc'[d] = pc[d] /\ request'[d] = request[d]
<1>1. NoRequest \in Request /\ NoRequest.at = 0
  BY CoreAssumption DEF NoRequest, Request, Ops, AdminOps
<1> DEFINE again == [NoRequest EXCEPT !.stick = request[c].stick]
<1>2. again \in Request /\ again.at = 0 /\ again.stick \in StickIDs
  BY <1>1 DEF Request
<1> HIDE DEF again
<1>3. CASE err \in Rerendered
  <2>1. /\ pc' = [pc EXCEPT ![c] = "rerender"]
        /\ request' = [request EXCEPT ![c] = again]
        /\ view' = view /\ clock' = clock
    BY <1>3 DEF Respond, again
  <2> QED
    BY <2>1, <1>2 DEF TypeOK
<1>4. CASE err \notin Rerendered
  <2>1. /\ pc' = [pc EXCEPT ![c] = "idle"]
        /\ request' = [request EXCEPT ![c] = NoRequest]
        /\ view' = view /\ clock' = clock
    BY <1>4 DEF Respond
  <2> QED
    BY <2>1, <1>1 DEF TypeOK
<1> QED
  BY <1>3, <1>4

\* The sessions of a stick are the same before and after a step.
SameSessions(id) ==
    \A n \in Nat :
        /\ n \in DOMAIN sessions /\ sessions[n].stick = id =>
               n \in DOMAIN sessions' /\ sessions'[n] = sessions[n]
        /\ n \in DOMAIN sessions' /\ sessions'[n].stick = id =>
               n \in DOMAIN sessions /\ sessions'[n] = sessions[n]

\* One stick moves to its next version; the others, and their sessions, stay.
Advances(id) ==
    /\ sticks'[id].version = sticks[id].version + 1
    /\ \A other \in StickIDs \ {id} : sticks'[other] = sticks[other] /\ SameSessions(other)

\* Sessions that are the same are open, and completed, alike.
LEMMA SameSessionsSets ==
  ASSUME TypeOK, TypeOK', NEW id \in StickIDs, SameSessions(id)
  PROVE  OpenSessions(id)' = OpenSessions(id) /\ CompletedSessions(id)' = CompletedSessions(id)
<1>1. DOMAIN sessions \subseteq Nat /\ (DOMAIN sessions)' \subseteq Nat
  BY LenProperties DEF TypeOK
<1>2. OpenSessions(id)' = OpenSessions(id)
  BY <1>1 DEF SameSessions, OpenSessions
<1>3. CompletedSessions(id)' = CompletedSessions(id)
  BY <1>1 DEF SameSessions, CompletedSessions
<1> QED
  BY <1>2, <1>3

\* The tabs after a step: pages stay, and a tab that moves on ends its form.
TabsSettle ==
    /\ view' = view
    /\ clock' = clock
    /\ \A c \in Clients :
           \/ pc'[c] = pc[c] /\ request'[c] = request[c]
           \/ /\ pc[c] = "submitted"
              /\ pc'[c] \in {"idle", "rerender"}
              /\ pc'[c] = "rerender" => request'[c].stick \in StickIDs
              /\ request'[c].at = 0

\* What is known about pages and forms survives a step that advances a stick.
LEMMA AdvanceKeepsPages ==
  ASSUME IInv, TypeOK', NEW id \in StickIDs, Advances(id), TabsSettle
  PROVE  PagesValid' /\ RequestsFromPages' /\ VersionIdentifiesPage' /\ RequestsAreLate'
<1>1. PagesValid'
  BY DEF IInv, PagesValid, TabsSettle
<1>2. RequestsFromPages'
  BY DEF IInv, RequestsFromPages, TabsSettle
<1>3. ASSUME NEW c \in Clients, view[c].stick \in StickIDs
      PROVE  /\ view[c].state.version \in Nat
             /\ sticks[view[c].stick].version \in Nat
             /\ view[c].state.version <= sticks[view[c].stick].version
  <2>1. view[c].state \in Stick /\ sticks[view[c].stick] \in Stick
    BY <1>3 DEF IInv, TypeOK, View
  <2>2. view[c].stick # NULL
    BY <1>3, TypesAssumption
  <2> QED
    BY <2>1, <2>2, CoreAssumption DEF Stick, IInv, VersionIdentifiesPage
<1>4. ASSUME NEW c \in Clients, view[c].stick # NULL
      PROVE  view[c].stick \in StickIDs
  BY <1>4 DEF IInv, TypeOK, View
<1>5. VersionIdentifiesPage'
  <2> SUFFICES ASSUME NEW c \in Clients, view[c].stick # NULL
               PROVE  LET v == view[c] IN
                      /\ v.state.version <= sticks'[v.stick].version
                      /\ v.state.version = sticks'[v.stick].version =>
                             /\ v.state = sticks'[v.stick]
                             /\ pc'[c] \in {"check_history", "get_history"}
                                    \/ v.history = CompletedSessions(v.stick)'
    BY DEF VersionIdentifiesPage, TabsSettle
  <2>1. view[c].stick \in StickIDs
    BY <1>4
  <2>2. CASE view[c].stick = id
    BY <2>1, <2>2, <1>3 DEF Advances
  <2>3. CASE view[c].stick # id
    <3> PICK s \in StickIDs \ {id} : s = view[c].stick
      BY <2>1, <2>3
    <3>1. /\ sticks'[s] = sticks[s]
          /\ CompletedSessions(s)' = CompletedSessions(s)
      BY SameSessionsSets DEF Advances, IInv
    <3>2. pc'[c] \in {"check_history", "get_history"} <=> pc[c] \in {"check_history", "get_history"}
      BY DEF TabsSettle
    <3> QED
      BY <3>1, <3>2 DEF IInv, VersionIdentifiesPage, TabsSettle
  <2> QED
    BY <2>2, <2>3
<1>6. RequestsAreLate'
  <2> SUFFICES ASSUME NEW c \in Clients, pc'[c] = "submitted",
                      request'[c].op \in {"claim", "release"},
                      view[c].state.version = sticks'[view[c].stick].version,
                      NEW n \in (DOMAIN sessions)', sessions'[n].stick = view[c].stick
               PROVE  EndedBy(sessions'[n], request'[c].at)
    BY DEF RequestsAreLate, TabsSettle
  <2>1. pc[c] = "submitted" /\ request'[c] = request[c]
    BY DEF TabsSettle
  <2>2. view[c].stick \in StickIDs
    BY <2>1 DEF IInv, PagesValid
  <2>3. view[c].stick # id
    BY <2>2, <1>3 DEF Advances
  <2>4. n \in Nat
    BY LenProperties DEF TypeOK
  <2>5. n \in DOMAIN sessions /\ sessions'[n] = sessions[n]
    BY <2>2, <2>3, <2>4 DEF Advances, SameSessions
  <2>6. view[c].state.version = sticks[view[c].stick].version
    BY <2>2, <2>3 DEF Advances
  <2> QED
    BY <2>1, <2>5, <2>6 DEF IInv, RequestsAreLate
<1> QED
  BY <1>1, <1>2, <1>5, <1>6

\* The conjunct of HolderMatchesSession about one stick.
HolderMatches(id) ==
    IF Available(sticks[id])
      THEN OpenSessions(id) = {}
      ELSE /\ ~sticks[id].archived
           /\ \E n \in DOMAIN sessions :
                  /\ OpenSessions(id) = {n}
                  /\ sessions[n].holder = sticks[id].holder
                  /\ sessions[n].claimedAt = sticks[id].claimedAt

\* It carries over for a stick that stays, with its sessions.
LEMMA SameStickMatches ==
  ASSUME TypeOK, TypeOK', NEW id \in StickIDs, HolderMatches(id),
         sticks'[id] = sticks[id], SameSessions(id)
  PROVE  HolderMatches(id)'
<1>1. OpenSessions(id)' = OpenSessions(id)
  BY SameSessionsSets
<1>2. CASE Available(sticks[id])
  BY <1>1, <1>2 DEF HolderMatches, Available
<1>3. CASE ~Available(sticks[id])
  <2>1. PICK n \in DOMAIN sessions :
           /\ OpenSessions(id) = {n}
           /\ sessions[n].holder = sticks[id].holder
           /\ sessions[n].claimedAt = sticks[id].claimedAt
    BY <1>3 DEF HolderMatches
  <2>2. n \in Nat /\ sessions[n].stick = id
    BY <2>1, LenProperties DEF OpenSessions, TypeOK
  <2>3. n \in DOMAIN sessions' /\ sessions'[n] = sessions[n]
    BY <2>2 DEF SameSessions
  <2> QED
    BY <1>1, <1>3, <2>1, <2>3 DEF HolderMatches, Available
<1> QED
  BY <1>2, <1>3

\* The tabs' part of the invariant when a form is answered and no table of
\* the service changes.
LEMMA SettleKeepsInvariant ==
  ASSUME IInv, TypeOK', UNCHANGED tables, TabsSettle
  PROVE  IInv'
<1>1. sticks' = sticks /\ sessions' = sessions
  BY DEF tables
<1>2. AbsentIsAvailable' /\ HolderMatchesSession' /\ SessionsInOrder'
  BY <1>1 DEF IInv, AbsentIsAvailable, HolderMatchesSession, OpenSessions, SessionsInOrder
<1>3. PagesValid' /\ RequestsFromPages'
  BY <1>1 DEF IInv, PagesValid, RequestsFromPages, TabsSettle
<1>4. VersionIdentifiesPage'
  BY <1>1 DEF IInv, VersionIdentifiesPage, TabsSettle, CompletedSessions
<1>5. TimesPast'
  BY <1>1 DEF IInv, TimesPast, TabsSettle, TypeOK
<1>6. RequestsAreLate'
  BY <1>1 DEF IInv, RequestsAreLate, TabsSettle
<1> QED
  BY <1>2, <1>3, <1>4, <1>5, <1>6 DEF IInv

\* A stored stick may change in anything but its holder.
LEMMA SaveKeepsInvariant ==
  ASSUME IInv, TypeOK', NEW id \in StickIDs, NEW stick \in Stick,
         SaveStick(id, stick), UNCHANGED sessions, TabsSettle,
         stick.version = sticks[id].version + 1,
         stick.holder = sticks[id].holder,
         stick.holder # NULL => stick.claimedAt = sticks[id].claimedAt /\ ~stick.archived
  PROVE  IInv'
<1>1. sticks'[id] = stick /\ \A other \in StickIDs \ {id} : sticks'[other] = sticks[other]
  BY DEF SaveStick, IInv, TypeOK
<1>2. \A other \in StickIDs : SameSessions(other)
  BY DEF SameSessions
<1>3. Advances(id)
  BY <1>1, <1>2 DEF Advances
<1>4. PagesValid' /\ RequestsFromPages' /\ VersionIdentifiesPage' /\ RequestsAreLate'
  BY <1>3, AdvanceKeepsPages
<1>5. AbsentIsAvailable'
  <2> SUFFICES ASSUME NEW other \in StickIDs, sticks'[other].version = 0
               PROVE  sticks'[other].holder = NULL
    BY DEF AbsentIsAvailable, Available
  <2>1. other # id
    BY <1>1, CoreAssumption DEF IInv, TypeOK, Stick
  <2> QED
    BY <1>1, <2>1 DEF IInv, AbsentIsAvailable, Available
<1>6. HolderMatchesSession'
  <2> SUFFICES ASSUME NEW other \in StickIDs PROVE HolderMatches(other)'
    BY DEF HolderMatchesSession, HolderMatches
  <2>1. HolderMatches(other)
    BY DEF IInv, HolderMatchesSession, HolderMatches
  <2>2. CASE other # id
    BY <1>1, <1>2, <2>1, <2>2, SameStickMatches DEF IInv
  <2>3. CASE other = id
    BY <1>1, <2>1, <2>3 DEF HolderMatches, Available, OpenSessions
  <2> QED
    BY <2>2, <2>3
<1>7. TimesPast' /\ SessionsInOrder'
  BY DEF IInv, TimesPast, SessionsInOrder, TabsSettle, TypeOK
<1> QED
  BY <1>4, <1>5, <1>6, <1>7 DEF IInv

\* An answered form leaves the tabs settled and well typed.
LEMMA RespondSettles ==
  ASSUME IInv, NEW c \in Clients, NEW err, pc[c] = "submitted", Respond(c, err)
  PROVE  /\ request[c].stick \in StickIDs
         /\ TabsSettle
         /\ pc' \in [Clients -> {"idle", "submitted", "rerender", "check_history",
                                 "get_history", "get_subscriptions"}]
         /\ request' \in [Clients -> Request]
<1>1. request[c].stick \in StickIDs
  BY DEF IInv, PagesValid, RequestsFromPages
<1> QED
  BY <1>1, RespondEffect DEF IInv, TabsSettle

\* A chain of checks passes only if each check does.
LEMMA FirstErrorNil ==
  ASSUME NEW err, NEW next, FirstError(err, next) = "nil"
  PROVE  err = "nil" /\ next = "nil"
  BY DEF FirstError

\* ClaimStick, when it succeeds: the stick gets its holder and its session.
LEMMA ClaimKeepsInvariant ==
  ASSUME IInv, NEW c \in Clients, Handling(c, "claim"), ClaimStickError(c) = "nil",
         SaveStick(request[c].stick, Claim(Current(c), UserOf[c], request[c].at)),
         CreateSession(request[c].stick, UserOf[c], request[c].at),
         Respond(c, "nil"), UNCHANGED outboxVars
  PROVE  IInv'
<1> DEFINE id == request[c].stick
           at == request[c].at
           user == UserOf[c]
           new == [stick |-> id, holder |-> user, claimedAt |-> at, releasedAt |-> NoTime]
           k == Len(sessions) + 1
<1>1. id \in StickIDs /\ at \in Nat /\ user \in Users
  BY RespondSettles, ServiceAssumption DEF Handling, IInv, TypeOK, Request
<1>2. /\ sticks[id].version = request[c].version
      /\ ~sticks[id].archived
      /\ Available(sticks[id])
      /\ IncrementError(sticks[id]) = "nil"
      /\ OpenSessions(id) = {}
  <2>1. /\ VersionError(c) = "nil"
        /\ ClaimError(Current(c), request[c].reasonValid) = "nil"
        /\ CreateSessionError(id) = "nil"
    BY FirstErrorNil DEF ClaimStickError
  <2> QED
    BY <2>1, FirstErrorNil DEF VersionError, ClaimError, CreateSessionError, ErrorIf, Current
<1>3. sticks[id] \in Stick
  BY <1>1 DEF IInv, TypeOK
<1>4. /\ sticks' \in [StickIDs -> Stick]
      /\ sticks'[id].version = sticks[id].version + 1
      /\ sticks'[id].holder = user
      /\ sticks'[id].claimedAt = at
      /\ ~sticks'[id].archived
      /\ \A other \in StickIDs \ {id} : sticks'[other] = sticks[other]
  BY <1>1, <1>2, <1>3, TransitionTypes DEF SaveStick, Current, IInv, TypeOK
<1>5. new \in Session
  BY <1>1 DEF Session, NoTime
<1> HIDE DEF new
<1>6. /\ sessions \in Seq(Session) /\ Len(sessions) \in Nat
      /\ DOMAIN sessions = 1..Len(sessions)
  BY LenProperties DEF IInv, TypeOK
<1>7. sessions' = Append(sessions, new)
  BY DEF CreateSession, new
<1>8. /\ sessions' \in Seq(Session)
      /\ DOMAIN sessions' = 1..k
      /\ \A n \in 1..Len(sessions) : sessions'[n] = sessions[n]
      /\ sessions'[k] = new
  BY <1>5, <1>6, <1>7, AppendProperties, LenProperties
<1>9. new.stick = id /\ new.holder = user /\ new.claimedAt = at /\ new.releasedAt = NoTime
  BY DEF new
<1>10. TypeOK'
  <2>1. OutboxTypeOK'
    BY DEF IInv, TypeOK, OutboxTypeOK, outboxVars
  <2> QED
    BY <1>4, <1>8, <2>1, RespondSettles DEF IInv, TypeOK, TabsSettle, Handling
<1>11. TabsSettle
  BY RespondSettles DEF Handling
<1>12. \A other \in StickIDs \ {id} : SameSessions(other)
  BY <1>6, <1>8, <1>9 DEF SameSessions
<1>13. PagesValid' /\ RequestsFromPages' /\ VersionIdentifiesPage' /\ RequestsAreLate'
  BY <1>1, <1>4, <1>10, <1>11, <1>12, AdvanceKeepsPages DEF Advances
<1>14. AbsentIsAvailable'
  <2> SUFFICES ASSUME NEW other \in StickIDs, sticks'[other].version = 0
               PROVE  sticks'[other].holder = NULL
    BY DEF AbsentIsAvailable, Available
  <2>1. other # id
    BY <1>3, <1>4, CoreAssumption DEF Stick
  <2> QED
    BY <1>4, <2>1 DEF IInv, AbsentIsAvailable, Available
<1>15. HolderMatchesSession'
  <2> SUFFICES ASSUME NEW other \in StickIDs PROVE HolderMatches(other)'
    BY DEF HolderMatchesSession, HolderMatches
  <2>1. HolderMatches(other)
    BY DEF IInv, HolderMatchesSession, HolderMatches
  <2>2. CASE other # id
    BY <1>4, <1>10, <1>12, <2>1, <2>2, SameStickMatches DEF IInv
  <2>3. CASE other = id
    <3>1. \A n \in DOMAIN sessions :
             ~(sessions[n].stick = other /\ sessions[n].releasedAt = NoTime)
      BY <1>2, <2>3 DEF OpenSessions
    <3>2. OpenSessions(other)' = {k}
      BY <1>6, <1>8, <1>9, <2>3, <3>1 DEF OpenSessions
    <3>3. ~Available(sticks'[other])
      BY <1>1, <1>4, <2>3, TypesAssumption DEF Available
    <3> QED
      BY <1>4, <1>6, <1>8, <1>9, <2>3, <3>2, <3>3 DEF HolderMatches
  <2> QED
    BY <2>2, <2>3
<1>16. at <= clock /\ clock' = clock /\ clock \in Nat
  BY <1>11 DEF TabsSettle, IInv, TimesPast, TypeOK
<1>17. TimesPast'
  <2>1. \A n \in DOMAIN sessions' : EndedBy(sessions'[n], clock')
    BY <1>1, <1>6, <1>8, <1>9, <1>16 DEF IInv, TimesPast, EndedBy, NoTime
  <2>2. \A d \in Clients : request'[d].at <= clock'
    BY <1>11, <1>16 DEF TabsSettle, IInv, TimesPast, TypeOK
  <2> QED
    BY <2>1, <2>2 DEF TimesPast
<1>18. \A n \in DOMAIN sessions :
          sessions[n].stick = id => sessions[n].releasedAt # NoTime /\ sessions[n].releasedAt <= at
  <2>1. /\ pc[c] = "submitted" /\ request[c].op \in {"claim", "release"}
        /\ view[c].stick = id
        /\ view[c].state.version = sticks[view[c].stick].version
    BY <1>2 DEF Handling, IInv, RequestsFromPages
  <2> QED
    BY <1>2, <2>1 DEF IInv, RequestsAreLate, EndedBy, OpenSessions
<1>19. SessionsInOrder'
  <2>1. \A n \in DOMAIN sessions' :
           sessions'[n].releasedAt # NoTime => sessions'[n].claimedAt <= sessions'[n].releasedAt
    BY <1>6, <1>8, <1>9 DEF IInv, SessionsInOrder
  <2>2. ASSUME NEW m \in DOMAIN sessions', NEW n \in DOMAIN sessions',
               m < n, sessions'[m].stick = sessions'[n].stick
        PROVE  /\ sessions'[m].releasedAt # NoTime
               /\ sessions'[m].releasedAt <= sessions'[n].claimedAt
    <3>1. m \in 1..Len(sessions) /\ sessions'[m] = sessions[m]
      BY <1>6, <1>8, <2>2
    <3>2. CASE n = k
      BY <1>6, <1>8, <1>9, <1>18, <2>2, <3>1, <3>2
    <3>3. CASE n # k
      BY <1>6, <1>8, <2>2, <3>1, <3>3 DEF IInv, SessionsInOrder
    <3> QED
      BY <3>2, <3>3
  <2> QED
    BY <2>1, <2>2 DEF SessionsInOrder
<1> QED
  BY <1>10, <1>13, <1>14, <1>15, <1>17, <1>19 DEF IInv

\* ReleaseStick, when it succeeds: the stick loses its holder, the one open
\* session ends and the subscribers' notifications are queued.
LEMMA ReleaseKeepsInvariant ==
  ASSUME IInv, NEW c \in Clients, Handling(c, "release"), ReleaseStickError(c) = "nil",
         SaveStick(request[c].stick, Release(Current(c))),
         CloseSession(request[c].stick, UserOf[c], request[c].at),
         EnqueueReleaseNotifications(request[c].stick, Current(c).claimedAt, request[c].at),
         Respond(c, "nil")
  PROVE  IInv'
<1> DEFINE id == request[c].stick
           at == request[c].at
           user == UserOf[c]
<1>1. id \in StickIDs /\ at \in Nat /\ user \in Users
  BY RespondSettles, ServiceAssumption DEF Handling, IInv, TypeOK, Request
<1>2. /\ sticks[id].version = request[c].version
      /\ ~Available(sticks[id])
      /\ sticks[id].holder = user
      /\ IncrementError(sticks[id]) = "nil"
  <2>1. /\ VersionError(c) = "nil"
        /\ ReleaseError(Current(c), UserOf[c]) = "nil"
    BY FirstErrorNil DEF ReleaseStickError
  <2> QED
    BY <2>1, FirstErrorNil DEF VersionError, ReleaseError, ErrorIf, Current
<1>3. sticks[id] \in Stick
  BY <1>1 DEF IInv, TypeOK
<1>4. /\ sticks' \in [StickIDs -> Stick]
      /\ sticks'[id].version = sticks[id].version + 1
      /\ sticks'[id].holder = NULL
      /\ \A other \in StickIDs \ {id} : sticks'[other] = sticks[other]
  BY <1>1, <1>2, <1>3, TransitionTypes DEF SaveStick, Current, IInv, TypeOK
<1>5. /\ sessions \in Seq(Session) /\ Len(sessions) \in Nat
      /\ DOMAIN sessions = 1..Len(sessions)
      /\ \A n \in DOMAIN sessions : sessions[n] \in Session
  BY LenProperties, ElementOfSeq DEF IInv, TypeOK
<1>6. PICK o \in DOMAIN sessions :
         /\ OpenSessions(id) = {o}
         /\ sessions[o].holder = user
  BY <1>1, <1>2 DEF IInv, HolderMatchesSession
<1>7. ClosingSessions(id, user) = {o}
  BY <1>6 DEF ClosingSessions
<1>8. sessions[o].stick = id /\ sessions[o].releasedAt = NoTime
  BY <1>6 DEF OpenSessions
<1>9. /\ DOMAIN sessions' = 1..Len(sessions)
      /\ sessions'[o] = [sessions[o] EXCEPT !.releasedAt = at]
      /\ \A n \in DOMAIN sessions : n # o => sessions'[n] = sessions[n]
  BY <1>5, <1>6, <1>7 DEF CloseSession
<1>10. /\ sessions'[o] \in Session
       /\ sessions'[o].stick = id
       /\ sessions'[o].claimedAt = sessions[o].claimedAt
       /\ sessions'[o].releasedAt = at
  BY <1>1, <1>5, <1>6, <1>8, <1>9 DEF Session
<1>11. sessions' \in Seq(Session)
  <2>1. \A n \in 1..Len(sessions) : sessions'[n] \in Session
    BY <1>5, <1>9, <1>10
  <2>2. sessions' = [n \in 1..Len(sessions) |-> sessions'[n]]
    BY <1>5 DEF CloseSession
  <2> QED
    BY <1>5, <2>1, <2>2, IsASeq
<1>12. TypeOK'
  <2>1. OutboxTypeOK'
    BY <1>1, <1>3, EnqueueAppends DEF IInv, TypeOK, Stick, Current
  <2> QED
    BY <1>4, <1>11, <2>1, RespondSettles DEF IInv, TypeOK, TabsSettle, Handling
<1>13. TabsSettle
  BY RespondSettles DEF Handling
<1>14. \A other \in StickIDs \ {id} : SameSessions(other)
  BY <1>5, <1>8, <1>9, <1>10 DEF SameSessions
<1>15. PagesValid' /\ RequestsFromPages' /\ VersionIdentifiesPage' /\ RequestsAreLate'
  BY <1>1, <1>4, <1>12, <1>13, <1>14, AdvanceKeepsPages DEF Advances
<1>16. AbsentIsAvailable'
  BY <1>4 DEF IInv, AbsentIsAvailable, Available
<1>17. HolderMatchesSession'
  <2> SUFFICES ASSUME NEW other \in StickIDs PROVE HolderMatches(other)'
    BY DEF HolderMatchesSession, HolderMatches
  <2>1. HolderMatches(other)
    BY DEF IInv, HolderMatchesSession, HolderMatches
  <2>2. CASE other # id
    BY <1>4, <1>12, <1>14, <2>1, <2>2, SameStickMatches DEF IInv
  <2>3. CASE other = id
    <3>1. \A n \in DOMAIN sessions :
             n # o => ~(sessions[n].stick = other /\ sessions[n].releasedAt = NoTime)
      BY <1>6, <2>3 DEF OpenSessions
    <3>2. at # NoTime
      BY <1>1 DEF NoTime
    <3>3. OpenSessions(other)' = {}
      BY <1>5, <1>9, <1>10, <3>1, <3>2 DEF OpenSessions
    <3> QED
      BY <1>4, <2>3, <3>3 DEF HolderMatches, Available
  <2> QED
    BY <2>2, <2>3
<1>18. at <= clock /\ clock' = clock /\ clock \in Nat
  BY <1>13 DEF TabsSettle, IInv, TimesPast, TypeOK
<1>19. TimesPast'
  <2>1. \A n \in DOMAIN sessions' : EndedBy(sessions'[n], clock')
    BY <1>1, <1>5, <1>9, <1>10, <1>18 DEF IInv, TimesPast, EndedBy
  <2>2. \A d \in Clients : request'[d].at <= clock'
    BY <1>13, <1>18 DEF TabsSettle, IInv, TimesPast, TypeOK
  <2> QED
    BY <2>1, <2>2 DEF TimesPast
<1>20. sessions[o].claimedAt <= at
  <2>1. /\ pc[c] = "submitted" /\ request[c].op \in {"claim", "release"}
        /\ view[c].stick = id
        /\ view[c].state.version = sticks[view[c].stick].version
    BY <1>2 DEF Handling, IInv, RequestsFromPages
  <2> QED
    BY <1>8, <2>1 DEF IInv, RequestsAreLate, EndedBy
<1>21. SessionsInOrder'
  <2>1. \A n \in DOMAIN sessions' :
           sessions'[n].releasedAt # NoTime => sessions'[n].claimedAt <= sessions'[n].releasedAt
    BY <1>5, <1>9, <1>10, <1>20 DEF IInv, SessionsInOrder
  <2>2. ASSUME NEW m \in DOMAIN sessions', NEW n \in DOMAIN sessions',
               m < n, sessions'[m].stick = sessions'[n].stick
        PROVE  /\ sessions'[m].releasedAt # NoTime
               /\ sessions'[m].releasedAt <= sessions'[n].claimedAt
    <3>1. /\ sessions'[m].stick = sessions[m].stick
          /\ sessions'[n].stick = sessions[n].stick
          /\ sessions'[n].claimedAt = sessions[n].claimedAt
      BY <1>5, <1>8, <1>9, <1>10
    <3>2. /\ sessions[m].releasedAt # NoTime
          /\ sessions[m].releasedAt <= sessions[n].claimedAt
      BY <1>5, <1>9, <2>2, <3>1 DEF IInv, SessionsInOrder
    <3>3. m # o
      BY <1>8, <3>2
    <3> QED
      BY <1>5, <1>9, <3>1, <3>2, <3>3
  <2> QED
    BY <2>1, <2>2 DEF SessionsInOrder
<1> QED
  BY <1>12, <1>15, <1>16, <1>17, <1>19, <1>21 DEF IInv

-----------------------------------------------------------------------------
(* Loading pages, submitting forms, and time. *)

\* What a page has to show, and where its loading stands, so that the
\* invariant holds of it.
Shows(next, v) ==
    /\ next \in {"idle", "check_history", "get_history", "get_subscriptions"}
    /\ v \in View
    /\ next # "idle" => v.stick \in StickIDs
    /\ v.stick # NULL =>
           /\ v.state.version >= 1
           /\ v.state.version <= sticks[v.stick].version
           /\ v.state.version = sticks[v.stick].version =>
                  /\ v.state = sticks[v.stick]
                  /\ next \in {"check_history", "get_history"}
                         \/ v.history = CompletedSessions(v.stick)

\* Showing a page that was read from the tables keeps the invariant.
LEMMA ShowPageKeepsInvariant ==
  ASSUME IInv, NEW c \in Clients, NEW next, NEW v, Shows(next, v), ShowPage(c, next, v)
  PROVE  IInv'
<1>1. NoRequest \in Request /\ NoRequest.at = 0
  BY CoreAssumption DEF NoRequest, Request, Ops, AdminOps
<1>2. /\ pc'[c] = next /\ view'[c] = v /\ request'[c] = NoRequest
      /\ \A d \in Clients \ {c} : /\ pc'[d] = pc[d] /\ view'[d] = view[d]
                                   /\ request'[d] = request[d]
      /\ sticks' = sticks /\ sessions' = sessions /\ clock' = clock
  BY DEF ShowPage, tables, IInv, TypeOK
<1>3. TypeOK'
  BY <1>1 DEF ShowPage, Shows, tables, outboxVars, IInv, TypeOK, OutboxTypeOK
<1>4. AbsentIsAvailable' /\ HolderMatchesSession' /\ SessionsInOrder'
  BY <1>2 DEF IInv, AbsentIsAvailable, HolderMatchesSession, OpenSessions, SessionsInOrder
<1>5. PagesValid'
  BY <1>2 DEF IInv, PagesValid, Shows
<1>6. RequestsFromPages'
  BY <1>2 DEF IInv, RequestsFromPages, Shows
<1>7. VersionIdentifiesPage'
  BY <1>2 DEF IInv, VersionIdentifiesPage, Shows, CompletedSessions
<1>8. TimesPast'
  BY <1>1, <1>2 DEF IInv, TimesPast, TypeOK
<1>9. RequestsAreLate'
  BY <1>2 DEF IInv, RequestsAreLate, Shows
<1> QED
  BY <1>3, <1>4, <1>5, <1>6, <1>7, <1>8, <1>9 DEF IInv

\* A blank page shows nothing.
LEMMA BlankPage ==
  BlankView \in View /\ Shows("idle", BlankView)
<1>1. BlankView \in View
  BY CoreAssumption DEF BlankView, View, NoStick, Stick
<1> QED
  BY <1>1 DEF Shows, BlankView

\* GetStick, alone or after an error, starts a page from the stored row.
LEMMA GetStickKeepsInvariant ==
  ASSUME IInv, NEW c \in Clients, NEW id \in StickIDs, GetStick(c, id)
  PROVE  IInv'
<1>1. CASE ~Visible(c, id)
  BY <1>1, BlankPage, ShowPageKeepsInvariant DEF GetStick
<1>2. CASE Visible(c, id)
  <2> DEFINE v == [BlankView EXCEPT !.stick = id, !.state = sticks[id]]
  <2>1. sticks[id] \in Stick /\ sticks[id].version >= 1
    BY <1>2, CoreAssumption DEF Visible, IInv, TypeOK, Stick
  <2>2. v \in View /\ v.stick = id /\ v.state = sticks[id]
    BY <2>1, BlankPage DEF View
  <2> HIDE DEF v
  <2>3. Shows("check_history", v)
    BY <2>1, <2>2, CoreAssumption DEF Shows, Stick
  <2>4. ShowPage(c, "check_history", v)
    BY <1>2 DEF GetStick, v
  <2> QED
    BY <2>3, <2>4, ShowPageKeepsInvariant
<1> QED
  BY <1>1, <1>2

\* The page a tab has is one it may keep showing.
LEMMA PageShows ==
  ASSUME IInv, NEW c \in Clients, view[c].stick \in StickIDs
  PROVE  /\ view[c] \in View
         /\ view[c].stick # NULL
         /\ view[c].state.version >= 1
         /\ view[c].state.version <= sticks[view[c].stick].version
         /\ view[c].state.version = sticks[view[c].stick].version =>
                /\ view[c].state = sticks[view[c].stick]
                /\ pc[c] \in {"check_history", "get_history"}
                       \/ view[c].history = CompletedSessions(view[c].stick)
  BY TypesAssumption DEF IInv, TypeOK, PagesValid, VersionIdentifiesPage

\* The reads that follow GetStick keep the invariant.
LEMMA ReadsKeepInvariant ==
  ASSUME IInv, NEW c \in Clients,
         CheckHistoryVisible(c) \/ GetHistory(c) \/ SubscribedStickIDs(c) \/ ReadFails(c)
  PROVE  IInv'
<1>1. CASE ReadFails(c)
  BY <1>1, BlankPage, ShowPageKeepsInvariant DEF ReadFails
<1>2. ASSUME CheckHistoryVisible(c) PROVE IInv'
  <2>1. view[c].stick \in StickIDs
    BY <1>2 DEF CheckHistoryVisible, IInv, PagesValid
  <2>2. Shows("get_history", view[c])
    BY <2>1, PageShows DEF Shows
  <2> QED
    BY <1>2, <2>2, BlankPage, ShowPageKeepsInvariant DEF CheckHistoryVisible
<1>3. ASSUME GetHistory(c) PROVE IInv'
  <2> DEFINE v == [view[c] EXCEPT !.history = CompletedSessions(view[c].stick)]
             next == IF HeldByOther(view[c], UserOf[c]) THEN "get_subscriptions" ELSE "idle"
  <2>1. view[c].stick \in StickIDs
    BY <1>3 DEF GetHistory, IInv, PagesValid
  <2>2. CompletedSessions(view[c].stick) \subseteq Nat
    BY LenProperties DEF CompletedSessions, IInv, TypeOK
  <2>3. /\ v \in View
        /\ v.stick = view[c].stick /\ v.state = view[c].state
        /\ v.history = CompletedSessions(view[c].stick)
    BY <2>1, <2>2, PageShows DEF View
  <2>4. next \in {"idle", "get_subscriptions"}
    OBVIOUS
  <2>5. ShowPage(c, next, v)
    BY <1>3 DEF GetHistory
  <2> HIDE DEF v, next
  <2>6. Shows(next, v)
    BY <2>1, <2>3, <2>4, PageShows DEF Shows
  <2> QED
    BY <2>5, <2>6, ShowPageKeepsInvariant
<1>4. ASSUME SubscribedStickIDs(c) PROVE IInv'
  <2> DEFINE listed == UserOf[c] \in Subscribers(view[c].stick)
                           /\ ~sticks[view[c].stick].archived
             v == [view[c] EXCEPT !.subscribed = listed]
  <2>1. view[c].stick \in StickIDs /\ pc[c] = "get_subscriptions"
    BY <1>4 DEF SubscribedStickIDs, IInv, PagesValid
  <2>2. ShowPage(c, "idle", v)
    BY <1>4 DEF SubscribedStickIDs
  <2>3. listed \in BOOLEAN
    OBVIOUS
  <2> HIDE DEF listed
  <2>4. /\ v \in View
        /\ v.stick = view[c].stick /\ v.state = view[c].state /\ v.history = view[c].history
    BY <2>1, <2>3, PageShows DEF View
  <2> HIDE DEF v
  <2>5. Shows("idle", v)
    BY <2>1, <2>4, PageShows DEF Shows
  <2> QED
    BY <2>2, <2>5, ShowPageKeepsInvariant
<1> QED
  BY <1>1, <1>2, <1>3, <1>4

\* A submitted form carries its page's version and, for a claim or release,
\* a time later than all the sessions stored so far.
LEMMA SubmitKeepsInvariant ==
  ASSUME IInv, NEW c \in Clients, NEW op \in Ops, NEW name \in Names \cup {NULL},
         NEW valid \in BOOLEAN, Submit(c, op, name, valid)
  PROVE  IInv'
<1> DEFINE at == IF op \in {"claim", "release"} THEN clock ELSE 0
           form == [op |-> op, stick |-> view[c].stick, version |-> view[c].state.version,
                    name |-> name, reasonValid |-> valid, at |-> at]
<1>1. at \in Nat /\ at <= clock /\ (op \in {"claim", "release"} => at = clock)
  BY DEF IInv, TypeOK
<1>2. view[c].stick \in StickIDs /\ view[c] \in View
  BY DEF Submit, IInv, TypeOK, View
<1> HIDE DEF at
<1>3. form \in Request
  BY <1>1, <1>2 DEF Request, View, Stick
<1>4. /\ pc' = [pc EXCEPT ![c] = "submitted"] /\ request' = [request EXCEPT ![c] = form]
      /\ view' = view /\ sticks' = sticks /\ sessions' = sessions /\ clock' = clock
      /\ UNCHANGED outboxVars
  BY DEF Submit, tables, at
<1>5. /\ form.op = op /\ form.stick = view[c].stick /\ form.at = at
      /\ form.version = view[c].state.version
  OBVIOUS
<1> HIDE DEF form
<1>6. /\ pc'[c] = "submitted" /\ request'[c] = form
      /\ \A d \in Clients \ {c} : pc'[d] = pc[d] /\ request'[d] = request[d]
  BY <1>4 DEF IInv, TypeOK
<1>7. TypeOK'
  BY <1>3, <1>4 DEF IInv, TypeOK, OutboxTypeOK, outboxVars
<1>8. AbsentIsAvailable' /\ HolderMatchesSession' /\ SessionsInOrder'
  BY <1>4 DEF IInv, AbsentIsAvailable, HolderMatchesSession, OpenSessions, SessionsInOrder
<1>9. PagesValid'
  BY <1>2, <1>4, <1>6 DEF IInv, PagesValid
<1>10. RequestsFromPages'
  BY <1>4, <1>5, <1>6 DEF IInv, RequestsFromPages
<1>11. VersionIdentifiesPage'
  <2>1. \A d \in Clients : pc'[d] \in {"check_history", "get_history"}
                           <=> pc[d] \in {"check_history", "get_history"}
    BY <1>6 DEF Submit
  <2> QED
    BY <1>4, <2>1 DEF IInv, VersionIdentifiesPage, CompletedSessions
<1>12. TimesPast'
  BY <1>1, <1>4, <1>5, <1>6 DEF IInv, TimesPast
<1>13. RequestsAreLate'
  BY <1>1, <1>4, <1>5, <1>6 DEF IInv, RequestsAreLate, TimesPast
<1> QED
  BY <1>7, <1>8, <1>9, <1>10, <1>11, <1>12, <1>13 DEF IInv

\* The passing of time keeps the invariant.
LEMMA TickKeepsInvariant ==
  ASSUME IInv, Tick
  PROVE  IInv'
<1>1. /\ sticks' = sticks /\ sessions' = sessions /\ pc' = pc /\ request' = request
      /\ view' = view /\ UNCHANGED outboxVars /\ clock' = clock + 1
  BY DEF Tick, tables, clients
<1>2. TypeOK'
  BY <1>1 DEF IInv, TypeOK, OutboxTypeOK, outboxVars
<1>3. TimesPast'
  <2>1. \A n \in DOMAIN sessions : sessions[n].claimedAt \in Int /\ sessions[n].releasedAt \in Int
    <3>1. \A n \in DOMAIN sessions : sessions[n] \in Session
      BY ElementOfSeq, LenProperties DEF IInv, TypeOK
    <3> QED
      BY <3>1 DEF Session, NoTime
  <2>2. \A c \in Clients : request[c].at \in Nat
    BY DEF IInv, TypeOK, Request
  <2> QED
    BY <1>1, <2>1, <2>2 DEF IInv, TimesPast, EndedBy, TypeOK
<1>4. AbsentIsAvailable' /\ HolderMatchesSession' /\ SessionsInOrder'
  BY <1>1 DEF IInv, AbsentIsAvailable, HolderMatchesSession, OpenSessions, SessionsInOrder
<1>5. PagesValid' /\ RequestsFromPages' /\ RequestsAreLate'
  BY <1>1 DEF IInv, PagesValid, RequestsFromPages, RequestsAreLate
<1>6. VersionIdentifiesPage'
  BY <1>1 DEF IInv, VersionIdentifiesPage, CompletedSessions
<1> QED
  BY <1>2, <1>3, <1>4, <1>5, <1>6 DEF IInv

\* A refused form keeps the invariant.
LEMMA RejectKeepsInvariant ==
  ASSUME IInv, NEW c \in Clients, NEW err, pc[c] = "submitted", Reject(c, err)
  PROVE  IInv'
<1>1. Respond(c, err) /\ UNCHANGED tables /\ UNCHANGED outboxVars
  BY DEF Reject
<1>2. TypeOK'
  BY <1>1, RespondSettles DEF IInv, TypeOK, OutboxTypeOK, outboxVars, tables, TabsSettle
<1> QED
  BY <1>1, <1>2, RespondSettles, SettleKeepsInvariant

\* An accepted rename, archival or restoration: anything but the holder changes.
LEMMA AdminSaveKeepsInvariant ==
  ASSUME IInv, NEW c \in Clients, pc[c] = "submitted", NEW stick \in Stick,
         SaveStick(request[c].stick, stick), Respond(c, "nil"),
         UNCHANGED outboxVars, UNCHANGED sessions,
         stick.version = Current(c).version + 1,
         stick.holder = Current(c).holder,
         stick.holder # NULL => stick.claimedAt = Current(c).claimedAt /\ ~stick.archived
  PROVE  IInv'
<1>1. request[c].stick \in StickIDs /\ TabsSettle
  BY RespondSettles
<1>2. sticks' \in [StickIDs -> Stick]
  BY <1>1 DEF SaveStick, IInv, TypeOK
<1>3. TypeOK'
  BY <1>1, <1>2, RespondSettles DEF IInv, TypeOK, OutboxTypeOK, outboxVars, TabsSettle
<1> QED
  BY <1>1, <1>3, SaveKeepsInvariant DEF Current

\* Every step of a tab keeps the invariant.
LEMMA ClientStepKeepsInvariant ==
  ASSUME IInv, NEW c \in Clients, ClientStep(c)
  PROVE  IInv'
<1> DEFINE id == request[c].stick
<1>0. ASSUME pc[c] = "submitted"
      PROVE  id \in StickIDs /\ Current(c) \in Stick
  BY <1>0 DEF IInv, PagesValid, RequestsFromPages, TypeOK, Current
<1>1. ASSUME NEW s \in StickIDs, Detail(c, s) PROVE IInv'
  BY <1>1, GetStickKeepsInvariant DEF Detail
<1>2. CASE RenderCurrentStickDetail(c)
  BY <1>2, GetStickKeepsInvariant DEF RenderCurrentStickDetail, IInv, RequestsFromPages
<1>3. CASE CheckHistoryVisible(c) \/ GetHistory(c) \/ SubscribedStickIDs(c) \/ ReadFails(c)
  BY <1>3, ReadsKeepInvariant
<1>4. ASSUME NEW op \in Ops, NEW name \in Names \cup {NULL}, NEW valid \in BOOLEAN,
             Submit(c, op, name, valid)
      PROVE  IInv'
  BY <1>4, SubmitKeepsInvariant
<1>5. CASE TransactionFails(c)
  BY <1>5, RejectKeepsInvariant DEF TransactionFails
<1>6. ASSUME NEW s \in StickIDs, NEW name \in Names, CreateStick(c, s, name) PROVE IInv'
  <2>1. SaveStick(s, NewStick(name)) /\ sticks[s].version = 0
    BY <1>6 DEF CreateStick, SaveStick
  <2>2. sticks[s].holder = NULL
    BY <2>1 DEF IInv, AbsentIsAvailable, Available
  <2>3. /\ UNCHANGED outboxVars /\ UNCHANGED sessions
        /\ pc' = pc /\ request' = request /\ view' = view /\ clock' = clock
    BY <1>6 DEF CreateStick, clients
  <2>4. TabsSettle
    BY <2>3 DEF TabsSettle
  <2>5. TypeOK'
    BY <2>1, <2>3, NewStickType DEF SaveStick, IInv, TypeOK, OutboxTypeOK, outboxVars
  <2> QED
    BY <2>1, <2>2, <2>3, <2>4, <2>5, NewStickType, SaveKeepsInvariant
<1>7. CASE RenameStick(c)
  <2>1. CASE Reject(c, RenameStickError(c))
    BY <1>7, <2>1, RejectKeepsInvariant DEF RenameStick, Handling
  <2>2. ASSUME RenameStickError(c) = "nil",
               SaveStick(id, Rename(Current(c), request[c].name)), Respond(c, "nil"),
               UNCHANGED outboxVars, UNCHANGED sessions
        PROVE  IInv'
    <3>1. pc[c] = "submitted"
      BY <1>7 DEF RenameStick, Handling
    <3>2. /\ ValidateStickName(request[c].name) = "nil"
          /\ IncrementError(Current(c)) = "nil"
      BY <2>2, FirstErrorNil DEF RenameStickError, RenameError
    <3>3. request[c].name \in Names
      BY <3>2, CoreAssumption DEF ValidateStickName, ErrorIf
    <3>4. Current(c).holder # NULL => ~Current(c).archived
      BY <1>0, <3>1 DEF Current, IInv, HolderMatchesSession, Available
    <3> QED
      BY <1>0, <2>2, <3>1, <3>2, <3>3, <3>4, TransitionTypes, AdminSaveKeepsInvariant
  <2> QED
    BY <1>7, <2>1, <2>2 DEF RenameStick
<1>8. CASE ArchiveStick(c)
  <2>1. CASE Reject(c, ArchiveStickError(c))
    BY <1>8, <2>1, RejectKeepsInvariant DEF ArchiveStick, Handling
  <2>2. ASSUME ArchiveStickError(c) = "nil", SaveStick(id, Archive(Current(c))), Respond(c, "nil"),
               UNCHANGED outboxVars, UNCHANGED sessions
        PROVE  IInv'
    <3>1. pc[c] = "submitted"
      BY <1>8 DEF ArchiveStick, Handling
    <3>2. ArchiveError(Current(c)) = "nil"
      BY <2>2, FirstErrorNil DEF ArchiveStickError
    <3>3. Current(c).holder = NULL /\ IncrementError(Current(c)) = "nil"
      BY <3>2, FirstErrorNil DEF ArchiveError, ErrorIf, Available
    <3> QED
      BY <1>0, <2>2, <3>1, <3>3, TransitionTypes, AdminSaveKeepsInvariant
  <2> QED
    BY <1>8, <2>1, <2>2 DEF ArchiveStick
<1>9. CASE UnarchiveStick(c)
  <2>1. CASE Reject(c, UnarchiveStickError(c))
    BY <1>9, <2>1, RejectKeepsInvariant DEF UnarchiveStick, Handling
  <2>2. ASSUME UnarchiveStickError(c) = "nil", SaveStick(id, Unarchive(Current(c))), Respond(c, "nil"),
               UNCHANGED outboxVars, UNCHANGED sessions
        PROVE  IInv'
    <3>1. pc[c] = "submitted"
      BY <1>9 DEF UnarchiveStick, Handling
    <3>2. IncrementError(Current(c)) = "nil"
      BY <2>2, FirstErrorNil DEF UnarchiveStickError, UnarchiveError
    <3> QED
      BY <1>0, <2>2, <3>1, <3>2, TransitionTypes, AdminSaveKeepsInvariant
  <2> QED
    BY <1>9, <2>1, <2>2 DEF UnarchiveStick
<1>10. CASE ClaimStick(c)
  BY <1>10, RejectKeepsInvariant, ClaimKeepsInvariant DEF ClaimStick, Handling
<1>11. CASE ReleaseStick(c)
  BY <1>11, RejectKeepsInvariant, ReleaseKeepsInvariant DEF ReleaseStick, Handling
<1>12. CASE SubscribeStick(c) \/ UnsubscribeStick(c)
  <2>1. pc[c] = "submitted" /\ UserOf[c] \in Users
    BY <1>12, ServiceAssumption DEF SubscribeStick, UnsubscribeStick, Handling
  <2>2. CASE Reject(c, VersionError(c))
    BY <2>1, <2>2, RejectKeepsInvariant
  <2>3. ASSUME Subscribe(id, UserOf[c]) \/ Unsubscribe(id, UserOf[c]),
               Respond(c, "nil"), UNCHANGED tables
        PROVE  IInv'
    <3>1. OutboxTypeOK'
      BY <1>0, <2>1, <2>3, SubscribeType, UnsubscribeType DEF IInv, TypeOK
    <3>2. TypeOK'
      BY <2>1, <2>3, <3>1, RespondSettles DEF IInv, TypeOK, tables, TabsSettle
    <3> QED
      BY <2>1, <2>3, <3>2, RespondSettles, SettleKeepsInvariant
  <2> QED
    BY <1>12, <2>2, <2>3 DEF SubscribeStick, UnsubscribeStick
<1> QED
  BY <1>1, <1>2, <1>3, <1>4, <1>5, <1>6, <1>7, <1>8, <1>9, <1>10, <1>11, <1>12 DEF ClientStep

\* The empty database and blank tabs satisfy the invariant.
LEMMA InitInvariant == Init => IInv
<1> SUFFICES ASSUME Init PROVE IInv
  OBVIOUS
<1>1. NoStick \in Stick /\ NoStick.holder = NULL
  BY CoreAssumption DEF NoStick, Stick
<1>2. NoRequest \in Request /\ NoRequest.at = 0
  BY CoreAssumption DEF NoRequest, Request, Ops, AdminOps
<1>3. TypeOK
  BY <1>1, <1>2, BlankPage, OutboxInitType, EmptySeq DEF Init, TypeOK
<1>4. DOMAIN sessions = {}
  BY DEF Init
<1>5. AbsentIsAvailable /\ HolderMatchesSession /\ SessionsInOrder
  BY <1>1, <1>4 DEF Init, AbsentIsAvailable, HolderMatchesSession, SessionsInOrder,
                    OpenSessions, Available
<1>6. PagesValid /\ VersionIdentifiesPage
  BY DEF Init, PagesValid, VersionIdentifiesPage, BlankView
<1>7. RequestsFromPages /\ TimesPast /\ RequestsAreLate
  BY <1>2, <1>4 DEF Init, RequestsFromPages, TimesPast, RequestsAreLate
<1> QED
  BY <1>3, <1>5, <1>6, <1>7 DEF IInv

\* IInv holds in every reachable state, whatever the tabs do in whatever order.
THEOREM ServiceInvariant == Spec => []IInv
<1>1. Init => IInv
  BY InitInvariant
<1>2. IInv /\ [Next]_vars => IInv'
  <2> SUFFICES ASSUME IInv, [Next]_vars PROVE IInv'
    OBVIOUS
  <2>1. CASE Tick
    BY <2>1, TickKeepsInvariant
  <2>2. ASSUME NEW c \in Clients, ClientStep(c) PROVE IInv'
    BY <2>2, ClientStepKeepsInvariant
  <2>3. CASE UNCHANGED vars
    <3>1. /\ UNCHANGED outboxVars /\ sticks' = sticks /\ sessions' = sessions
          /\ pc' = pc /\ request' = request /\ view' = view /\ clock' = clock
      BY <2>3 DEF vars, tables, clients
    <3>2. TypeOK'
      BY <3>1 DEF IInv, TypeOK, OutboxTypeOK, outboxVars
    <3> QED
      BY <3>1, <3>2, SettleKeepsInvariant DEF tables, TabsSettle
  <2> QED
    BY <2>1, <2>2, <2>3 DEF Next
<1> QED
  BY <1>1, <1>2, PTL DEF Spec

-----------------------------------------------------------------------------
(* The properties of StickService. *)

\* The tables, requests and pages keep their types; in particular no version
\* passes math.MaxInt64 and a notification always carries a generation token.
THEOREM TypeCorrect == Spec => []TypeOK
<1>1. IInv => TypeOK
  BY DEF IInv
<1> QED
  BY <1>1, ServiceInvariant, PTL

\* A stick is held exactly while it has one open session, of its holder.
THEOREM HolderMatchesSessionHolds == Spec => []HolderMatchesSession
<1>1. IInv => HolderMatchesSession
  BY DEF IInv
<1> QED
  BY <1>1, ServiceInvariant, PTL

\* The version on a page identifies the stick and the history it shows.
THEOREM VersionIdentifiesPageHolds == Spec => []VersionIdentifiesPage
<1>1. IInv => VersionIdentifiesPage
  BY DEF IInv
<1> QED
  BY <1>1, ServiceInvariant, PTL

\* Sessions of a stick never overlap, although their times are read before
\* the transactions that store them.
THEOREM SessionsInOrderHolds == Spec => []SessionsInOrder
<1>1. IInv => SessionsInOrder
  BY DEF IInv
<1> QED
  BY <1>1, ServiceInvariant, PTL

\* The errors of CreateSession and CloseSession for inconsistent tables
\* cannot occur.
THEOREM NoInconsistentSessionHolds == Spec => []NoInconsistentSession
<1>1. IInv => NoInconsistentSession
  <2> SUFFICES ASSUME IInv, NEW c \in Clients
               PROVE  /\ Handling(c, "claim") => ClaimStickError(c) # "internal"
                      /\ Handling(c, "release") => ReleaseStickError(c) # "internal"
    BY DEF NoInconsistentSession
  <2> DEFINE id == request[c].stick
  <2>1. ASSUME pc[c] = "submitted" PROVE id \in StickIDs
    BY <2>1 DEF IInv, PagesValid, RequestsFromPages
  <2>2. ASSUME Handling(c, "claim"), ClaimStickError(c) = "internal" PROVE FALSE
    <3>1. ClaimError(Current(c), request[c].reasonValid) = "nil" /\ CreateSessionError(id) # "nil"
      BY <2>2 DEF ClaimStickError, FirstError, ErrorIf, ValidateClaimReason, VersionError,
                  ClaimError, IncrementError, CreateSessionError
    <3>2. Available(sticks[id])
      BY <3>1, FirstErrorNil DEF ClaimError, ErrorIf, Current
    <3>3. OpenSessions(id) = {}
      BY <2>1, <2>2, <3>2 DEF IInv, HolderMatchesSession, Handling
    <3> QED
      BY <3>1, <3>3 DEF CreateSessionError, ErrorIf
  <2>3. ASSUME Handling(c, "release"), ReleaseStickError(c) = "internal" PROVE FALSE
    <3>1. ReleaseError(Current(c), UserOf[c]) = "nil" /\ CloseSessionError(id, UserOf[c]) # "nil"
      BY <2>3 DEF ReleaseStickError, FirstError, ErrorIf, VersionError, ReleaseError,
                  IncrementError, CloseSessionError
    <3>2. ~Available(sticks[id]) /\ sticks[id].holder = UserOf[c]
      BY <3>1, FirstErrorNil DEF ReleaseError, ErrorIf, Current
    <3>3. PICK n \in DOMAIN sessions :
             OpenSessions(id) = {n} /\ sessions[n].holder = UserOf[c]
      BY <2>1, <2>3, <3>2 DEF IInv, HolderMatchesSession, Handling
    <3>4. n \in OpenSessions(id) /\ ClosingSessions(id, UserOf[c]) = {n}
      BY <3>3 DEF ClosingSessions
    <3> QED
      BY <3>1, <3>4 DEF CloseSessionError, ErrorIf
  <2> QED
    BY <2>2, <2>3
<1> QED
  BY <1>1, ServiceInvariant, PTL

\* No lost update: a transaction that changes a stick found it exactly as the
\* submitting tab showed it.
THEOREM ChangesOnlyWhatWasSeenHolds == Spec => ChangesOnlyWhatWasSeen
<1> DEFINE Seen == \A c \in Clients :
                      pc[c] = "submitted" /\ pc'[c] # "submitted"
                          /\ sticks'[request[c].stick] # sticks[request[c].stick]
                      => view[c].state = sticks[request[c].stick]
<1>1. IInv /\ [Next]_vars => [Seen]_vars
  <2> SUFFICES ASSUME IInv, Next, NEW c \in Clients,
                      pc[c] = "submitted", pc'[c] # "submitted",
                      sticks'[request[c].stick] # sticks[request[c].stick]
               PROVE  view[c].state = sticks[request[c].stick]
    OBVIOUS
  <2>1. PICK d \in Clients : ClientStep(d)
    BY DEF Next, Tick, tables
  <2>2. d = c
    <3> SUFFICES ASSUME d # c PROVE pc'[c] = pc[c]
      OBVIOUS
    <3>1. pc \in [Clients -> {"idle", "submitted", "rerender", "check_history",
                              "get_history", "get_subscriptions"}]
      BY DEF IInv, TypeOK
    <3> QED
      BY <2>1, <3>1 DEF ClientStep, Detail, RenderCurrentStickDetail, CheckHistoryVisible,
             GetHistory, SubscribedStickIDs, ReadFails, GetStick, ShowPage, Submit,
             TransactionFails, CreateStick, RenameStick, ArchiveStick, UnarchiveStick,
             ClaimStick, ReleaseStick, SubscribeStick, UnsubscribeStick, Reject, Respond, clients
  <2>3. VersionError(c) = "nil"
    <3>1. \/ RenameStick(c) \/ ArchiveStick(c) \/ UnarchiveStick(c)
          \/ ClaimStick(c) \/ ReleaseStick(c)
      BY <2>1, <2>2 DEF ClientStep, Detail, RenderCurrentStickDetail, CheckHistoryVisible,
             GetHistory, SubscribedStickIDs, ReadFails, GetStick, ShowPage, Submit,
             TransactionFails, CreateStick, SubscribeStick, UnsubscribeStick, Reject, tables
    <3>2. \A err : ~Reject(c, err)
      BY DEF Reject, tables
    <3>3. CASE RenameStick(c)
      BY <3>2, <3>3, FirstErrorNil DEF RenameStick, RenameStickError
    <3>4. CASE ArchiveStick(c)
      BY <3>2, <3>4, FirstErrorNil DEF ArchiveStick, ArchiveStickError
    <3>5. CASE UnarchiveStick(c)
      BY <3>2, <3>5, FirstErrorNil DEF UnarchiveStick, UnarchiveStickError
    <3>6. CASE ClaimStick(c)
      BY <3>2, <3>6, FirstErrorNil DEF ClaimStick, ClaimStickError
    <3>7. CASE ReleaseStick(c)
      BY <3>2, <3>7, FirstErrorNil DEF ReleaseStick, ReleaseStickError
    <3> QED
      BY <3>1, <3>3, <3>4, <3>5, <3>6, <3>7
  <2>4. /\ request[c].stick = view[c].stick /\ view[c].stick \in StickIDs
        /\ view[c].state.version = sticks[view[c].stick].version
    BY <2>3 DEF IInv, PagesValid, RequestsFromPages, VersionError, ErrorIf
  <2> QED
    BY <2>4, PageShows
<1> QED
  BY <1>1, ServiceInvariant, PTL DEF Spec, ChangesOnlyWhatWasSeen

\* A form the page offers, while its version is current, is refused for
\* nothing but an exhausted version.
THEOREM OfferedFormAppliesHolds == Spec => []OfferedFormApplies
<1>1. IInv => OfferedFormApplies
  <2> SUFFICES ASSUME IInv, NEW c \in Clients, view[c].stick # NULL, pc[c] = "idle",
                      view[c].state.version = sticks[view[c].stick].version
               PROVE  LET now == sticks[view[c].stick]
                          Refusals(op) ==
                            CASE op = "claim"     -> ClaimError(now, TRUE)
                              [] op = "release"   -> ReleaseError(now, UserOf[c])
                              [] op = "archive"   -> ArchiveError(now)
                              [] op = "unarchive" -> UnarchiveError(now)
                              [] op = "rename"    -> "nil"
                              [] OTHER            -> ErrorIf(Available(now) \/ now.holder = UserOf[c],
                                                             "not held by another")
                      IN  \A op \in Offered(view[c], UserOf[c]) :
                              Refusals(op) \in {"nil", "ErrVersionExhausted"}
    BY DEF OfferedFormApplies
  <2>1. view[c].state = sticks[view[c].stick]
    BY DEF IInv, VersionIdentifiesPage
  <2> QED
    BY <2>1 DEF Offered, HeldByMe, HeldByOther, Available, ClaimError, ReleaseError,
                ArchiveError, UnarchiveError, IncrementError, ValidateClaimReason, FirstError, ErrorIf
<1> QED
  BY <1>1, ServiceInvariant, PTL


-----------------------------------------------------------------------------
(* The transactions implement the contract of a store. *)

\* A generation is handed out once: everything stored is below the next token.
TokensUsed ==
    /\ \A id \in StickIDs, u \in Users : subscriptions[id][u] < nextToken
    /\ \A n \in DOMAIN outbox : outbox[n].generation < nextToken

\* What a step does to the notification tables.
LEMMA OutboxStep ==
  ASSUME IInv, NEW c \in Clients, ClientStep(c)
  PROVE  LET id == request[c].stick IN
         \/ UNCHANGED outboxVars /\ (ReleaseStick(c) => UNCHANGED tables)
         \/ /\ id \in StickIDs /\ UserOf[c] \in Users /\ sticks' = sticks /\ sticks[id].version > 0
            /\ Subscribe(id, UserOf[c]) \/ Unsubscribe(id, UserOf[c])
         \/ /\ id \in StickIDs /\ request[c].at \in Nat /\ Current(c).claimedAt \in Nat
            /\ EnqueueReleaseNotifications(id, Current(c).claimedAt, request[c].at)
            /\ ~Available(sticks[id]) /\ IncrementError(sticks[id]) = "nil"
            /\ SaveStick(id, Release(sticks[id]))
<1> DEFINE id == request[c].stick
<1>0. ASSUME pc[c] = "submitted"
      PROVE  /\ id \in StickIDs /\ UserOf[c] \in Users /\ request[c].at \in Nat
             /\ sticks[id] \in Stick
             /\ VersionError(c) = "nil" => sticks[id].version > 0
  <2>1. id \in StickIDs /\ view[c].state \in Stick /\ view[c].state.version >= 1
        /\ request[c].version = view[c].state.version /\ view[c].stick # NULL
    BY <1>0, TypesAssumption DEF IInv, PagesValid, RequestsFromPages, TypeOK, View
  <2> QED
    BY <1>0, <2>1, ServiceAssumption, CoreAssumption
       DEF IInv, TypeOK, Request, VersionError, ErrorIf, Stick
<1>1. CASE SubscribeStick(c) \/ UnsubscribeStick(c)
  BY <1>0, <1>1 DEF SubscribeStick, UnsubscribeStick, ReleaseStick, Reject, Handling, tables
<1>2. CASE ReleaseStick(c)
  <2>1. CASE Reject(c, ReleaseStickError(c))
    BY <2>1 DEF Reject
  <2>2. CASE ~Reject(c, ReleaseStickError(c))
    <3>1. /\ ReleaseError(Current(c), UserOf[c]) = "nil"
          /\ SaveStick(id, Release(sticks[id]))
          /\ EnqueueReleaseNotifications(id, Current(c).claimedAt, request[c].at)
          /\ pc[c] = "submitted"
      BY <1>2, <2>2, FirstErrorNil DEF ReleaseStick, ReleaseStickError, Current, Handling
    <3>2. ~Available(sticks[id]) /\ IncrementError(sticks[id]) = "nil"
      BY <3>1, FirstErrorNil DEF ReleaseError, ErrorIf, Current
    <3> QED
      BY <1>0, <3>1, <3>2 DEF Current, Stick
  <2> QED
    BY <2>1, <2>2
<1> QED
  BY <1>1, <1>2 DEF ClientStep, Detail, RenderCurrentStickDetail, CheckHistoryVisible,
         GetHistory, SubscribedStickIDs, ReadFails, GetStick, ShowPage, Submit,
         TransactionFails, CreateStick, RenameStick, ArchiveStick, UnarchiveStick,
         ClaimStick, Reject

\* The row of a subscriber: unsettled, with the subscriber's generation.
LEMMA NewRowShape ==
  ASSUME NEW id, NEW u, NEW held, NEW at
  PROVE  /\ NewRow(id, u, held, at).stick = id
         /\ NewRow(id, u, held, at).recipient = u
         /\ NewRow(id, u, held, at).generation = subscriptions[id][u]
         /\ NewRow(id, u, held, at).status = "pending"
  BY DEF NewRow

\* No token that is stored will be handed out again.
THEOREM TokensUsedHolds == Spec => []TokensUsed
<1>1. Init => TokensUsed
  BY DEF Init, OutboxInit, TokensUsed, NoToken
<1>2. IInv /\ TokensUsed /\ [Next]_vars => TokensUsed'
  <2> SUFFICES ASSUME IInv, TokensUsed, [Next]_vars PROVE TokensUsed'
    OBVIOUS
  <2>1. CASE UNCHANGED outboxVars
    BY <2>1 DEF TokensUsed, outboxVars
  <2>2. ASSUME NEW id \in StickIDs, NEW u \in Users, Subscribe(id, u) \/ Unsubscribe(id, u)
        PROVE  TokensUsed'
    <3>1. ASSUME NEW n \in DOMAIN outbox PROVE outbox[n].generation \in Nat
      <4>1. outbox[n] \in Row
        BY ElementOfSeq, LenProperties DEF IInv, TypeOK, OutboxTypeOK
      <4> QED
        BY <4>1 DEF Row
    <3>2. /\ subscriptions \in [StickIDs -> [Users -> Nat]]
          /\ nextToken \in Nat \ {0}
          /\ nextToken' \in {nextToken, nextToken + 1}
          /\ outbox' = outbox
      BY <2>2 DEF IInv, TypeOK, OutboxTypeOK, Subscribe, Unsubscribe, NoToken
    <3>3. ASSUME NEW i \in StickIDs, NEW v \in Users PROVE subscriptions'[i][v] < nextToken'
      <4>1. \/ subscriptions'[i][v] = subscriptions[i][v]
            \/ subscriptions'[i][v] = nextToken /\ nextToken' = nextToken + 1
            \/ subscriptions'[i][v] = 0
        BY <2>2, <3>2 DEF Subscribe, Unsubscribe, NoToken
      <4> QED
        BY <3>2, <4>1 DEF TokensUsed
    <3> QED
      BY <3>1, <3>2, <3>3 DEF TokensUsed
  <2>3. ASSUME NEW id \in StickIDs, NEW held \in Nat, NEW at \in Nat,
               EnqueueReleaseNotifications(id, held, at)
        PROVE  TokensUsed'
    <3>1. UNCHANGED <<subscriptions, nextToken>>
      BY <2>3 DEF EnqueueReleaseNotifications
    <3>2. OutboxTypeOK /\ Len(outbox) \in Nat /\ DOMAIN outbox = 1..Len(outbox)
      BY LenProperties DEF IInv, TypeOK, OutboxTypeOK
    <3>3. /\ OutboxTypeOK'
          /\ \A n \in 1..Len(outbox) : outbox'[n] = outbox[n]
          /\ \A n \in (Len(outbox) + 1)..Len(outbox') :
                \E u \in Subscribers(id) : outbox'[n] = NewRow(id, u, held, at)
      BY <2>3, <3>2, EnqueueAppends
    <3>4. Len(outbox') \in Nat /\ DOMAIN outbox' = 1..Len(outbox')
      BY <3>3, LenProperties DEF OutboxTypeOK
    <3>5. ASSUME NEW n \in DOMAIN outbox' PROVE outbox'[n].generation < nextToken
      <4>1. CASE n \in 1..Len(outbox)
        BY <3>2, <3>3, <4>1 DEF TokensUsed
      <4>2. CASE n \notin 1..Len(outbox)
        <5>1. n \in (Len(outbox) + 1)..Len(outbox')
          BY <3>2, <3>4, <4>2
        <5>2. PICK u \in Subscribers(id) : outbox'[n] = NewRow(id, u, held, at)
          BY <3>3, <5>1
        <5>3. outbox'[n].generation = subscriptions[id][u] /\ u \in Users
          BY <5>2, NewRowShape DEF Subscribers
        <5> QED
          BY <5>3 DEF TokensUsed
      <4> QED
        BY <4>1, <4>2
    <3> QED
      BY <3>1, <3>5 DEF TokensUsed
  <2>4. ASSUME NEW c \in Clients, ClientStep(c) PROVE TokensUsed'
    BY <2>1, <2>2, <2>3, <2>4, OutboxStep
  <2> QED
    BY <2>1, <2>4 DEF Next, Tick, vars
<1> QED
  BY <1>1, <1>2, ServiceInvariant, PTL DEF Spec

\* The number of open sessions follows from whether the stick is held.
LEMMA OpenCount ==
  ASSUME NEW id \in StickIDs
  PROVE  /\ IInv => Cardinality(OpenSessions(id)) = IF Available(sticks[id]) THEN 0 ELSE 1
         /\ IInv' => Cardinality(OpenSessions(id)') = IF Available(sticks'[id]) THEN 0 ELSE 1
<1>1. Cardinality({}) = 0 /\ \A n : Cardinality({n}) = 1
  BY FS_EmptySet, FS_Singleton
<1>2. /\ IInv => IF Available(sticks[id]) THEN OpenSessions(id) = {}
                                          ELSE \E n : OpenSessions(id) = {n}
      /\ IInv' => IF Available(sticks'[id]) THEN OpenSessions(id)' = {}
                                            ELSE \E n : OpenSessions(id)' = {n}
  BY DEF IInv, HolderMatchesSession
<1> QED
  BY <1>1, <1>2

\* The contract sees nothing of a step that leaves a stick, its
\* subscriptions and its notifications alone.
LEMMA ContractStutters ==
  ASSUME IInv, IInv', NEW id \in StickIDs,
         sticks'[id] = sticks[id], subscriptions'[id] = subscriptions[id],
         QueuedRows(id)' = QueuedRows(id)
  PROVE  UNCHANGED Contract(id)!vars
<1>1. Cardinality(OpenSessions(id))' = Cardinality(OpenSessions(id))
  BY OpenCount
<1> QED
  BY <1>1 DEF Contract!vars, Available

\* A transaction that changes a stick takes its next version: an edit when it
\* keeps the holder, a claim or a release when it does not.
LEMMA ContractEdits ==
  ASSUME IInv, IInv', NEW id \in StickIDs,
         sticks'[id].version = sticks[id].version + 1,
         subscriptions'[id] = subscriptions[id], QueuedRows(id)' = QueuedRows(id)
  PROVE  /\ (Available(sticks'[id]) <=> Available(sticks[id])) => Contract(id)!Edit
         /\ /\ Available(sticks[id]) /\ ~Available(sticks'[id])
            /\ sticks[id].version > 0
            => Contract(id)!Claim
<1>1. /\ Cardinality(OpenSessions(id)) = IF Available(sticks[id]) THEN 0 ELSE 1
      /\ Cardinality(OpenSessions(id)') = IF Available(sticks'[id]) THEN 0 ELSE 1
  BY OpenCount
<1>2. (Available(sticks'[id]) <=> Available(sticks[id])) => Contract(id)!Edit
  BY <1>1 DEF Contract!Edit
<1>3. /\ Available(sticks[id]) /\ ~Available(sticks'[id]) /\ sticks[id].version > 0
      => Contract(id)!Claim
  BY <1>1 DEF Contract!Claim
<1> QED
  BY <1>2, <1>3

\* A table of notifications that is not written shows every stick the same.
LEMMA SameQueue ==
  ASSUME outbox' = outbox, NEW id
  PROVE  QueuedRows(id)' = QueuedRows(id)
  BY DEF QueuedRows

\* The rows of the contract for one stick.
LEMMA QueuedRowsShape ==
  ASSUME NEW id
  PROVE  /\ DOMAIN QueuedRows(id) = {n \in DOMAIN outbox : outbox[n].stick = id}
         /\ \A n \in DOMAIN outbox : outbox[n].stick = id =>
               /\ QueuedRows(id)[n].user = outbox[n].recipient
               /\ QueuedRows(id)[n].generation = outbox[n].generation
               /\ QueuedRows(id)[n].settled <=> outbox[n].status = "succeeded"
  BY DEF QueuedRows

\* Subscribing takes a generation that nobody has and no notification names;
\* unsubscribing takes none.
LEMMA ContractSubscribes ==
  ASSUME IInv, IInv', TokensUsed, NEW id \in StickIDs, NEW user \in Users,
         sticks' = sticks, sticks[id].version > 0
  PROVE  /\ Subscribe(id, user) => Contract(id)!Subscribe(user)
         /\ Unsubscribe(id, user) => Contract(id)!Unsubscribe(user)
<1>1. subscriptions \in [StickIDs -> [Users -> Nat]] /\ nextToken \in Nat \ {NoToken}
  BY DEF IInv, TypeOK, OutboxTypeOK
<1>2. Cardinality(OpenSessions(id))' = Cardinality(OpenSessions(id))
  BY OpenCount
<1>3. ASSUME Subscribe(id, user) PROVE Contract(id)!Subscribe(user)
  <2>1. /\ QueuedRows(id)' = QueuedRows(id)
        /\ subscriptions'[id] = [subscriptions[id] EXCEPT ![user] = nextToken]
        /\ subscriptions'[id][user] = nextToken
    BY <1>1, <1>3, SameQueue DEF Subscribe
  <2>2. \A u \in Users : subscriptions[id][u] # nextToken
    BY <1>1 DEF TokensUsed
  <2>3. ASSUME NEW n \in DOMAIN QueuedRows(id) PROVE QueuedRows(id)[n].generation # nextToken
    <3>1. n \in DOMAIN outbox /\ QueuedRows(id)[n].generation = outbox[n].generation
      BY QueuedRowsShape
    <3> QED
      BY <1>1, <3>1 DEF TokensUsed
  <2>4. Contract(id)!Fresh(nextToken)
    BY <1>1, <2>2, <2>3 DEF Contract!Fresh
  <2> QED
    BY <1>2, <2>1, <2>4 DEF Contract!Subscribe
<1>4. ASSUME Unsubscribe(id, user) PROVE Contract(id)!Unsubscribe(user)
  <2>1. /\ QueuedRows(id)' = QueuedRows(id)
        /\ subscriptions'[id] = [subscriptions[id] EXCEPT ![user] = NoToken]
    BY <1>1, <1>4, SameQueue DEF Unsubscribe
  <2> QED
    BY <1>2, <2>1 DEF Contract!Unsubscribe
<1> QED
  BY <1>3, <1>4

\* Appending to the table keeps what a stick has and adds the rows that are its own.
LEMMA QueueGrows ==
  ASSUME IInv, IInv', NEW s, Len(outbox') >= Len(outbox),
         \A n \in 1..Len(outbox) : outbox'[n] = outbox[n]
  PROVE  /\ \A n \in DOMAIN QueuedRows(s) :
               n \in DOMAIN QueuedRows(s)' /\ QueuedRows(s)'[n] = QueuedRows(s)[n]
         /\ \A n : n \in DOMAIN QueuedRows(s)' \ DOMAIN QueuedRows(s) <=>
                      n \in (Len(outbox) + 1)..Len(outbox') /\ outbox'[n].stick = s
         /\ \A n \in DOMAIN QueuedRows(s)' :
               /\ QueuedRows(s)'[n].user = outbox'[n].recipient
               /\ QueuedRows(s)'[n].generation = outbox'[n].generation
               /\ QueuedRows(s)'[n].settled <=> outbox'[n].status = "succeeded"
<1> DEFINE Entry(row) == [user |-> row.recipient, generation |-> row.generation,
                          settled |-> row.status = "succeeded"]
           D == {n \in DOMAIN outbox : outbox[n].stick = s}
           E == {n \in DOMAIN outbox' : outbox'[n].stick = s}
<1>1. /\ Len(outbox) \in Nat /\ DOMAIN outbox = 1..Len(outbox)
      /\ Len(outbox') \in Nat /\ DOMAIN outbox' = 1..Len(outbox')
  BY LenProperties DEF IInv, TypeOK, OutboxTypeOK
<1>2. /\ QueuedRows(s) = [n \in D |-> Entry(outbox[n])]
      /\ QueuedRows(s)' = [n \in E |-> Entry(outbox'[n])]
  BY DEF QueuedRows
<1>3. \A row : /\ Entry(row).user = row.recipient
               /\ Entry(row).generation = row.generation
               /\ Entry(row).settled <=> row.status = "succeeded"
  OBVIOUS
<1>4. /\ D \subseteq E
      /\ \A n : n \in E \ D <=> n \in (Len(outbox) + 1)..Len(outbox') /\ outbox'[n].stick = s
      /\ \A n \in D : outbox'[n] = outbox[n]
  BY <1>1
<1> HIDE DEF Entry, D, E
<1> QED
  BY <1>2, <1>3, <1>4

\* A release queues one notification for every subscription of its stick and
\* none for another stick.
LEMMA ContractReleases ==
  ASSUME IInv, IInv', NEW id \in StickIDs, NEW held \in Nat, NEW at \in Nat,
         EnqueueReleaseNotifications(id, held, at),
         ~Available(sticks[id]), Available(sticks'[id]),
         sticks'[id].version = sticks[id].version + 1
  PROVE  /\ Contract(id)!Release
         /\ \A other \in StickIDs \ {id} : QueuedRows(other)' = QueuedRows(other)
<1> DEFINE New == (Len(outbox) + 1)..Len(outbox')
<1>2. /\ Len(outbox') >= Len(outbox)
      /\ \A n \in 1..Len(outbox) : outbox'[n] = outbox[n]
      /\ \A n \in New : \E u \in Subscribers(id) : outbox'[n] = NewRow(id, u, held, at)
      /\ \A u \in Subscribers(id) : \E n \in New : outbox'[n] = NewRow(id, u, held, at)
      /\ \A m, n \in New : outbox'[m].recipient = outbox'[n].recipient => m = n
  BY EnqueueAppends DEF IInv, TypeOK
<1>3. subscriptions' = subscriptions
  BY DEF EnqueueReleaseNotifications
<1>4. ASSUME NEW n \in New
      PROVE  \E u \in Users :
                /\ subscriptions[id][u] # NoToken
                /\ outbox'[n].stick = id /\ outbox'[n].recipient = u
                /\ outbox'[n].generation = subscriptions[id][u]
                /\ outbox'[n].status = "pending"
  BY <1>2, <1>4, NewRowShape DEF Subscribers
<1>5. ASSUME NEW u \in Users, subscriptions[id][u] # NoToken
      PROVE  \E n \in New : /\ outbox'[n].recipient = u
                            /\ outbox'[n].generation = subscriptions[id][u]
  BY <1>2, <1>5, NewRowShape DEF Subscribers
<1> DEFINE old == QueuedRows(id)
           new == QueuedRows(id)'
           Added == DOMAIN new \ DOMAIN old
<1>6. /\ \A n \in DOMAIN old : n \in DOMAIN new /\ new[n] = old[n]
      /\ \A n : n \in Added <=> n \in New /\ outbox'[n].stick = id
      /\ \A n \in DOMAIN new :
            /\ new[n].user = outbox'[n].recipient
            /\ new[n].generation = outbox'[n].generation
            /\ new[n].settled <=> outbox'[n].status = "succeeded"
  BY <1>2, QueueGrows
<1>8. ASSUME NEW other \in StickIDs \ {id} PROVE QueuedRows(other)' = QueuedRows(other)
  <2>1. \A n : n \in DOMAIN QueuedRows(other)' \ DOMAIN QueuedRows(other) <=>
                 n \in New /\ outbox'[n].stick = other
    BY <1>2, QueueGrows
  <2>2. \A n \in DOMAIN QueuedRows(other) :
           n \in DOMAIN QueuedRows(other)' /\ QueuedRows(other)'[n] = QueuedRows(other)[n]
    BY <1>2, QueueGrows
  <2>3. DOMAIN QueuedRows(other)' = DOMAIN QueuedRows(other)
    BY <1>4, <2>1, <2>2
  <2>4. /\ QueuedRows(other) = [n \in DOMAIN QueuedRows(other) |-> QueuedRows(other)[n]]
        /\ QueuedRows(other)' = [n \in DOMAIN QueuedRows(other)' |-> QueuedRows(other)'[n]]
    BY DEF QueuedRows
  <2> QED
    BY <2>2, <2>3, <2>4
<1>9. /\ Cardinality(OpenSessions(id)) = 1
      /\ Cardinality(OpenSessions(id)') = 0
  BY OpenCount
<1> HIDE DEF old, new, New
<1>10. \A n \in Added :
          /\ ~new[n].settled
          /\ \E u \in Users : /\ subscriptions[id][u] # NoToken
                              /\ new[n].user = u
                              /\ new[n].generation = subscriptions[id][u]
  BY <1>4, <1>6
<1>11. \A u \in Users : subscriptions[id][u] # NoToken =>
          \E n \in Added : new[n].user = u /\ new[n].generation = subscriptions[id][u]
  BY <1>4, <1>5, <1>6
<1>12. \A m, n \in Added : new[m].user = new[n].user => m = n
  BY <1>2, <1>6
<1>14. Contract(id)!Release
  BY <1>3, <1>6, <1>9, <1>10, <1>11, <1>12
     DEF Contract!Release, Contract!Added, Contract!Subscriptions, old, new
<1> QED
  BY <1>8, <1>14

\* What a step that leaves the notification tables alone does to a stick.
LEMMA StickStep ==
  ASSUME IInv, NEW c \in Clients, ClientStep(c), ReleaseStick(c) => UNCHANGED tables,
         NEW id \in StickIDs
  PROVE  \/ sticks'[id] = sticks[id]
         \/ /\ sticks'[id].version = sticks[id].version + 1
            /\ \/ Available(sticks'[id]) <=> Available(sticks[id])
               \/ /\ Available(sticks[id]) /\ ~Available(sticks'[id])
                  /\ sticks[id].version > 0
<1> DEFINE r == request[c].stick
<1>1. ASSUME pc[c] = "submitted"
      PROVE  r \in StickIDs /\ Current(c) \in Stick /\ Current(c) = sticks[r]
  BY <1>1 DEF IInv, PagesValid, RequestsFromPages, TypeOK, Current
<1>2. sticks \in [StickIDs -> Stick]
  BY DEF IInv, TypeOK
<1>3. ASSUME NEW s \in StickIDs, NEW stick \in Stick, sticks' = [sticks EXCEPT ![s] = stick]
      PROVE  sticks'[id] = IF s = id THEN stick ELSE sticks[id]
  BY <1>2, <1>3
<1>4. ASSUME NEW s \in StickIDs, NEW name \in Names, CreateStick(c, s, name)
      PROVE  \/ sticks'[id] = sticks[id]
             \/ /\ sticks'[id].version = sticks[id].version + 1
                /\ Available(sticks'[id]) <=> Available(sticks[id])
  <2>1. /\ NewStick(name) \in Stick /\ NewStick(name).version = 1
        /\ Available(NewStick(name))
    BY NewStickType DEF Available
  <2>2. sticks'[id] = IF s = id THEN NewStick(name) ELSE sticks[id]
    BY <1>3, <1>4, <2>1 DEF CreateStick
  <2>3. sticks[s].version = 0 /\ Available(sticks[s])
    BY <1>4 DEF CreateStick, IInv, AbsentIsAvailable
  <2> QED
    BY <2>1, <2>2, <2>3
<1>5. CASE RenameStick(c) /\ sticks' # sticks
  <2>1. /\ RenameStickError(c) = "nil" /\ pc[c] = "submitted"
        /\ SaveStick(r, Rename(Current(c), request[c].name))
    BY <1>5 DEF RenameStick, Reject, Handling, tables
  <2>2. request[c].name \in Names /\ IncrementError(Current(c)) = "nil"
    <3>1. ValidateStickName(request[c].name) = "nil" /\ RenameError(Current(c), request[c].name) = "nil"
      BY <2>1, FirstErrorNil DEF RenameStickError
    <3> QED
      BY <3>1, FirstErrorNil, CoreAssumption DEF ValidateStickName, RenameError, ErrorIf
  <2> DEFINE new == Rename(Current(c), request[c].name)
  <2>3. new \in Stick /\ new.version = sticks[r].version + 1 /\ new.holder = sticks[r].holder
    BY <1>1, <2>1, <2>2, TransitionTypes
  <2> QED
    BY <1>1, <1>3, <2>1, <2>3 DEF SaveStick, Available
<1>6. CASE ArchiveStick(c) /\ sticks' # sticks
  <2>1. /\ ArchiveError(Current(c)) = "nil" /\ pc[c] = "submitted"
        /\ SaveStick(r, Archive(Current(c)))
    BY <1>6, FirstErrorNil DEF ArchiveStick, ArchiveStickError, Reject, Handling, tables
  <2>2. IncrementError(Current(c)) = "nil"
    BY <2>1, FirstErrorNil DEF ArchiveError
  <2> DEFINE new == Archive(Current(c))
  <2>3. new \in Stick /\ new.version = sticks[r].version + 1 /\ new.holder = sticks[r].holder
    BY <1>1, <2>1, <2>2, TransitionTypes
  <2> QED
    BY <1>1, <1>3, <2>1, <2>3 DEF SaveStick, Available
<1>7. CASE UnarchiveStick(c) /\ sticks' # sticks
  <2>1. /\ UnarchiveError(Current(c)) = "nil" /\ pc[c] = "submitted"
        /\ SaveStick(r, Unarchive(Current(c)))
    BY <1>7, FirstErrorNil DEF UnarchiveStick, UnarchiveStickError, Reject, Handling, tables
  <2>2. IncrementError(Current(c)) = "nil"
    BY <2>1, FirstErrorNil DEF UnarchiveError
  <2> DEFINE new == Unarchive(Current(c))
  <2>3. new \in Stick /\ new.version = sticks[r].version + 1 /\ new.holder = sticks[r].holder
    BY <1>1, <2>1, <2>2, TransitionTypes
  <2> QED
    BY <1>1, <1>3, <2>1, <2>3 DEF SaveStick, Available
<1>8. CASE ClaimStick(c) /\ sticks' # sticks
  <2>1. /\ ClaimError(Current(c), request[c].reasonValid) = "nil" /\ pc[c] = "submitted"
        /\ SaveStick(r, Claim(Current(c), UserOf[c], request[c].at))
    BY <1>8, FirstErrorNil DEF ClaimStick, ClaimStickError, Reject, Handling, tables
  <2>2. IncrementError(Current(c)) = "nil" /\ Available(Current(c)) /\ Current(c).version > 0
    <3>1. IncrementError(Current(c)) = "nil" /\ ErrorIf(~Available(Current(c)), "ErrAlreadyHeld") = "nil"
      BY <2>1, FirstErrorNil DEF ClaimError
    <3> QED
      BY <1>1, <2>1, <3>1, CoreAssumption DEF IncrementError, ErrorIf, Stick
  <2>3. UserOf[c] \in Users /\ request[c].at \in Nat
    BY ServiceAssumption DEF IInv, TypeOK, Request
  <2> DEFINE new == Claim(Current(c), UserOf[c], request[c].at)
  <2>4. new \in Stick /\ new.version = sticks[r].version + 1 /\ ~Available(new)
    BY <1>1, <2>1, <2>2, <2>3, TransitionTypes, TypesAssumption DEF Available
  <2> QED
    BY <1>1, <1>3, <2>1, <2>2, <2>4 DEF SaveStick
<1> QED
  BY <1>4, <1>5, <1>6, <1>7, <1>8
     DEF ClientStep, Detail, RenderCurrentStickDetail, CheckHistoryVisible,
         GetHistory, SubscribedStickIDs, ReadFails, GetStick, ShowPage, Submit,
         TransactionFails, SubscribeStick, UnsubscribeStick, Reject, tables

\* Every step of a tab is, for every stick, a step of the contract or none.
LEMMA ClientStepContract ==
  ASSUME IInv, TokensUsed, NEW c \in Clients, ClientStep(c), NEW id \in StickIDs
  PROVE  UNCHANGED Contract(id)!vars \/ Contract(id)!Next
<1>1. IInv'
  BY ClientStepKeepsInvariant
<1>2. subscriptions \in [StickIDs -> [Users -> Nat]]
  BY DEF IInv, TypeOK, OutboxTypeOK
<1>3. ASSUME UNCHANGED outboxVars, ReleaseStick(c) => UNCHANGED tables
      PROVE  UNCHANGED Contract(id)!vars \/ Contract(id)!Next
  <2>1. subscriptions'[id] = subscriptions[id] /\ QueuedRows(id)' = QueuedRows(id)
    BY <1>3, SameQueue DEF outboxVars
  <2>2. CASE sticks'[id] = sticks[id]
    BY <1>1, <2>1, <2>2, ContractStutters
  <2>3. CASE /\ sticks'[id].version = sticks[id].version + 1
             /\ Available(sticks'[id]) <=> Available(sticks[id])
    BY <1>1, <2>1, <2>3, ContractEdits DEF Contract!Next
  <2>4. CASE /\ sticks'[id].version = sticks[id].version + 1
             /\ Available(sticks[id]) /\ ~Available(sticks'[id])
             /\ sticks[id].version > 0
    BY <1>1, <2>1, <2>4, ContractEdits DEF Contract!Next
  <2> QED
    BY <1>3, <2>2, <2>3, <2>4, StickStep
<1>4. ASSUME NEW r \in StickIDs, r = request[c].stick, UserOf[c] \in Users, sticks' = sticks, sticks[r].version > 0,
             Subscribe(r, UserOf[c]) \/ Unsubscribe(r, UserOf[c])
      PROVE  UNCHANGED Contract(id)!vars \/ Contract(id)!Next
  <2>1. CASE id = r
    BY <1>1, <1>4, <2>1, ContractSubscribes DEF Contract!Next
  <2>2. CASE id # r
    <3>1. subscriptions'[id] = subscriptions[id] /\ outbox' = outbox
      BY <1>2, <1>4, <2>2 DEF Subscribe, Unsubscribe
    <3> QED
      BY <1>1, <1>4, <3>1, SameQueue, ContractStutters
  <2> QED
    BY <2>1, <2>2
<1>5. ASSUME NEW r \in StickIDs, r = request[c].stick, request[c].at \in Nat, Current(c).claimedAt \in Nat,
             EnqueueReleaseNotifications(r, Current(c).claimedAt, request[c].at),
             ~Available(sticks[r]), IncrementError(sticks[r]) = "nil",
             SaveStick(r, Release(sticks[r]))
      PROVE  UNCHANGED Contract(id)!vars \/ Contract(id)!Next
  <2>1. sticks \in [StickIDs -> Stick] /\ sticks[r] \in Stick
    BY <1>5 DEF IInv, TypeOK
  <2>2. /\ sticks'[r].version = sticks[r].version + 1 /\ Available(sticks'[r])
        /\ \A other \in StickIDs \ {r} : sticks'[other] = sticks[other]
    BY <1>5, <2>1, TransitionTypes DEF SaveStick, Available
  <2>3. /\ Contract(r)!Release
        /\ \A other \in StickIDs \ {r} : QueuedRows(other)' = QueuedRows(other)
    BY <1>1, <1>5, <2>2, ContractReleases
  <2>4. subscriptions' = subscriptions
    BY <1>5 DEF EnqueueReleaseNotifications
  <2>5. CASE id = r
    BY <2>3, <2>5 DEF Contract!Next
  <2>6. CASE id # r
    BY <1>1, <2>2, <2>3, <2>4, <2>6, ContractStutters
  <2> QED
    BY <2>5, <2>6
<1> QED
  BY <1>3, <1>4, <1>5, OutboxStep

\* However tabs interleave, every stick, with its sessions, subscriptions and
\* notifications, changes as the contract of a store says.
THEOREM ImplementsContractHolds == Spec => ImplementsContract
<1> DEFINE Kept == \A id \in StickIDs : UNCHANGED Contract(id)!vars \/ Contract(id)!Next
<1>1. Init => \A id \in StickIDs : Contract(id)!Init
  <2> SUFFICES ASSUME Init, NEW id \in StickIDs PROVE Contract(id)!Init
    OBVIOUS
  <2>1. sticks[id].version = 0 /\ Available(sticks[id])
    BY DEF Init, NoStick, Available
  <2>2. Cardinality(OpenSessions(id)) = 0
    BY <2>1, InitInvariant, OpenCount
  <2>3. DOMAIN QueuedRows(id) = {}
    BY QueuedRowsShape DEF Init, OutboxInit
  <2> QED
    BY <2>1, <2>2, <2>3 DEF Contract!Init, Init, OutboxInit
<1>2. IInv /\ TokensUsed /\ [Next]_vars => [Kept]_vars
  <2> SUFFICES ASSUME IInv, TokensUsed, Next, NEW id \in StickIDs
               PROVE  UNCHANGED Contract(id)!vars \/ Contract(id)!Next
    OBVIOUS
  <2>1. CASE Tick
    <3>1. IInv'
      BY <2>1, TickKeepsInvariant
    <3> QED
      BY <2>1, <3>1, SameQueue, ContractStutters DEF Tick, tables, outboxVars
  <2> QED
    BY <2>1, ClientStepContract DEF Next
<1> QED
  BY <1>1, <1>2, ServiceInvariant, TokensUsedHolds, PTL DEF Spec, ImplementsContract

=============================================================================
