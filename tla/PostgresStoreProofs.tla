------------------------- MODULE PostgresStoreProofs -------------------------
(***************************************************************************)
(* The PostgreSQL backend implements StoreContract, for any number of       *)
(* users, requests and workers.                                             *)
(*                                                                          *)
(* The invariant says of every open transaction what its locks have kept    *)
(* true since the statement that took them: a request inside still has the  *)
(* version it checked; what a release has queued differs from the           *)
(* subscriptions only by generations that deliveries have ended meanwhile;  *)
(* a worker that holds a notification finds it unsettled, and knows whether *)
(* its generation is still subscribed.                                      *)
(*                                                                          *)
(* Waits form no cycle, either: a lock is held from its statement to the    *)
(* commit, and whoever has a user's row has nothing left to wait for.       *)
(***************************************************************************)
EXTENDS PostgresStore, FiniteSetTheorems, SequenceTheorems, TLAPS

Statuses == {"pending", "in_progress", "failed", "succeeded"}

Row == [user : Users, generation : Nat, status : Statuses, token : Nat]

Ops == {"claim", "release", "subscribe", "unsubscribe"}

Inside == {"read", "saved", "closed", "ready"}

TxState == [pc : {"idle", "begun", "claiming", "sending", "settled"} \cup Inside,
            op : Ops \cup {"none", "deliver"},
            user : Users \cup {NULL}, version : Nat, token : Nat,
            queued : SUBSET (Users \X Nat), row : Nat]

TypeOK ==
    /\ stick \in [version : Nat, held : BOOLEAN] /\ stick.version > 0
    /\ open \in Int
    /\ subs \in [Users -> Nat]
    /\ rows \in Seq(Row) /\ Len(rows) <= MaxRows
    /\ nextToken \in Nat /\ nextToken > 0
    /\ stickLock \in Tx \cup {NULL}
    /\ subLock \in [Users -> Tx \cup {NULL}]
    /\ rowLock \in [1..MaxRows -> Tx \cup {NULL}]
    /\ tx \in [Tx -> TxState]

\* The subscriptions, and the generations that deliveries have ended.
Subscribed == {<<u, subs[u]>> : u \in {v \in Users : subs[v] # NoToken}}
Ended == {<<rows[n].user, rows[n].generation>> :
             n \in {m \in 1..Len(rows) : rows[m].status = "succeeded"}}

\* A request past GetStick still has the stick as it found it.
StickKept(r) ==
    tx[r].pc \in Inside =>
        /\ stickLock = r
        /\ tx[r].version = stick.version
        /\ tx[r].op = "claim" => ~stick.held
        /\ tx[r].op = "release" => stick.held

\* What it carries from statement to statement.
RequestShape(r) ==
    /\ tx[r].pc \in {"idle", "begun"} \cup Inside
    /\ tx[r].pc # "idle" => tx[r].user \in Users /\ tx[r].op \in Ops
    /\ tx[r].version <= stick.version
    /\ tx[r].op # "subscribe" => tx[r].token = NoToken
    /\ tx[r].pc # "ready" \/ tx[r].op # "release" => tx[r].queued = {}
    /\ \A e, f \in tx[r].queued : e[1] = f[1] => e = f
    /\ tx[r].op = "release" /\ tx[r].version = stick.version
           => Len(rows) + Cardinality(Users) <= MaxRows

\* A release is about to queue every subscription, and nothing that is neither
\* a subscription nor one that a delivery has just ended.
QueuedKept(r) ==
    tx[r].pc = "ready" /\ tx[r].op = "release" =>
        Subscribed \subseteq tx[r].queued /\ tx[r].queued \subseteq Subscribed \cup Ended

\* The user's row is locked, or there is none to delete.
UserRowKept(r) ==
    tx[r].pc = "ready" /\ tx[r].op \in {"subscribe", "unsubscribe"} =>
        \/ subLock[tx[r].user] = r
        \/ tx[r].op = "unsubscribe" /\ subs[tx[r].user] = NoToken

RequestOK(r) == StickKept(r) /\ RequestShape(r) /\ QueuedKept(r) /\ UserRowKept(r)

WorkerShape(w) ==
    /\ tx[w].pc \in {"idle", "claiming", "sending", "settled", "ready"}
    /\ tx[w].queued = {} /\ tx[w].op \in {"none", "deliver"}
    /\ tx[w].pc # "idle" => tx[w].row \in 1..Len(rows)
    /\ \A u \in Users : subLock[u] = w => tx[w].pc = "ready"

\* A worker that holds the row finds it unsettled.
RowKept(w) ==
    tx[w].pc \in {"claiming", "settled", "ready"} =>
        rowLock[tx[w].row] = w /\ rows[tx[w].row].status # "succeeded"

\* It holds the user's row exactly if the generation it notified is there.
GenerationKept(w) ==
    tx[w].pc = "ready" =>
        (subLock[rows[tx[w].row].user] = w
            <=> subs[rows[tx[w].row].user] = rows[tx[w].row].generation)

WorkerOK(w) == WorkerShape(w) /\ RowKept(w) /\ GenerationKept(w)

\* The token of a subscription that is not committed is nowhere else.
TokenUnused(r) ==
    tx[r].op = "subscribe" =>
        /\ tx[r].token # NoToken /\ tx[r].token < nextToken
        /\ \A u \in Users : subs[u] # tx[r].token
        /\ \A n \in 1..Len(rows) : rows[n].generation # tx[r].token
        /\ \A q \in Requests : \A e \in tx[q].queued : e[2] # tx[r].token
        /\ \A q \in Requests \ {r} : tx[q].op = "subscribe" => tx[q].token # tx[r].token

TokensKnown ==
    /\ \A u \in Users : subs[u] < nextToken
    /\ \A n \in 1..Len(rows) : rows[n].generation # NoToken /\ rows[n].generation < nextToken
    /\ \A r \in Requests : \A e \in tx[r].queued : e[2] # NoToken /\ e[2] < nextToken

PInv ==
    /\ TypeOK
    /\ \A r \in Requests : RequestOK(r) /\ TokenUnused(r)
    /\ \A w \in Workers : WorkerOK(w)
    /\ TokensKnown

-----------------------------------------------------------------------------
(* What a step does to the transactions that do not take it. *)

\* A step of t changes neither the state of another transaction nor its locks.
OnlyOf(t) ==
    \A s \in Tx \ {t} :
        /\ tx'[s] = tx[s]
        /\ stickLock' = s <=> stickLock = s
        /\ \A u \in Users : subLock'[u] = s <=> subLock[u] = s
        /\ \A n \in 1..MaxRows : rowLock'[n] = s <=> rowLock[n] = s

\* Requests and workers are different connections, and none is NULL.
LEMMA Connections ==
    /\ \A t \in Tx : t # NULL
    /\ \A r \in Requests : r \in Tx /\ r \notin Workers
    /\ \A w \in Workers : w \in Tx /\ w \notin Requests
  BY PostgresAssumption DEF Tx

\* The rows that exist, and the fields of rows and transactions.
LEMMA RowTypes ==
    ASSUME TypeOK
    PROVE  /\ Len(rows) \in Nat
           /\ \A n \in 1..Len(rows) :
                 /\ n \in 1..MaxRows /\ rows[n] \in Row
                 /\ rows[n].user \in Users /\ rows[n].generation \in Nat
<1>1. Len(rows) \in Nat /\ rows \in Seq(Row)
  BY LenProperties DEF TypeOK
<1>2. \A n \in 1..Len(rows) : n \in 1..MaxRows /\ rows[n] \in Row
  BY <1>1, ElementOfSeq, PostgresAssumption DEF TypeOK
<1> QED
  BY <1>1, <1>2 DEF Row

\* The fields of a transaction's state.
LEMMA TxTypes ==
    ASSUME TypeOK, NEW t \in Tx
    PROVE  /\ tx[t] \in TxState
           /\ tx[t].version \in Nat /\ tx[t].token \in Nat /\ tx[t].row \in Nat
           /\ tx[t].queued \subseteq Users \X Nat
           /\ \A e \in tx[t].queued : e[1] \in Users /\ e[2] \in Nat
<1>1. tx[t] \in TxState
  BY DEF TypeOK
<1>2. /\ tx[t].version \in Nat /\ tx[t].token \in Nat /\ tx[t].row \in Nat
      /\ tx[t].queued \subseteq Users \X Nat
  BY <1>1 DEF TxState
<1> QED
  BY <1>1, <1>2

\* An idle connection's record.
LEMMA IdleState ==
    /\ Idle \in TxState
    /\ Idle.pc = "idle" /\ Idle.op = "none" /\ Idle.version = 0 /\ Idle.token = NoToken
    /\ Idle.queued = {}
  BY DEF Idle, TxState, NoToken, Ops

\* A statement moves its own transaction on.
LEMMA GoEffect ==
    ASSUME TypeOK, NEW t \in Tx, NEW pc \in {"read", "saved", "closed", "ready", "sending", "settled"},
           Go(t, pc)
    PROVE  /\ tx' \in [Tx -> TxState]
           /\ tx'[t].pc = pc
           /\ tx'[t].op = tx[t].op /\ tx'[t].user = tx[t].user
           /\ tx'[t].version = tx[t].version /\ tx'[t].token = tx[t].token
           /\ tx'[t].queued = tx[t].queued /\ tx'[t].row = tx[t].row
           /\ \A s \in Tx \ {t} : tx'[s] = tx[s]
<1>1. tx[t] \in TxState /\ tx \in [Tx -> TxState]
  BY DEF TypeOK
<1> DEFINE new == [tx[t] EXCEPT !.pc = pc]
<1>2. /\ new \in TxState
      /\ new.pc = pc /\ new.op = tx[t].op /\ new.user = tx[t].user
      /\ new.version = tx[t].version /\ new.token = tx[t].token
      /\ new.queued = tx[t].queued /\ new.row = tx[t].row
  BY <1>1 DEF TxState, Inside
<1>3. tx' = [tx EXCEPT ![t] = new]
  BY DEF Go
<1> HIDE DEF new
<1> QED
  BY <1>1, <1>2, <1>3

\* The end of a transaction frees its locks and nobody else's.
LEMMA UnlockEffect ==
    ASSUME TypeOK, NEW t \in Tx, Unlock(t)
    PROVE  /\ stickLock' \in Tx \cup {NULL} /\ stickLock' # t
           /\ subLock' \in [Users -> Tx \cup {NULL}]
           /\ rowLock' \in [1..MaxRows -> Tx \cup {NULL}]
           /\ \A u \in Users : subLock'[u] # t
           /\ \A s \in Tx \ {t} :
                /\ stickLock' = s <=> stickLock = s
                /\ \A u \in Users : subLock'[u] = s <=> subLock[u] = s
                /\ \A n \in 1..MaxRows : rowLock'[n] = s <=> rowLock[n] = s
  BY Connections DEF TypeOK, Unlock

\* The end of a transaction concerns only its own state and locks.
LEMMA EndEffect ==
    ASSUME TypeOK, NEW t \in Tx, End(t)
    PROVE  /\ tx' \in [Tx -> TxState] /\ tx'[t] = Idle
           /\ OnlyOf(t)
           /\ stickLock' \in Tx \cup {NULL}
           /\ subLock' \in [Users -> Tx \cup {NULL}]
           /\ rowLock' \in [1..MaxRows -> Tx \cup {NULL}]
           /\ \A u \in Users : subLock'[u] # t
  BY UnlockEffect, IdleState DEF TypeOK, End, OnlyOf

\* A request whose state, locks and tables are as before is as it was.
LEMMA RequestFrame ==
    ASSUME NEW s \in Requests, RequestOK(s), tx'[s] = tx[s], UNCHANGED <<stick, subs, rows>>,
           stickLock = s => stickLock' = s,
           \A u \in Users : subLock[u] = s => subLock'[u] = s
    PROVE  RequestOK(s)'
<1>1. StickKept(s)' /\ RequestShape(s)'
  BY DEF RequestOK, StickKept, RequestShape
<1>2. QueuedKept(s)'
  BY DEF RequestOK, QueuedKept, Subscribed, Ended
<1>3. UserRowKept(s)'
  BY DEF RequestOK, UserRowKept, RequestShape
<1> QED
  BY <1>1, <1>2, <1>3 DEF RequestOK

\* The same of a worker.
LEMMA WorkerFrame ==
    ASSUME TypeOK, NEW s \in Workers, WorkerOK(s), tx'[s] = tx[s], UNCHANGED <<subs, rows>>,
           \A u \in Users : subLock'[u] = s <=> subLock[u] = s,
           \A n \in 1..MaxRows : rowLock'[n] = s <=> rowLock[n] = s
    PROVE  WorkerOK(s)'
<1>1. tx[s].pc # "idle" => tx[s].row \in 1..MaxRows /\ rows[tx[s].row].user \in Users
  BY RowTypes DEF WorkerOK, WorkerShape
<1>2. WorkerShape(s)' /\ RowKept(s)'
  BY <1>1 DEF WorkerOK, WorkerShape, RowKept
<1>3. GenerationKept(s)'
  BY <1>1 DEF WorkerOK, GenerationKept
<1> QED
  BY <1>2, <1>3 DEF WorkerOK

\* A step of t that leaves the tables alone concerns only t.
LEMMA StatementFrame ==
    ASSUME PInv, NEW t \in Tx, OnlyOf(t), UNCHANGED <<stick, subs, rows>>
    PROVE  /\ \A r \in Requests \ {t} : RequestOK(r)'
           /\ \A w \in Workers \ {t} : WorkerOK(w)'
<1>1. ASSUME NEW r \in Requests \ {t} PROVE RequestOK(r)'
  BY RequestFrame, Connections DEF PInv, OnlyOf
<1>2. ASSUME NEW w \in Workers \ {t} PROVE WorkerOK(w)'
  BY WorkerFrame, Connections DEF PInv, OnlyOf
<1> QED
  BY <1>1, <1>2

\* Tokens: t draws none, and queues only what is subscribed.
LEMMA TokensFrame ==
    ASSUME PInv, NEW t \in Tx, \A s \in Tx \ {t} : tx'[s] = tx[s],
           UNCHANGED <<subs, rows>>, nextToken' \in Nat, nextToken' >= nextToken,
           \/ tx'[t].op # "subscribe"
           \/ tx'[t].op = tx[t].op /\ tx'[t].token = tx[t].token,
           tx'[t].queued \subseteq tx[t].queued \cup Subscribed
    PROVE  TokensKnown' /\ \A r \in Requests : TokenUnused(r)'
<1>0. /\ nextToken \in Nat /\ subs \in [Users -> Nat]
      /\ \A n \in 1..Len(rows) : rows[n].generation \in Nat
      /\ \A r \in Requests : r \in Tx /\ tx[r].token \in Nat
      /\ \A r \in Requests : \A e \in tx[r].queued : e[2] \in Nat
  <2>1. TypeOK
    BY DEF PInv
  <2> QED
    BY <2>1, Connections, RowTypes, TxTypes DEF TypeOK
<1>1. \A e \in Subscribed : \E u \in Users : e = <<u, subs[u]>> /\ subs[u] # NoToken
  BY DEF Subscribed
<1>2. TokensKnown'
  BY <1>0, <1>1 DEF PInv, TokensKnown
<1>3. ASSUME NEW r \in Requests, tx'[r].op = "subscribe"
      PROVE  /\ tx[r].op = "subscribe" /\ tx'[r].token = tx[r].token
  BY <1>0, <1>3
<1>4. \A q \in Requests : \A e \in tx'[q].queued : e \in tx[q].queued \/ e \in Subscribed
  BY <1>0
<1>5. ASSUME NEW r \in Requests, tx'[r].op = "subscribe"
      PROVE  \A q \in Requests : \A e \in tx'[q].queued : e[2] # tx[r].token
  BY <1>1, <1>3, <1>4, <1>5 DEF PInv, TokenUnused
<1>6. ASSUME NEW r \in Requests PROVE TokenUnused(r)'
  BY <1>0, <1>3, <1>5 DEF PInv, TokenUnused
<1> QED
  BY <1>2, <1>6

-----------------------------------------------------------------------------
(* Statements and rollbacks: the tables stay as they are. *)

\* A connection that is idle holds nothing to be kept.
LEMMA IdleOK ==
    ASSUME TypeOK', NEW t \in Tx, tx'[t] = Idle, \A u \in Users : subLock'[u] # t
    PROVE  /\ t \in Requests => RequestOK(t)'
           /\ t \in Workers => WorkerOK(t)'
<1>1. stick'.version \in Nat
  BY DEF TypeOK
<1>2. StickKept(t)' /\ QueuedKept(t)' /\ UserRowKept(t)' /\ RequestShape(t)'
  BY <1>1, IdleState DEF StickKept, QueuedKept, UserRowKept, RequestShape, Inside
<1>3. WorkerShape(t)' /\ RowKept(t)' /\ GenerationKept(t)'
  BY IdleState DEF WorkerShape, RowKept, GenerationKept
<1> QED
  BY <1>2, <1>3 DEF RequestOK, WorkerOK

\* A rollback drops the transaction's state and its locks together.
LEMMA RollbackKeeps == \A t \in Tx : PInv /\ Rollback(t) => PInv'
<1> SUFFICES ASSUME NEW t \in Tx, PInv, Rollback(t) PROVE PInv'
  OBVIOUS
<1>0. TypeOK /\ End(t) /\ UNCHANGED <<stick, open, subs, rows, nextToken>>
  BY DEF PInv, Rollback, tables
<1>1. /\ tx' \in [Tx -> TxState] /\ tx'[t] = Idle /\ OnlyOf(t)
      /\ \A u \in Users : subLock'[u] # t
  BY <1>0, EndEffect
<1>2. TypeOK'
  BY <1>0, EndEffect DEF TypeOK
<1>3. TokensKnown' /\ \A r \in Requests : TokenUnused(r)'
  <2>1. tx'[t].op # "subscribe" /\ tx'[t].queued \subseteq tx[t].queued \cup Subscribed
    BY <1>1, IdleState
  <2>2. \A s \in Tx \ {t} : tx'[s] = tx[s]
    BY <1>1 DEF OnlyOf
  <2>3. nextToken' \in Nat /\ nextToken' >= nextToken
    BY <1>0 DEF TypeOK
  <2> QED
    BY <1>0, <2>1, <2>2, <2>3, TokensFrame
<1> QED
  BY <1>0, <1>1, <1>2, <1>3, IdleOK, StatementFrame DEF PInv

\* The form's transaction begins.
LEMMA BeginKeeps ==
    \A r \in Requests, op \in Ops, user \in Users : PInv /\ Begin(r, op, user) => PInv'
<1> SUFFICES ASSUME NEW r \in Requests, NEW op \in Ops, NEW user \in Users, PInv,
                    Begin(r, op, user)
             PROVE  PInv'
  OBVIOUS
<1> DEFINE token == IF op = "subscribe" THEN nextToken ELSE NoToken
           new == [Idle EXCEPT !.pc = "begun", !.op = op, !.user = user,
                               !.version = stick.version, !.token = token]
<1>0. /\ TypeOK /\ r \in Tx /\ nextToken \in Nat /\ nextToken > 0
      /\ stick.version \in Nat
      /\ UNCHANGED <<stick, open, subs, rows, stickLock, subLock, rowLock>>
      /\ nextToken' = IF op = "subscribe" THEN nextToken + 1 ELSE nextToken
      /\ op = "release" => Len(rows) + Cardinality(Users) <= MaxRows
  BY Connections DEF PInv, TypeOK, Begin, locks
<1>1. /\ new \in TxState /\ new.pc = "begun" /\ new.op = op /\ new.user = user
      /\ new.version = stick.version /\ new.token = token /\ new.queued = {}
  BY <1>0 DEF Idle, TxState, NoToken
<1>2. tx' = [tx EXCEPT ![r] = new]
  BY DEF Begin
<1> HIDE DEF new
<1>3. /\ tx' \in [Tx -> TxState] /\ tx'[r] = new
      /\ \A s \in Tx \ {r} : tx'[s] = tx[s]
  BY <1>0, <1>1, <1>2 DEF TypeOK
<1>4. nextToken' \in Nat /\ nextToken' > 0 /\ nextToken' >= nextToken
  BY <1>0
<1>5. TypeOK'
  BY <1>0, <1>3, <1>4 DEF TypeOK
<1>6. OnlyOf(r)
  BY <1>0, <1>3 DEF OnlyOf
<1>7. RequestOK(r)'
  BY <1>0, <1>1, <1>3
  DEF RequestOK, StickKept, RequestShape, QueuedKept, UserRowKept, Inside
<1>8. CASE op # "subscribe"
  <2>1. TokensKnown' /\ \A q \in Requests : TokenUnused(q)'
    BY <1>0, <1>1, <1>3, <1>4, <1>8, TokensFrame
  <2> QED
    BY <1>0, <1>5, <1>6, <1>7, <2>1, StatementFrame, Connections DEF PInv
<1>9. CASE op = "subscribe"
  <2>1. /\ token = nextToken /\ nextToken' = nextToken + 1 /\ token # NoToken
    BY <1>0, <1>9 DEF NoToken
  <2> HIDE DEF token
  <2>2. /\ \A u \in Users : subs[u] \in Nat /\ subs[u] < nextToken
        /\ \A n \in 1..Len(rows) : /\ rows[n].generation \in Nat
                                   /\ rows[n].generation # NoToken
                                   /\ rows[n].generation < nextToken
        /\ \A q \in Requests : /\ q \in Tx /\ tx[q].token \in Nat
                               /\ tx[q].op = "subscribe" => tx[q].token < nextToken
                               /\ \A e \in tx[q].queued : e[2] \in Nat /\ e[2] # NoToken /\ e[2] < nextToken
    BY <1>0, RowTypes, TxTypes, Connections DEF PInv, TokensKnown, TokenUnused, TypeOK
  <2>3. \A q \in Requests : \A e \in tx'[q].queued : e \in tx[q].queued
    BY <1>1, <1>3, <2>2
  <2>4. TokensKnown'
    BY <1>0, <2>1, <2>2, <2>3 DEF TokensKnown
  <2>5. TokenUnused(r)'
    BY <1>0, <1>1, <1>3, <2>1, <2>2, <2>3 DEF TokenUnused
  <2>6. ASSUME NEW q \in Requests \ {r} PROVE TokenUnused(q)'
    BY <1>0, <1>1, <1>3, <2>1, <2>2, <2>3 DEF PInv, TokenUnused
  <2> QED
    BY <1>0, <1>5, <1>6, <1>7, <2>4, <2>5, <2>6, StatementFrame, Connections DEF PInv
<1> QED
  BY <1>8, <1>9

\* A request's statement: what is left to show of it.
LEMMA RequestStatement ==
    ASSUME PInv, NEW r \in Requests, OnlyOf(r), TypeOK', RequestOK(r)',
           UNCHANGED <<stick, subs, rows, nextToken>>,
           tx'[r].op = tx[r].op, tx'[r].token = tx[r].token,
           tx'[r].queued \subseteq tx[r].queued \cup Subscribed
    PROVE  PInv'
<1>1. r \in Tx /\ nextToken' \in Nat /\ nextToken' >= nextToken
  BY Connections DEF PInv, TypeOK
<1>2. \A s \in Tx \ {r} : tx'[s] = tx[s]
  BY DEF OnlyOf
<1>3. TokensKnown' /\ \A q \in Requests : TokenUnused(q)'
  BY <1>1, <1>2, TokensFrame
<1> QED
  BY <1>1, <1>3, StatementFrame, Connections DEF PInv

\* SELECT ... FOR UPDATE: from here on the stick stays as it was checked.
LEMMA GetStickKeeps == \A r \in Requests : PInv /\ GetStick(r) => PInv'
<1> SUFFICES ASSUME NEW r \in Requests, PInv, GetStick(r) PROVE PInv'
  OBVIOUS
<1>0. TypeOK /\ r \in Tx
  BY Connections DEF PInv
<1>1. CASE Rollback(r)
  BY <1>0, <1>1, RollbackKeeps
<1>2. CASE ~Refused(r) /\ Go(r, "read") /\ stickLock' = r /\ UNCHANGED <<tables, subLock, rowLock>>
  <2>1. tx[r].pc = "begun" /\ stickLock = NULL /\ UNCHANGED <<stick, open, subs, rows, nextToken>>
    BY <1>2 DEF GetStick, tables
  <2>2. TypeOK' /\ OnlyOf(r)
    BY <1>0, <1>2, <2>1, GoEffect, Connections DEF TypeOK, OnlyOf
  <2>3. RequestOK(r)'
    <3>1. /\ tx'[r].pc = "read" /\ tx'[r].op = tx[r].op /\ tx'[r].user = tx[r].user
          /\ tx'[r].version = tx[r].version /\ tx'[r].token = tx[r].token
          /\ tx'[r].queued = tx[r].queued
      BY <1>0, <1>2, GoEffect
    <3>2. tx[r].op \in Ops
      BY <2>1 DEF PInv, RequestOK, RequestShape
    <3> QED
      BY <1>2, <2>1, <3>1, <3>2
      DEF PInv, RequestOK, StickKept, RequestShape, QueuedKept, UserRowKept, Refused, Inside
  <2> QED
    BY <1>0, <1>2, <2>1, <2>2, <2>3, GoEffect, RequestStatement
<1> QED
  BY <1>1, <1>2 DEF GetStick

\* A request inside goes on to a statement that is not its last, and keeps the
\* locks it has.
LEMMA MoveInside ==
    ASSUME PInv, NEW r \in Requests, tx[r].pc \in Inside \ {"ready"}, NEW pc \in Inside, Go(r, pc),
           pc # "ready" \/ tx[r].op = "claim",
           UNCHANGED <<stick, open, subs, rows, nextToken, stickLock, subLock, rowLock>>
    PROVE  PInv'
<1>0. TypeOK /\ r \in Tx
  BY Connections DEF PInv
<1>1. /\ tx' \in [Tx -> TxState] /\ \A s \in Tx \ {r} : tx'[s] = tx[s]
      /\ tx'[r].pc = pc /\ tx'[r].op = tx[r].op /\ tx'[r].user = tx[r].user
      /\ tx'[r].version = tx[r].version /\ tx'[r].token = tx[r].token
      /\ tx'[r].queued = tx[r].queued
  BY <1>0, GoEffect DEF Inside
<1>2. TypeOK' /\ OnlyOf(r)
  BY <1>0, <1>1 DEF TypeOK, OnlyOf
<1>3. RequestOK(r)'
  BY <1>1 DEF PInv, RequestOK, StickKept, RequestShape, QueuedKept, UserRowKept, Inside
<1> QED
  BY <1>1, <1>2, <1>3, RequestStatement

\* The UPDATE of the stick finds the row locked by its own transaction.
LEMMA SaveStickKeeps == \A r \in Requests : PInv /\ SaveStick(r) => PInv'
<1> SUFFICES ASSUME NEW r \in Requests, PInv, SaveStick(r) PROVE PInv'
  OBVIOUS
<1>1. CASE Rollback(r)
  BY <1>1, RollbackKeeps, Connections
<1>2. CASE Go(r, "saved") /\ stickLock' = r /\ UNCHANGED <<tables, subLock, rowLock>>
  <2>1. tx[r].pc \in Inside \ {"ready"}
    BY DEF SaveStick, At, Inside
  <2>2. stickLock = r
    BY <2>1 DEF PInv, RequestOK, StickKept
  <2> QED
    BY <1>2, <2>1, <2>2, MoveInside DEF tables, Inside
<1> QED
  BY <1>1, <1>2 DEF SaveStick

\* The statements on sessions only move the transaction on.
LEMMA SessionKeeps == \A r \in Requests : PInv /\ (CreateSession(r) \/ CloseSession(r)) => PInv'
<1> SUFFICES ASSUME NEW r \in Requests, PInv, CreateSession(r) \/ CloseSession(r) PROVE PInv'
  OBVIOUS
<1>1. CASE Rollback(r)
  BY <1>1, RollbackKeeps, Connections
<1>2. CASE CreateSession(r) /\ Go(r, "ready") /\ UNCHANGED <<tables, locks>>
  BY <1>2, MoveInside DEF CreateSession, At, Inside, tables, locks
<1>3. CASE CloseSession(r) /\ Go(r, "closed") /\ UNCHANGED <<tables, locks>>
  BY <1>3, MoveInside DEF CloseSession, At, Inside, tables, locks
<1> QED
  BY <1>1, <1>2, <1>3 DEF CreateSession, CloseSession

\* The INSERT ... SELECT of a release finds exactly the subscriptions.
LEMMA EnqueueKeeps == \A r \in Requests : PInv /\ EnqueueReleaseNotifications(r) => PInv'
<1> SUFFICES ASSUME NEW r \in Requests, PInv, EnqueueReleaseNotifications(r) PROVE PInv'
  OBVIOUS
<1>0. /\ TypeOK /\ r \in Tx /\ tx[r].pc = "closed" /\ tx[r].op = "release"
      /\ UNCHANGED <<stick, open, subs, rows, nextToken, stickLock, subLock, rowLock>>
  BY Connections DEF PInv, EnqueueReleaseNotifications, At, tables, locks
<1> DEFINE new == [tx[r] EXCEPT !.pc = "ready", !.queued = Subscribed]
<1>1. Subscribed \subseteq Users \X Nat
  BY <1>0 DEF Subscribed, TypeOK
<1>2. tx[r] \in TxState
  BY <1>0, TxTypes
<1>3. /\ new \in TxState /\ new.pc = "ready" /\ new.queued = Subscribed
      /\ new.op = tx[r].op /\ new.user = tx[r].user /\ new.version = tx[r].version
      /\ new.token = tx[r].token
  BY <1>1, <1>2 DEF TxState, Inside
<1>4. tx' = [tx EXCEPT ![r] = new]
  BY DEF EnqueueReleaseNotifications, Subscribed
<1> HIDE DEF new
<1>5. tx' \in [Tx -> TxState] /\ tx'[r] = new /\ \A s \in Tx \ {r} : tx'[s] = tx[s]
  BY <1>0, <1>3, <1>4 DEF TypeOK
<1>6. TypeOK' /\ OnlyOf(r)
  BY <1>0, <1>5 DEF TypeOK, OnlyOf
<1>7. Subscribed' = Subscribed
  BY <1>0 DEF Subscribed
<1>8. \A e, f \in Subscribed : e[1] = f[1] => e = f
  BY DEF Subscribed
<1>9. RequestOK(r)'
  BY <1>0, <1>3, <1>5, <1>7, <1>8
  DEF PInv, RequestOK, StickKept, RequestShape, QueuedKept, UserRowKept, Inside
<1> QED
  BY <1>0, <1>3, <1>5, <1>6, <1>9, RequestStatement

\* A subscription that is written, or deleted, has its row locked.
LEMMA UserRowLocked ==
    ASSUME PInv, NEW r \in Requests, tx[r].pc = "read", Go(r, "ready"),
           tx[r].op \in {"subscribe", "unsubscribe"},
           UNCHANGED <<stick, open, subs, rows, nextToken, stickLock, rowLock>>,
           \/ subLock[tx[r].user] = NULL /\ subLock' = [subLock EXCEPT ![tx[r].user] = r]
           \/ tx[r].op = "unsubscribe" /\ subs[tx[r].user] = NoToken /\ UNCHANGED subLock
    PROVE  PInv'
<1>0. TypeOK /\ r \in Tx /\ tx[r].user \in Users
  BY Connections DEF PInv, RequestOK, RequestShape
<1>1. /\ tx' \in [Tx -> TxState] /\ \A s \in Tx \ {r} : tx'[s] = tx[s]
      /\ tx'[r].pc = "ready" /\ tx'[r].op = tx[r].op /\ tx'[r].user = tx[r].user
      /\ tx'[r].version = tx[r].version /\ tx'[r].token = tx[r].token
      /\ tx'[r].queued = tx[r].queued
  BY <1>0, GoEffect
<1>2. /\ subLock' \in [Users -> Tx \cup {NULL}]
      /\ \A s \in Tx \ {r} : \A u \in Users : subLock'[u] = s <=> subLock[u] = s
      /\ subLock'[tx[r].user] = r \/ (tx[r].op = "unsubscribe" /\ subs[tx[r].user] = NoToken)
  BY <1>0, Connections DEF TypeOK
<1>3. TypeOK' /\ OnlyOf(r)
  BY <1>0, <1>1, <1>2 DEF TypeOK, OnlyOf
<1>4. RequestOK(r)'
  BY <1>1, <1>2 DEF PInv, RequestOK, StickKept, RequestShape, QueuedKept, UserRowKept, Inside
<1> QED
  BY <1>1, <1>3, <1>4, RequestStatement

\* Subscribing and unsubscribing, with or without a row to lock.
LEMMA SubscriptionKeeps == \A r \in Requests : PInv /\ (Subscribe(r) \/ Unsubscribe(r)) => PInv'
  BY UserRowLocked DEF Subscribe, Unsubscribe, At, tables

-----------------------------------------------------------------------------
(* Statements of a worker. *)

\* A worker's statement: what is left to show of it.
LEMMA WorkerStatement ==
    ASSUME PInv, NEW w \in Workers, OnlyOf(w), TypeOK', WorkerOK(w)',
           UNCHANGED <<stick, subs, rows>>, nextToken' >= nextToken
    PROVE  PInv'
<1>1. w \in Tx /\ nextToken' \in Nat
  BY Connections DEF TypeOK
<1>2. \A s \in Tx \ {w} : tx'[s] = tx[s]
  BY DEF OnlyOf
<1>3. tx'[w].op # "subscribe" /\ tx'[w].queued = {}
  BY DEF WorkerOK, WorkerShape
<1>4. TokensKnown' /\ \A q \in Requests : TokenUnused(q)'
  BY <1>1, <1>2, <1>3, TokensFrame
<1> QED
  BY <1>1, <1>4, StatementFrame, Connections DEF PInv

\* A claim takes a row that is unlocked and unsettled.
LEMMA ClaimNotificationKeeps == \A w \in Workers : PInv /\ ClaimNotification(w) => PInv'
<1> SUFFICES ASSUME NEW w \in Workers, PInv, ClaimNotification(w) PROVE PInv'
  OBVIOUS
<1>0. /\ TypeOK /\ w \in Tx /\ nextToken \in Nat /\ nextToken > 0 /\ nextToken' = nextToken + 1
      /\ tx[w].pc = "idle"
      /\ UNCHANGED <<stick, open, subs, rows, stickLock, subLock>>
  BY Connections DEF PInv, TypeOK, ClaimNotification
<1>1. PICK n \in 1..Len(rows) :
         /\ Deliverable(n) /\ rowLock[n] = NULL
         /\ tx' = [tx EXCEPT ![w] = [Idle EXCEPT !.pc = "claiming", !.op = "deliver", !.row = n,
                                                 !.token = nextToken]]
         /\ rowLock' = [rowLock EXCEPT ![n] = w]
  BY DEF ClaimNotification
<1> DEFINE new == [Idle EXCEPT !.pc = "claiming", !.op = "deliver", !.row = n, !.token = nextToken]
<1>2. n \in 1..MaxRows /\ n \in Nat
  BY <1>0, RowTypes
<1>3. /\ new \in TxState /\ new.pc = "claiming" /\ new.op = "deliver" /\ new.row = n
      /\ new.queued = {}
  BY <1>0, <1>2 DEF Idle, TxState, NoToken
<1>4. tx' = [tx EXCEPT ![w] = new]
  BY <1>1
<1> HIDE DEF new
<1>5. tx' \in [Tx -> TxState] /\ tx'[w] = new /\ \A s \in Tx \ {w} : tx'[s] = tx[s]
  BY <1>0, <1>3, <1>4 DEF TypeOK
<1>6. /\ rowLock' \in [1..MaxRows -> Tx \cup {NULL}] /\ rowLock'[n] = w
      /\ \A s \in Tx \ {w} : \A m \in 1..MaxRows : rowLock'[m] = s <=> rowLock[m] = s
  BY <1>0, <1>1, <1>2, Connections DEF TypeOK
<1>7. TypeOK'
  BY <1>0, <1>5, <1>6 DEF TypeOK
<1>8. OnlyOf(w)
  BY <1>0, <1>5, <1>6 DEF OnlyOf
<1>9. \A u \in Users : subLock[u] # w
  BY <1>0 DEF PInv, WorkerOK, WorkerShape
<1>10. WorkerOK(w)'
  BY <1>0, <1>1, <1>3, <1>5, <1>6, <1>9
  DEF WorkerOK, WorkerShape, RowKept, GenerationKept, Deliverable
<1> QED
  BY <1>0, <1>7, <1>8, <1>10, WorkerStatement

\* The UPDATE of a delivered row locks it with the claim still valid.
LEMMA MarkSucceededKeeps == \A w \in Workers : PInv /\ MarkNotificationSucceeded(w) => PInv'
<1> SUFFICES ASSUME NEW w \in Workers, PInv, MarkNotificationSucceeded(w) PROVE PInv'
  OBVIOUS
<1> DEFINE n == tx[w].row
<1>0. TypeOK /\ w \in Tx /\ tx[w].pc = "sending" /\ rowLock[n] = NULL
  BY Connections DEF PInv, MarkNotificationSucceeded
<1>1. CASE Rollback(w)
  BY <1>0, <1>1, RollbackKeeps
<1>2. CASE /\ HoldsClaim(w) /\ Go(w, "settled") /\ rowLock' = [rowLock EXCEPT ![n] = w]
           /\ UNCHANGED <<tables, stickLock, subLock>>
  <2>0. UNCHANGED <<stick, open, subs, rows, nextToken, stickLock, subLock>>
    BY <1>2 DEF tables
  <2>1. /\ tx' \in [Tx -> TxState] /\ \A s \in Tx \ {w} : tx'[s] = tx[s]
        /\ tx'[w].pc = "settled" /\ tx'[w].op = tx[w].op /\ tx'[w].row = n
        /\ tx'[w].queued = tx[w].queued
    BY <1>0, <1>2, GoEffect
  <2>2. n \in 1..Len(rows) /\ n \in 1..MaxRows
    BY <1>0, RowTypes DEF PInv, WorkerOK, WorkerShape
  <2>3. rows[n].status = "in_progress"
    BY <1>2 DEF HoldsClaim
  <2> HIDE DEF n
  <2>4. /\ rowLock' \in [1..MaxRows -> Tx \cup {NULL}] /\ rowLock'[n] = w
        /\ \A s \in Tx \ {w} : \A m \in 1..MaxRows : rowLock'[m] = s <=> rowLock[m] = s
    BY <1>0, <1>2, <2>2, Connections DEF TypeOK
  <2>5. TypeOK' /\ OnlyOf(w)
    BY <1>0, <2>0, <2>1, <2>4 DEF TypeOK, OnlyOf
  <2>6. WorkerOK(w)'
    BY <1>0, <2>0, <2>1, <2>2, <2>3, <2>4
    DEF PInv, WorkerOK, WorkerShape, RowKept, GenerationKept
  <2>7. nextToken' >= nextToken
    BY <1>0, <2>0 DEF TypeOK
  <2> QED
    BY <2>0, <2>5, <2>6, <2>7, WorkerStatement
<1> QED
  BY <1>0, <1>1, <1>2 DEF MarkNotificationSucceeded

\* The DELETE locks the user's row exactly if it has the notified generation.
LEMMA DeleteSubscriptionKeeps == \A w \in Workers : PInv /\ DeleteSubscription(w) => PInv'
<1> SUFFICES ASSUME NEW w \in Workers, PInv, DeleteSubscription(w) PROVE PInv'
  OBVIOUS
<1> DEFINE n == tx[w].row
           user == rows[n].user
<1>0. /\ TypeOK /\ w \in Tx /\ tx[w].pc = "settled" /\ Go(w, "ready")
      /\ UNCHANGED <<stick, open, subs, rows, nextToken, stickLock, rowLock>>
      /\ \/ subs[user] # rows[n].generation /\ UNCHANGED subLock
         \/ /\ subs[user] = rows[n].generation /\ subLock[user] = NULL
            /\ subLock' = [subLock EXCEPT ![user] = w]
  BY Connections DEF PInv, DeleteSubscription, tables
<1>1. /\ tx' \in [Tx -> TxState] /\ \A s \in Tx \ {w} : tx'[s] = tx[s]
      /\ tx'[w].pc = "ready" /\ tx'[w].op = tx[w].op /\ tx'[w].row = n
      /\ tx'[w].queued = tx[w].queued
  BY <1>0, GoEffect
<1>2. n \in 1..Len(rows) /\ user \in Users
  BY <1>0, RowTypes DEF PInv, WorkerOK, WorkerShape
<1>3. \A u \in Users : subLock[u] # w
  BY <1>0 DEF PInv, WorkerOK, WorkerShape
<1> HIDE DEF n, user
<1>4. /\ subLock' \in [Users -> Tx \cup {NULL}]
      /\ \A s \in Tx \ {w} : \A u \in Users : subLock'[u] = s <=> subLock[u] = s
      /\ subLock'[user] = w <=> subs[user] = rows[n].generation
  BY <1>0, <1>2, <1>3, Connections DEF TypeOK
<1>5. TypeOK' /\ OnlyOf(w)
  BY <1>0, <1>1, <1>4 DEF TypeOK, OnlyOf
<1>6. WorkerShape(w)' /\ RowKept(w)'
  BY <1>0, <1>1, <1>2 DEF PInv, WorkerOK, WorkerShape, RowKept, n
<1>7. GenerationKept(w)'
  BY <1>0, <1>1, <1>4 DEF GenerationKept, user
<1>8. nextToken' >= nextToken
  BY <1>0 DEF TypeOK
<1> QED
  BY <1>0, <1>5, <1>6, <1>7, <1>8, WorkerStatement DEF WorkerOK

-----------------------------------------------------------------------------
(* Commits of a worker. *)

\* What the worker's commits do to the row.
RowSet(n, status, token) ==
    rows' = [rows EXCEPT ![n].status = status, ![n].token = token]

\* It changes the row's status and token and nothing else.
LEMMA RowSetEffect ==
    ASSUME TypeOK, NEW n \in 1..Len(rows), NEW status \in Statuses, NEW token \in Nat,
           RowSet(n, status, token)
    PROVE  /\ rows' \in Seq(Row) /\ Len(rows') = Len(rows)
           /\ rows'[n].status = status
           /\ \A m \in 1..Len(rows) : /\ rows'[m].user = rows[m].user
                                      /\ rows'[m].generation = rows[m].generation
                                      /\ m # n => rows'[m] = rows[m]
<1> DEFINE new == [rows[n] EXCEPT !.status = status, !.token = token]
<1>1. rows[n] \in Row /\ rows \in Seq(Row) /\ Len(rows) \in Nat
  BY RowTypes DEF TypeOK
<1>2. /\ new \in Row /\ new.status = status
      /\ new.user = rows[n].user /\ new.generation = rows[n].generation
  BY <1>1 DEF Row
<1>3. rows' = [rows EXCEPT ![n] = new]
  BY <1>1, LenProperties DEF RowSet
<1> HIDE DEF new
<1>4. rows' \in Seq(Row) /\ Len(rows') = Len(rows)
      /\ \A m \in 1..Len(rows) : rows'[m] = IF m = n THEN new ELSE rows[m]
  BY <1>1, <1>2, <1>3, ExceptSeq
<1> QED
  BY <1>2, <1>4

\* Whatever a worker does to a row that nobody else has locked, and to the
\* subscription it has locked, the others' transactions go on.
LEMMA RowCommitFrame ==
    ASSUME PInv, NEW w \in Workers, NEW n \in 1..Len(rows), OnlyOf(w), UNCHANGED stick,
           rowLock[n] \in {NULL, w},
           Len(rows') = Len(rows),
           \A m \in 1..Len(rows) : /\ rows'[m].user = rows[m].user
                                   /\ rows'[m].generation = rows[m].generation
                                   /\ m # n => rows'[m] = rows[m],
           rows[n].status # "succeeded",
           \/ UNCHANGED subs
           \/ /\ subs' = [subs EXCEPT ![rows[n].user] = NoToken]
              /\ subLock[rows[n].user] = w
              /\ subs[rows[n].user] = rows[n].generation
              /\ rows'[n].status = "succeeded"
    PROVE  /\ \A r \in Requests : RequestOK(r)'
           /\ \A s \in Workers \ {w} : WorkerOK(s)'
<1>0. /\ TypeOK /\ w \in Tx /\ Len(rows) \in Nat /\ rows[n].user \in Users
      /\ subs \in [Users -> Nat]
      /\ \A r \in Requests : r \in Tx \ {w}
      /\ \A r \in Requests : RequestOK(r)
      /\ \A s \in Workers : s \in Tx /\ s # NULL /\ WorkerOK(s)
  BY RowTypes, Connections DEF PInv, TypeOK
<1>1. \A u \in Users : subs'[u] = subs[u] \/ (subs'[u] = NoToken /\ u = rows[n].user)
  BY <1>0
<1>2. Subscribed' \subseteq Subscribed
  BY <1>1 DEF Subscribed
<1>3. Ended \subseteq Ended'
  BY <1>0 DEF Ended
<1>4. Subscribed \subseteq Subscribed' \cup Ended'
  <2> SUFFICES ASSUME NEW u \in Users, subs[u] # NoToken
               PROVE  <<u, subs[u]>> \in Subscribed' \cup Ended'
    BY DEF Subscribed
  <2>1. CASE subs'[u] = subs[u]
    BY <2>1 DEF Subscribed
  <2>2. CASE subs'[u] # subs[u]
    <3>1. u = rows[n].user /\ subs[u] = rows[n].generation /\ rows'[n].status = "succeeded"
      BY <1>0, <1>1, <2>2
    <3> QED
      BY <3>1 DEF Ended
  <2> QED
    BY <2>1, <2>2
<1>5. ASSUME NEW r \in Requests PROVE RequestOK(r)'
  <2>1. /\ tx'[r] = tx[r] /\ (stickLock = r => stickLock' = r)
        /\ \A u \in Users : subLock[u] = r => subLock'[u] = r
    BY <1>0 DEF OnlyOf
  <2>2. StickKept(r)' /\ RequestShape(r)'
    BY <1>0, <2>1 DEF RequestOK, StickKept, RequestShape
  <2>3. QueuedKept(r)'
    BY <1>0, <1>2, <1>3, <1>4, <2>1 DEF RequestOK, QueuedKept
  <2>4. UserRowKept(r)'
    BY <1>0, <1>1, <2>1 DEF RequestOK, UserRowKept, RequestShape
  <2> QED
    BY <2>2, <2>3, <2>4 DEF RequestOK
<1>6. ASSUME NEW s \in Workers \ {w} PROVE WorkerOK(s)'
  <2>1. /\ tx'[s] = tx[s]
        /\ \A u \in Users : subLock'[u] = s <=> subLock[u] = s
        /\ \A m \in 1..MaxRows : rowLock'[m] = s <=> rowLock[m] = s
    BY <1>0 DEF OnlyOf
  <2>2. WorkerShape(s)'
    BY <1>0, <2>1 DEF WorkerOK, WorkerShape
  <2>3. tx[s].pc # "idle" => /\ tx[s].row \in 1..Len(rows) /\ tx[s].row \in 1..MaxRows
                             /\ rows[tx[s].row].user \in Users
                             /\ rows[tx[s].row].generation # NoToken
    BY <1>0, RowTypes DEF WorkerOK, WorkerShape, PInv, TokensKnown
  <2>4. RowKept(s)'
    BY <1>0, <2>1, <2>3 DEF WorkerOK, RowKept
  <2>5. GenerationKept(s)'
    <3> SUFFICES ASSUME tx[s].pc = "ready"
                 PROVE  subLock'[rows'[tx[s].row].user] = s
                            <=> subs'[rows'[tx[s].row].user] = rows'[tx[s].row].generation
      BY <2>1 DEF GenerationKept
    <3> DEFINE u == rows[tx[s].row].user
               g == rows[tx[s].row].generation
    <3>1. u \in Users /\ g # NoToken /\ rows'[tx[s].row].user = u /\ rows'[tx[s].row].generation = g
      BY <1>0, <2>3
    <3>2. subLock[u] = s <=> subs[u] = g
      BY <1>0 DEF WorkerOK, GenerationKept
    <3> HIDE DEF u, g
    <3>3. subs'[u] = g <=> subs[u] = g
      BY <1>0, <1>1, <3>1, <3>2
    <3> QED
      BY <2>1, <3>1, <3>2, <3>3
  <2> QED
    BY <2>2, <2>4, <2>5 DEF WorkerOK
<1> QED
  BY <1>5, <1>6

\* The same of the tokens.
LEMMA RowCommitTokens ==
    ASSUME PInv, NEW w \in Workers, OnlyOf(w), UNCHANGED nextToken,
           Len(rows') = Len(rows),
           \A m \in 1..Len(rows) : rows'[m].generation = rows[m].generation,
           \A u \in Users : subs'[u] \in {subs[u], NoToken}
    PROVE  TokensKnown' /\ \A r \in Requests : TokenUnused(r)'
<1>0. /\ nextToken > NoToken
      /\ \A r \in Requests : tx'[r] = tx[r]
  BY Connections DEF PInv, TypeOK, NoToken, OnlyOf
<1>1. TokensKnown'
  BY <1>0 DEF PInv, TokensKnown
<1>2. \A r \in Requests : TokenUnused(r)'
  BY <1>0 DEF PInv, TokenUnused
<1> QED
  BY <1>1, <1>2

\* The claim commits, and its row is unlocked.
LEMMA CommitClaimKeeps == \A w \in Workers : PInv /\ CommitClaim(w) => PInv'
<1> SUFFICES ASSUME NEW w \in Workers, PInv, CommitClaim(w) PROVE PInv'
  OBVIOUS
<1> DEFINE n == tx[w].row
<1>0. /\ TypeOK /\ w \in Tx /\ tx[w].pc = "claiming" /\ Unlock(w)
      /\ UNCHANGED <<stick, open, subs, nextToken>>
  BY Connections DEF PInv, CommitClaim
<1>1. n \in 1..Len(rows) /\ rowLock[n] = w /\ rows[n].status # "succeeded"
  BY <1>0 DEF PInv, WorkerOK, WorkerShape, RowKept
<1>2. RowSet(n, "in_progress", tx[w].token) /\ tx[w].token \in Nat /\ "in_progress" \in Statuses
  BY <1>0, TxTypes DEF CommitClaim, RowSet, Statuses
<1>3. /\ rows' \in Seq(Row) /\ Len(rows') = Len(rows)
      /\ \A m \in 1..Len(rows) : /\ rows'[m].user = rows[m].user
                                 /\ rows'[m].generation = rows[m].generation
                                 /\ m # n => rows'[m] = rows[m]
  BY <1>0, <1>1, <1>2, RowSetEffect
<1>4. /\ tx' \in [Tx -> TxState] /\ \A s \in Tx \ {w} : tx'[s] = tx[s]
      /\ \/ tx'[w] = Idle
         \/ /\ tx'[w].pc = "sending" /\ tx'[w].row = n /\ tx'[w].queued = tx[w].queued
            /\ tx'[w].op = tx[w].op
  <2>1. CASE Go(w, "sending")
    BY <1>0, <2>1, GoEffect
  <2>2. CASE tx' = [tx EXCEPT ![w] = Idle]
    BY <1>0, <2>2, IdleState DEF TypeOK
  <2> QED
    BY <2>1, <2>2 DEF CommitClaim
<1> HIDE DEF n
<1>5. /\ OnlyOf(w) /\ \A u \in Users : subLock'[u] # w
      /\ stickLock' \in Tx \cup {NULL}
      /\ subLock' \in [Users -> Tx \cup {NULL}]
      /\ rowLock' \in [1..MaxRows -> Tx \cup {NULL}]
  BY <1>0, <1>4, UnlockEffect DEF OnlyOf
<1>6. TypeOK'
  BY <1>0, <1>3, <1>4, <1>5 DEF TypeOK
<1>7. WorkerOK(w)'
  <2>1. CASE tx'[w] = Idle
    BY <1>0, <1>5, <1>6, <2>1, IdleOK
  <2>2. CASE /\ tx'[w].pc = "sending" /\ tx'[w].row = n /\ tx'[w].queued = tx[w].queued
             /\ tx'[w].op = tx[w].op
    BY <1>1, <1>3, <1>5, <2>2 DEF PInv, WorkerOK, WorkerShape, RowKept, GenerationKept
  <2> QED
    BY <1>4, <2>1, <2>2
<1>8. /\ \A r \in Requests : RequestOK(r)'
      /\ \A s \in Workers \ {w} : WorkerOK(s)'
  BY <1>0, <1>1, <1>3, <1>5, RowCommitFrame
<1>9. TokensKnown' /\ \A r \in Requests : TokenUnused(r)'
  BY <1>0, <1>3, <1>5, RowCommitTokens
<1> QED
  BY <1>6, <1>7, <1>8, <1>9 DEF PInv

\* The delivery commits: the row is settled, its generation ended.
LEMMA CommitDeliveryKeeps == \A w \in Workers : PInv /\ CommitDelivery(w) => PInv'
<1> SUFFICES ASSUME NEW w \in Workers, PInv, CommitDelivery(w) PROVE PInv'
  OBVIOUS
<1> DEFINE n == tx[w].row
           user == rows[n].user
<1>0. /\ TypeOK /\ w \in Tx /\ tx[w].pc = "ready" /\ End(w)
      /\ subs' = IF subLock[user] = w THEN [subs EXCEPT ![user] = NoToken] ELSE subs
      /\ UNCHANGED <<stick, open, nextToken>>
  BY Connections DEF PInv, CommitDelivery
<1>1. /\ n \in 1..Len(rows) /\ rowLock[n] = w /\ rows[n].status # "succeeded"
      /\ subLock[user] = w <=> subs[user] = rows[n].generation
  BY <1>0 DEF PInv, WorkerOK, WorkerShape, RowKept, GenerationKept
<1>2. RowSet(n, "succeeded", NoToken) /\ NoToken \in Nat /\ "succeeded" \in Statuses
  BY DEF CommitDelivery, RowSet, Statuses, NoToken
<1>3. /\ rows' \in Seq(Row) /\ Len(rows') = Len(rows) /\ rows'[n].status = "succeeded"
      /\ \A m \in 1..Len(rows) : /\ rows'[m].user = rows[m].user
                                 /\ rows'[m].generation = rows[m].generation
                                 /\ m # n => rows'[m] = rows[m]
  BY <1>0, <1>1, <1>2, RowSetEffect
<1> HIDE DEF n
<1>4. user \in Users
  BY <1>0, <1>1, RowTypes
<1>5. /\ OnlyOf(w) /\ tx'[w] = Idle /\ \A u \in Users : subLock'[u] # w
  BY <1>0, EndEffect
<1>6. /\ subs' \in [Users -> Nat] /\ \A u \in Users : subs'[u] \in {subs[u], NoToken}
  BY <1>0, <1>4 DEF TypeOK, NoToken
<1>7. TypeOK'
  BY <1>0, <1>3, <1>6, EndEffect DEF TypeOK
<1>8. WorkerOK(w)'
  BY <1>0, <1>5, <1>7, IdleOK
<1>9. /\ \A r \in Requests : RequestOK(r)'
      /\ \A s \in Workers \ {w} : WorkerOK(s)'
  BY <1>0, <1>1, <1>3, <1>5, RowCommitFrame
<1>10. TokensKnown' /\ \A r \in Requests : TokenUnused(r)'
  BY <1>0, <1>3, <1>5, <1>6, RowCommitTokens
<1> QED
  BY <1>7, <1>8, <1>9, <1>10 DEF PInv

\* A failed delivery is recorded if the claim still stands.
LEMMA MarkFailedKeeps == \A w \in Workers : PInv /\ MarkNotificationFailed(w) => PInv'
<1> SUFFICES ASSUME NEW w \in Workers, PInv, MarkNotificationFailed(w) PROVE PInv'
  OBVIOUS
<1> DEFINE n == tx[w].row
<1>0. /\ TypeOK /\ w \in Tx /\ tx[w].pc = "sending" /\ End(w) /\ rowLock[n] = NULL
      /\ UNCHANGED <<stick, open, subs, nextToken>>
  BY Connections DEF PInv, MarkNotificationFailed
<1>1. CASE ~HoldsClaim(w)
  <2>1. Rollback(w)
    BY <1>0, <1>1 DEF Rollback, tables, MarkNotificationFailed
  <2> QED
    BY <1>0, <2>1, RollbackKeeps
<1>2. CASE HoldsClaim(w)
  <2>1. n \in 1..Len(rows) /\ rows[n].status # "succeeded"
    BY <1>0, <1>2 DEF PInv, WorkerOK, WorkerShape, HoldsClaim
  <2>2. RowSet(n, "failed", NoToken) /\ NoToken \in Nat /\ "failed" \in Statuses
    BY <1>2 DEF MarkNotificationFailed, RowSet, Statuses, NoToken
  <2>3. /\ rows' \in Seq(Row) /\ Len(rows') = Len(rows)
        /\ \A m \in 1..Len(rows) : /\ rows'[m].user = rows[m].user
                                   /\ rows'[m].generation = rows[m].generation
                                   /\ m # n => rows'[m] = rows[m]
    BY <1>0, <2>1, <2>2, RowSetEffect
  <2> HIDE DEF n
  <2>4. OnlyOf(w) /\ tx'[w] = Idle /\ \A u \in Users : subLock'[u] # w
    BY <1>0, EndEffect
  <2>5. TypeOK'
    BY <1>0, <2>3, EndEffect DEF TypeOK
  <2>6. WorkerOK(w)'
    BY <1>0, <2>4, <2>5, IdleOK
  <2>7. /\ \A r \in Requests : RequestOK(r)'
        /\ \A s \in Workers \ {w} : WorkerOK(s)'
    BY <1>0, <2>1, <2>3, <2>4, RowCommitFrame
  <2>8. TokensKnown' /\ \A r \in Requests : TokenUnused(r)'
    BY <1>0, <2>3, <2>4, RowCommitTokens
  <2> QED
    BY <2>5, <2>6, <2>7, <2>8 DEF PInv
<1> QED
  BY <1>1, <1>2

-----------------------------------------------------------------------------
(* The commit of a request. *)

\* At most one notification is queued for each user.
LEMMA QueuedFits ==
    ASSUME PInv, NEW r \in Requests
    PROVE  /\ IsFiniteSet(tx[r].queued) /\ Cardinality(tx[r].queued) \in Nat
           /\ Cardinality(tx[r].queued) <= Cardinality(Users) /\ Cardinality(Users) \in Nat
<1> DEFINE Q == tx[r].queued
           f == [e \in Q |-> e[1]]
<1>1. Q \subseteq Users \X Nat /\ \A d, e \in Q : d[1] = e[1] => d = e
  BY TxTypes, Connections DEF PInv, RequestOK, RequestShape
<1> HIDE DEF Q
<1>2. f \in [Q -> Users] /\ \A d, e \in Q : f[d] = f[e] => d = e
  BY <1>1
<1>3. f \in Injection(Q, Users)
  BY <1>2 DEF Injection, IsInjective
<1>4. IsFiniteSet(Users)
  BY PostgresAssumption
<1>5. IsFiniteSet(Q) /\ Cardinality(Q) <= Cardinality(Users)
  BY <1>3, <1>4, FS_Injection
<1> QED
  BY <1>4, <1>5, FS_CardinalityType DEF Q

\* The rows after a commit: the old ones, and one for each entry queued.
LEMMA CommitAppends ==
    ASSUME PInv, NEW r \in Requests, Commit(r)
    PROVE  /\ rows' \in Seq(Row)
           /\ Len(rows') = Len(rows) + Cardinality(tx[r].queued)
           /\ \A n \in 1..Len(rows) : n \in 1..Len(rows') /\ rows'[n] = rows[n]
           /\ \A n \in (Len(rows) + 1)..Len(rows') :
                 \E e \in tx[r].queued : rows'[n] = NewRow(e)
           /\ \A e \in tx[r].queued :
                 \E n \in (Len(rows) + 1)..Len(rows') : rows'[n] = NewRow(e)
           /\ \A m, n \in (Len(rows) + 1)..Len(rows') :
                 rows'[m].user = rows'[n].user => m = n
<1> DEFINE Q == tx[r].queued
           k == Cardinality(Q)
<1>1. /\ TypeOK /\ k \in Nat /\ \A e \in Q : e[1] \in Users /\ e[2] \in Nat
      /\ \A d, e \in Q : d[1] = e[1] => d = e
  BY QueuedFits, TxTypes, Connections DEF PInv, RequestOK, RequestShape
<1>2. PICK order \in Bijection(1..k, Q) :
         rows' = rows \o [n \in DOMAIN order |-> NewRow(order[n])]
  BY DEF Commit
<1> DEFINE more == [n \in 1..k |-> NewRow(order[n])]
<1>3. order \in [1..k -> Q]
  BY DEF Bijection, Injection
<1>4. rows' = rows \o more
  BY <1>2, <1>3
<1> HIDE DEF Q, k
<1>5. \A n \in 1..k : NewRow(order[n]) \in Row
  BY <1>1, <1>3 DEF NewRow, Row, Statuses, NoToken
<1>6. more \in Seq(Row)
  BY <1>1, <1>5, IsASeq
<1>7. Len(more) = k /\ rows \in Seq(Row) /\ Len(rows) \in Nat
  BY <1>1, <1>6, LenProperties DEF TypeOK
<1>8. \A n \in 1..k : more[n] = NewRow(order[n])
  OBVIOUS
<1> HIDE DEF more
<1>9. /\ rows' \in Seq(Row) /\ Len(rows') = Len(rows) + k
      /\ \A i \in 1..(Len(rows) + k) :
            rows'[i] = IF i <= Len(rows) THEN rows[i] ELSE more[i - Len(rows)]
  BY <1>4, <1>6, <1>7, ConcatProperties
<1>10. \A n \in 1..Len(rows) : n \in 1..Len(rows') /\ rows'[n] = rows[n]
  BY <1>1, <1>7, <1>9
<1>11. \A n \in (Len(rows) + 1)..Len(rows') :
          n - Len(rows) \in 1..k /\ rows'[n] = NewRow(order[n - Len(rows)])
  BY <1>1, <1>7, <1>8, <1>9
<1>12. \A n \in (Len(rows) + 1)..Len(rows') : \E e \in Q : rows'[n] = NewRow(e)
  BY <1>3, <1>11
<1>13. ASSUME NEW e \in Q PROVE \E n \in (Len(rows) + 1)..Len(rows') : rows'[n] = NewRow(e)
  <2>1. PICK i \in 1..k : order[i] = e
    BY DEF Bijection, Surjection
  <2>2. i + Len(rows) \in (Len(rows) + 1)..Len(rows') /\ (i + Len(rows)) - Len(rows) = i
    BY <1>1, <1>7, <1>9
  <2> QED
    BY <1>11, <2>1, <2>2
<1>14. ASSUME NEW m \in (Len(rows) + 1)..Len(rows'), NEW n \in (Len(rows) + 1)..Len(rows'),
              rows'[m].user = rows'[n].user
       PROVE  m = n
  <2>1. order[m - Len(rows)][1] = order[n - Len(rows)][1]
    <3>1. \A e : NewRow(e).user = e[1]
      BY DEF NewRow
    <3> QED
      BY <1>11, <1>14, <3>1
  <2>2. order[m - Len(rows)] = order[n - Len(rows)]
    BY <1>1, <1>3, <1>11, <2>1
  <2>3. m - Len(rows) = n - Len(rows)
    BY <1>11, <2>2 DEF Bijection, Injection, IsInjective
  <2> QED
    BY <1>7, <1>9, <2>3
<1> QED
  BY <1>9, <1>10, <1>12, <1>13, <1>14 DEF Q, k

\* While a request commits, no other is past GetStick; what it writes.
LEMMA CommitFacts ==
    ASSUME PInv, NEW r \in Requests, Commit(r)
    PROVE  /\ TypeOK /\ r \in Tx /\ tx[r].pc = "ready" /\ End(r) /\ UNCHANGED nextToken
           /\ tx[r].user \in Users /\ tx[r].op \in Ops
           /\ stickLock = r /\ tx[r].version = stick.version
           /\ \A q \in Requests \ {r} : tx[q].pc \notin Inside /\ tx[q].queued = {}
           /\ tx[r].op # "release" => tx[r].queued = {} /\ UNCHANGED rows
           /\ tx[r].op \in {"claim", "release"} =>
                 stick' = [version |-> stick.version + 1, held |-> tx[r].op = "claim"] /\ UNCHANGED subs
           /\ tx[r].op \in {"subscribe", "unsubscribe"} =>
                 UNCHANGED stick /\ subs' = [subs EXCEPT ![tx[r].user] = tx[r].token]
           /\ open' \in Int
<1>1. /\ TypeOK /\ r \in Tx /\ tx[r].pc = "ready" /\ End(r) /\ UNCHANGED nextToken /\ RequestOK(r)
      /\ rows \in Seq(Row) /\ open \in Int
  BY Connections DEF PInv, TypeOK, Commit
<1>2. /\ tx[r].user \in Users /\ tx[r].op \in Ops
      /\ stickLock = r /\ tx[r].version = stick.version
      /\ tx[r].op # "release" => tx[r].queued = {}
  BY <1>1 DEF RequestOK, StickKept, RequestShape, Inside
<1>3. \A q \in Requests \ {r} : tx[q].pc \notin Inside /\ tx[q].queued = {}
  BY <1>2 DEF PInv, RequestOK, StickKept, RequestShape, Inside
<1>4. ASSUME tx[r].op # "release" PROVE UNCHANGED rows
  <2>1. Cardinality(tx[r].queued) = 0
    BY <1>2, <1>4, FS_EmptySet
  <2>2. /\ rows' \in Seq(Row) /\ Len(rows') = Len(rows) /\ Len(rows) \in Nat
        /\ \A n \in 1..Len(rows) : rows'[n] = rows[n]
    BY <1>1, <2>1, CommitAppends, RowTypes
  <2> QED
    BY <1>1, <2>2, SeqEqual
<1>5. open' \in Int
  BY <1>1, <1>2 DEF Commit, Ops
<1> QED
  BY <1>1, <1>2, <1>3, <1>4, <1>5 DEF Commit, Ops

\* The commit keeps the invariant.
LEMMA CommitKeeps == \A r \in Requests : PInv /\ Commit(r) => PInv'
<1> SUFFICES ASSUME NEW r \in Requests, PInv, Commit(r) PROVE PInv'
  OBVIOUS
<1> DEFINE t == tx[r]
<1>0. /\ TypeOK /\ r \in Tx /\ t.pc = "ready" /\ End(r) /\ UNCHANGED nextToken
      /\ t.user \in Users /\ t.op \in Ops /\ t.token \in Nat
      /\ stickLock = r /\ t.version = stick.version
      /\ \A q \in Requests \ {r} : tx[q].pc \notin Inside /\ tx[q].queued = {}
      /\ t.op # "release" => t.queued = {} /\ UNCHANGED rows
      /\ t.op \in {"claim", "release"} =>
            stick' = [version |-> stick.version + 1, held |-> t.op = "claim"] /\ UNCHANGED subs
      /\ t.op \in {"subscribe", "unsubscribe"} =>
            UNCHANGED stick /\ subs' = [subs EXCEPT ![t.user] = t.token]
      /\ open' \in Int
  BY CommitFacts, TxTypes DEF PInv
<1>1. /\ tx'[r] = Idle /\ OnlyOf(r) /\ \A u \in Users : subLock'[u] # r
      /\ \A s \in Tx \ {r} : tx'[s] = tx[s]
  BY <1>0, EndEffect DEF OnlyOf
<1>2. /\ rows' \in Seq(Row) /\ Len(rows') \in Nat /\ Len(rows) \in Nat
      /\ Len(rows') = Len(rows) + Cardinality(t.queued) /\ Len(rows') >= Len(rows)
      /\ \A n \in 1..Len(rows) : n \in 1..Len(rows') /\ rows'[n] = rows[n]
      /\ \A n \in (Len(rows) + 1)..Len(rows') : \E e \in t.queued : rows'[n] = NewRow(e)
  BY <1>0, CommitAppends, QueuedFits, RowTypes
<1>3. Len(rows') <= MaxRows
  <2>1. CASE t.op # "release"
    BY <1>0, <2>1 DEF TypeOK
  <2>2. CASE t.op = "release"
    <3>1. Len(rows) + Cardinality(Users) <= MaxRows
      BY <1>0, <2>2 DEF PInv, RequestOK, RequestShape
    <3> QED
      BY <1>2, <3>1, QueuedFits, PostgresAssumption
  <2> QED
    BY <2>1, <2>2
<1>4. /\ stick' \in [version : Nat, held : BOOLEAN] /\ stick'.version > 0 /\ subs' \in [Users -> Nat]
      /\ stick'.version >= stick.version
      /\ t.op \in {"claim", "release"} => stick'.version = stick.version + 1
  <2>1. CASE t.op \in {"claim", "release"}
    <3> DEFINE new == [version |-> stick.version + 1, held |-> t.op = "claim"]
    <3>1. stick.version \in Nat /\ subs \in [Users -> Nat]
      BY <1>0 DEF TypeOK
    <3>2. (t.op = "claim") \in BOOLEAN
      OBVIOUS
    <3>3. new \in [version : Nat, held : BOOLEAN] /\ new.version = stick.version + 1
      BY <3>1, <3>2
    <3>4. stick' = new /\ subs' = subs
      BY <1>0, <2>1
    <3> HIDE DEF new
    <3> QED
      BY <3>1, <3>3, <3>4
  <2>2. CASE t.op \in {"subscribe", "unsubscribe"}
    BY <1>0, <2>2 DEF TypeOK
  <2> QED
    BY <1>0, <2>1, <2>2 DEF Ops
<1>5. TypeOK'
  BY <1>0, <1>2, <1>3, <1>4, EndEffect DEF TypeOK
<1>6. RequestOK(r)'
  BY <1>0, <1>1, <1>5, IdleOK
<1>7. ASSUME NEW q \in Requests \ {r} PROVE RequestOK(q)'
  <2>0. /\ q \in Tx /\ tx'[q] = tx[q] /\ tx[q].pc \notin Inside /\ RequestOK(q)
        /\ tx[q].version \in Nat /\ stick.version \in Nat /\ stick'.version \in Nat
    BY <1>0, <1>1, <1>4, Connections, TxTypes DEF PInv, TypeOK
  <2>1. StickKept(q)' /\ QueuedKept(q)' /\ UserRowKept(q)'
    BY <2>0 DEF StickKept, QueuedKept, UserRowKept, Inside
  <2>2. tx[q].op = "release" /\ tx[q].version = stick'.version
           => Len(rows') + Cardinality(Users) <= MaxRows
    <3>1. CASE t.op \in {"claim", "release"}
      BY <1>4, <2>0, <3>1 DEF RequestOK, RequestShape
    <3>2. CASE t.op \in {"subscribe", "unsubscribe"}
      BY <1>0, <2>0, <3>2 DEF RequestOK, RequestShape
    <3> QED
      BY <1>0, <3>1, <3>2 DEF Ops
  <2>3. RequestShape(q)'
    BY <1>4, <2>0, <2>2 DEF RequestOK, RequestShape
  <2> QED
    BY <2>1, <2>3 DEF RequestOK
<1>8. \A n \in 1..Len(rows) : /\ rows'[n].generation = rows[n].generation
                              /\ rows[n].generation # NoToken
                              /\ t.op = "subscribe" => rows[n].generation # t.token
  BY <1>2 DEF PInv, TokensKnown, TokenUnused
<1>9. ASSUME NEW s \in Workers PROVE WorkerOK(s)'
  <2>0. /\ s \in Tx /\ s # r /\ s # NULL /\ tx'[s] = tx[s] /\ WorkerOK(s)
        /\ \A u \in Users : subLock'[u] = s <=> subLock[u] = s
        /\ \A n \in 1..MaxRows : rowLock'[n] = s <=> rowLock[n] = s
    BY <1>1, Connections DEF PInv, OnlyOf
  <2>1. tx[s].pc # "idle" => /\ tx[s].row \in 1..Len(rows) /\ tx[s].row \in 1..Len(rows')
                             /\ tx[s].row \in 1..MaxRows
                             /\ rows'[tx[s].row] = rows[tx[s].row]
                             /\ rows[tx[s].row].user \in Users
    BY <1>0, <1>2, <2>0, RowTypes DEF WorkerOK, WorkerShape
  <2>2. WorkerShape(s)' /\ RowKept(s)'
    BY <2>0, <2>1 DEF WorkerOK, WorkerShape, RowKept
  <2>3. GenerationKept(s)'
    <3> SUFFICES ASSUME tx[s].pc = "ready"
                 PROVE  subLock'[rows[tx[s].row].user] = s
                            <=> subs'[rows[tx[s].row].user] = rows[tx[s].row].generation
      BY <2>0, <2>1 DEF GenerationKept
    <3> DEFINE u == rows[tx[s].row].user
               g == rows[tx[s].row].generation
    <3>1. /\ u \in Users /\ g # NoToken /\ (t.op = "subscribe" => g # t.token)
          /\ subLock[u] = s <=> subs[u] = g
      BY <1>8, <2>0, <2>1 DEF WorkerOK, GenerationKept
    <3> HIDE DEF u, g
    <3>2. subs'[u] = g <=> subs[u] = g
      <4>1. CASE t.op \in {"claim", "release"}
        BY <1>0, <4>1
      <4>2. CASE t.op \in {"subscribe", "unsubscribe"} /\ u = t.user
        <5>1. t.op = "unsubscribe" => t.token = NoToken
          BY DEF PInv, RequestOK, RequestShape
        <5>2. subs'[u] = t.token
          BY <1>0, <3>1, <4>2 DEF TypeOK
        <5>3. subLock[u] = r \/ subs[u] = NoToken
          BY <1>0, <4>2 DEF PInv, RequestOK, UserRowKept
        <5> QED
          BY <2>0, <3>1, <4>2, <5>1, <5>2, <5>3
      <4>3. CASE t.op \in {"subscribe", "unsubscribe"} /\ u # t.user
        BY <1>0, <3>1, <4>3 DEF TypeOK
      <4> QED
        BY <1>0, <4>1, <4>2, <4>3 DEF Ops
    <3> QED
      BY <2>0, <3>1, <3>2 DEF u, g
  <2> QED
    BY <2>2, <2>3 DEF WorkerOK
<1>10. /\ \A u \in Users : subs'[u] = subs[u] \/ (t.op \in {"subscribe", "unsubscribe"} /\ subs'[u] = t.token)
       /\ t.op = "unsubscribe" => t.token = NoToken
  BY <1>0 DEF TypeOK, Ops, PInv, RequestOK, RequestShape
<1>11. \A n \in 1..Len(rows') : \/ n \in 1..Len(rows) /\ rows'[n] = rows[n]
                                \/ \E e \in t.queued : rows'[n].generation = e[2]
  <2> SUFFICES ASSUME NEW n \in 1..Len(rows')
               PROVE  \/ n \in 1..Len(rows) /\ rows'[n] = rows[n]
                      \/ \E e \in t.queued : rows'[n].generation = e[2]
    OBVIOUS
  <2>1. CASE n <= Len(rows)
    BY <1>2, <2>1
  <2>2. CASE n > Len(rows)
    <3>1. n \in (Len(rows) + 1)..Len(rows')
      BY <1>2, <2>2
    <3>2. PICK e \in t.queued : rows'[n] = NewRow(e)
      BY <1>2, <3>1
    <3> QED
      BY <3>2 DEF NewRow
  <2> QED
    BY <1>2, <2>1, <2>2
<1>12. \A q \in Requests : tx'[q].queued = {}
  BY <1>0, <1>1, IdleState, Connections
<1>13. TokensKnown'
  <2>1. \A u \in Users : subs'[u] < nextToken
    <3>1. NoToken < nextToken
      BY <1>0 DEF TypeOK, NoToken
    <3> QED
      BY <1>10, <3>1 DEF PInv, TokensKnown, TokenUnused
  <2>2. \A n \in 1..Len(rows') : rows'[n].generation # NoToken /\ rows'[n].generation < nextToken
    BY <1>11 DEF PInv, TokensKnown
  <2> QED
    BY <1>0, <1>12, <2>1, <2>2 DEF TokensKnown
<1>14. ASSUME NEW q \in Requests PROVE TokenUnused(q)'
  <2> SUFFICES ASSUME tx'[q].op = "subscribe" PROVE TokenUnused(q)'
    BY DEF TokenUnused
  <2>1. q # r /\ tx'[q] = tx[q]
    BY <1>1, IdleState, Connections
  <2>2. \A u \in Users : subs'[u] # tx[q].token
    BY <1>10, <2>1 DEF PInv, TokenUnused
  <2>3. \A n \in 1..Len(rows') : rows'[n].generation # tx[q].token
    BY <1>11, <2>1 DEF PInv, TokenUnused
  <2>4. \A p \in Requests \ {q} : tx'[p].op = "subscribe" => tx'[p].token # tx[q].token
    BY <1>1, <2>1, IdleState, Connections DEF PInv, TokenUnused
  <2> QED
    BY <1>0, <1>12, <2>1, <2>2, <2>3, <2>4 DEF PInv, TokenUnused
<1> QED
  BY <1>5, <1>6, <1>7, <1>9, <1>13, <1>14 DEF PInv

-----------------------------------------------------------------------------
(* The invariant. *)

\* Nothing is open at the start.
LEMMA InitPInv == Init => PInv
<1> SUFFICES ASSUME Init PROVE PInv
  OBVIOUS
<1>1. /\ tx \in [Tx -> TxState] /\ \A t \in Tx : tx[t] = Idle
  BY IdleState DEF Init
<1>2. /\ rows = <<>> /\ Len(rows) = 0 /\ rows \in Seq(Row) /\ stick.version = 1
      /\ subs \in [Users -> Nat] /\ \A u \in Users : subs[u] = NoToken
  BY EmptySeq DEF Init, NoToken
<1>3. TypeOK
  BY <1>1, <1>2, PostgresAssumption DEF Init, TypeOK
<1>4. ASSUME NEW r \in Requests PROVE RequestOK(r) /\ TokenUnused(r)
  <2>1. tx[r] = Idle
    BY <1>1, Connections
  <2>2. StickKept(r) /\ QueuedKept(r) /\ UserRowKept(r) /\ RequestShape(r) /\ TokenUnused(r)
    BY <1>2, <2>1, IdleState
    DEF StickKept, QueuedKept, UserRowKept, RequestShape, TokenUnused, Inside
  <2> QED
    BY <2>2 DEF RequestOK
<1>5. ASSUME NEW w \in Workers PROVE WorkerOK(w)
  <2>1. tx[w] = Idle /\ \A u \in Users : subLock[u] # w
    BY <1>1, Connections DEF Init
  <2> QED
    BY <2>1, IdleState DEF WorkerOK, WorkerShape, RowKept, GenerationKept
<1>6. TokensKnown
  BY <1>1, <1>2, IdleState, Connections DEF Init, TokensKnown, NoToken
<1> QED
  BY <1>3, <1>4, <1>5, <1>6 DEF PInv

\* Every statement, commit and rollback keeps it.
LEMMA NextKeepsPInv == PInv /\ [Next]_vars => PInv'
<1> SUFFICES ASSUME PInv, [Next]_vars PROVE PInv'
  OBVIOUS
<1>1. ASSUME NEW r \in Requests, NEW u \in Users, NEW op \in Ops, Begin(r, op, u) PROVE PInv'
  BY <1>1, BeginKeeps
<1>2. ASSUME NEW r \in Requests, RequestStep(r) PROVE PInv'
  BY <1>2, GetStickKeeps, SaveStickKeeps, SessionKeeps, EnqueueKeeps, SubscriptionKeeps, CommitKeeps
  DEF RequestStep
<1>3. ASSUME NEW w \in Workers, ClaimNotification(w) \/ WorkerStep(w) PROVE PInv'
  BY <1>3, ClaimNotificationKeeps, CommitClaimKeeps, MarkSucceededKeeps, MarkFailedKeeps,
     DeleteSubscriptionKeeps, CommitDeliveryKeeps
  DEF WorkerStep
<1>4. ASSUME NEW t \in Tx, Fail(t) PROVE PInv'
  BY <1>4, RollbackKeeps DEF Fail
<1>5. CASE UNCHANGED vars
  <2>1. UNCHANGED <<stick, open, subs, rows, nextToken, stickLock, subLock, rowLock, tx>>
    BY <1>5 DEF vars, tables, locks
  <2>2. TypeOK' /\ TokensKnown' /\ \A r \in Requests : TokenUnused(r)'
    BY <2>1 DEF PInv, TypeOK, TokensKnown, TokenUnused
  <2>3. ASSUME NEW r \in Requests PROVE RequestOK(r)'
    BY <2>1, RequestFrame DEF PInv
  <2>4. ASSUME NEW w \in Workers PROVE WorkerOK(w)'
    BY <2>1, WorkerFrame DEF PInv
  <2> QED
    BY <2>2, <2>3, <2>4 DEF PInv
<1> QED
  BY <1>1, <1>2, <1>3, <1>4, <1>5 DEF Next, Ops

\* Whatever the number of connections, an open transaction finds at its next
\* statement what the locks of its earlier statements (SELECT ... FOR UPDATE,
\* UPDATE, DELETE) are there to keep.
THEOREM PostgresInvariant == Spec => []PInv
<1> QED
  BY InitPInv, NextKeepsPInv, PTL DEF Spec

-----------------------------------------------------------------------------
(* Waiting for each other's locks. *)

\* Whoever has a lock is between the statement that takes it and the commit.
LocksOf(t) ==
    /\ stickLock = t => tx[t].pc \in Inside
    /\ \A u \in Users : subLock[u] = t => tx[t].pc = "ready"
    /\ \A n \in 1..MaxRows : rowLock[n] = t => tx[t].pc \in {"claiming", "settled", "ready"}

LockInv == \A t \in Tx : LocksOf(t)

\* The transaction's next statement waits for a row that is locked.
Waits(t) ==
    \/ tx[t].pc = "begun" /\ stickLock # NULL
    \/ tx[t].pc = "read" /\ tx[t].op \in {"claim", "release"} /\ stickLock \notin {NULL, t}
    \/ At(t, "read", "subscribe") /\ subLock[tx[t].user] # NULL
    \/ /\ At(t, "read", "unsubscribe")
       /\ subs[tx[t].user] # NoToken /\ subLock[tx[t].user] # NULL
    \/ tx[t].pc = "sending" /\ rowLock[tx[t].row] # NULL
    \/ /\ tx[t].pc = "settled"
       /\ subs[rows[tx[t].row].user] = rows[tx[t].row].generation
       /\ subLock[rows[tx[t].row].user] # NULL

\* A step of t leaves the others' locks and places alone.
LEMMA StepKeepsLocks ==
    ASSUME LockInv, NEW t \in Tx, OnlyOf(t), LocksOf(t)'
    PROVE  LockInv'
  BY DEF LockInv, LocksOf, OnlyOf

\* The end of a transaction, however it ends.
LEMMA EndKeepsLocks ==
    ASSUME PInv, LockInv, NEW t \in Tx, OnlyOf(t), Unlock(t)
    PROVE  LockInv'
<1>1. stickLock' # t /\ \A u \in Users : subLock'[u] # t
  BY UnlockEffect DEF PInv
<1>2. \A n \in 1..MaxRows : rowLock'[n] # t
  BY Connections DEF Unlock
<1> QED
  BY <1>1, <1>2, StepKeepsLocks DEF LocksOf

\* A statement that takes no lock, at a place where the locks may stay.
LEMMA GoKeepsLocks ==
    ASSUME PInv, LockInv, NEW t \in Tx, UNCHANGED locks, tx' \in [Tx -> TxState],
           \A s \in Tx \ {t} : tx'[s] = tx[s],
           tx[t].pc \in Inside => tx'[t].pc \in Inside,
           tx[t].pc = "ready" => tx'[t].pc = "ready",
           tx[t].pc \in {"claiming", "settled", "ready"} => tx'[t].pc \in {"claiming", "settled", "ready"}
    PROVE  LockInv'
  BY DEF LockInv, LocksOf, locks

\* A statement of a request.
LEMMA RequestKeepsLocks ==
    ASSUME PInv, LockInv, NEW r \in Requests, RequestStep(r)
    PROVE  LockInv'
<1>0. r \in Tx /\ r # NULL /\ r \notin Workers /\ TypeOK
  BY Connections DEF PInv
<1>1. CASE Rollback(r) \/ Commit(r)
  <2>1. End(r)
    BY <1>1 DEF Rollback, Commit
  <2> QED
    BY <1>0, <2>1, EndEffect, EndKeepsLocks DEF End
<1>2. CASE GetStick(r) /\ ~Rollback(r)
  <2>1. /\ Go(r, "read") /\ stickLock = NULL /\ stickLock' = r
        /\ UNCHANGED <<subLock, rowLock>> /\ tx[r].pc = "begun"
    BY <1>2 DEF GetStick
  <2>2. tx'[r].pc = "read" /\ \A s \in Tx \ {r} : tx'[s] = tx[s]
    BY <1>0, <2>1, GoEffect
  <2>3. OnlyOf(r)
    BY <1>0, <2>1, <2>2, Connections DEF OnlyOf
  <2>4. LocksOf(r)'
    BY <1>0, <2>1, <2>2 DEF LocksOf, Inside, LockInv
  <2> QED
    BY <1>0, <2>3, <2>4, StepKeepsLocks
<1>3. CASE SaveStick(r) /\ ~Rollback(r)
  <2>1. /\ Go(r, "saved") /\ stickLock \in {NULL, r} /\ stickLock' = r
        /\ UNCHANGED <<subLock, rowLock>> /\ tx[r].pc = "read"
    BY <1>3 DEF SaveStick, At
  <2>2. tx'[r].pc = "saved" /\ \A s \in Tx \ {r} : tx'[s] = tx[s]
    BY <1>0, <2>1, GoEffect
  <2>3. OnlyOf(r)
    BY <1>0, <2>1, <2>2, Connections DEF OnlyOf
  <2>4. LocksOf(r)'
    BY <1>0, <2>1, <2>2 DEF LocksOf, Inside, LockInv
  <2> QED
    BY <1>0, <2>3, <2>4, StepKeepsLocks
<1>4. CASE (CreateSession(r) \/ CloseSession(r)) /\ ~Rollback(r)
  <2>1. PICK pc \in {"ready", "closed"} : Go(r, pc)
    BY <1>4 DEF CreateSession, CloseSession
  <2>2. UNCHANGED locks /\ tx[r].pc = "saved"
    BY <1>4 DEF CreateSession, CloseSession, At
  <2>3. tx' \in [Tx -> TxState] /\ tx'[r].pc = pc /\ \A s \in Tx \ {r} : tx'[s] = tx[s]
    BY <1>0, <2>1, GoEffect
  <2> QED
    BY <1>0, <2>2, <2>3, GoKeepsLocks DEF Inside
<1>5. CASE EnqueueReleaseNotifications(r)
  <2>1. /\ tx' = [tx EXCEPT ![r] = [tx[r] EXCEPT !.pc = "ready",
                     !.queued = {<<u, subs[u]>> : u \in {v \in Users : subs[v] # NoToken}}]]
        /\ UNCHANGED locks /\ tx[r].pc = "closed"
    BY <1>5 DEF EnqueueReleaseNotifications, At
  <2>2. tx'[r].pc = "ready" /\ \A s \in Tx \ {r} : tx'[s] = tx[s]
    BY <1>0, <2>1 DEF TypeOK, TxState
  <2> QED
    BY <1>0, <2>1, <2>2, StepKeepsLocks DEF LocksOf, LockInv, OnlyOf, Inside, locks
<1>6. CASE Subscribe(r) \/ Unsubscribe(r)
  <2>1. /\ Go(r, "ready") /\ tx[r].pc = "read" /\ UNCHANGED <<stickLock, rowLock>>
        /\ \/ UNCHANGED subLock
           \/ /\ subLock[tx[r].user] = NULL
              /\ subLock' = [subLock EXCEPT ![tx[r].user] = r]
    BY <1>6 DEF Subscribe, Unsubscribe, At
  <2>2. tx'[r].pc = "ready" /\ \A s \in Tx \ {r} : tx'[s] = tx[s]
    BY <1>0, <2>1, GoEffect
  <2>3. OnlyOf(r)
    BY <1>0, <2>1, <2>2, Connections DEF OnlyOf, TypeOK
  <2>4. LocksOf(r)'
    BY <1>0, <2>1, <2>2 DEF LocksOf, Inside, LockInv
  <2> QED
    BY <1>0, <2>3, <2>4, StepKeepsLocks
<1> QED
  BY <1>1, <1>2, <1>3, <1>4, <1>5, <1>6 DEF RequestStep

\* A statement of a worker.
LEMMA WorkerKeepsLocks ==
    ASSUME PInv, LockInv, NEW w \in Workers, ClaimNotification(w) \/ WorkerStep(w)
    PROVE  LockInv'
<1>0. w \in Tx /\ w # NULL /\ w \notin Requests /\ TypeOK /\ tx[w] \in TxState
  BY Connections, TxTypes DEF PInv
<1>1. CASE Rollback(w) \/ CommitDelivery(w) \/ MarkNotificationFailed(w)
  <2>1. End(w)
    BY <1>1 DEF Rollback, CommitDelivery, MarkNotificationFailed
  <2> QED
    BY <1>0, <2>1, EndEffect, EndKeepsLocks DEF End
<1>2. CASE CommitClaim(w)
  <2>1. Unlock(w) /\ (Go(w, "sending") \/ tx' = [tx EXCEPT ![w] = Idle])
    BY <1>2 DEF CommitClaim
  <2>2. \A s \in Tx \ {w} : tx'[s] = tx[s]
    BY <1>0, <2>1 DEF Go, TypeOK
  <2>3. OnlyOf(w)
    BY <1>0, <2>1, <2>2, UnlockEffect DEF OnlyOf
  <2> QED
    BY <1>0, <2>1, <2>3, EndKeepsLocks
<1>3. CASE ClaimNotification(w)
  <2>1. PICK n \in 1..Len(rows) :
            /\ rowLock[n] = NULL /\ rowLock' = [rowLock EXCEPT ![n] = w]
            /\ tx' = [tx EXCEPT ![w] = [Idle EXCEPT !.pc = "claiming", !.op = "deliver",
                                                    !.row = n, !.token = nextToken]]
    BY <1>3 DEF ClaimNotification
  <2>2. n \in 1..MaxRows /\ UNCHANGED <<stickLock, subLock>> /\ tx[w].pc = "idle"
    BY <1>0, <1>3, <2>1, RowTypes DEF ClaimNotification
  <2>3. tx'[w].pc = "claiming" /\ \A s \in Tx \ {w} : tx'[s] = tx[s]
    BY <1>0, <2>1 DEF TypeOK, Idle
  <2>4. OnlyOf(w)
    BY <1>0, <2>1, <2>2, <2>3, Connections DEF OnlyOf, TypeOK
  <2>5. LocksOf(w)'
    BY <1>0, <2>1, <2>2, <2>3 DEF LocksOf, LockInv, Inside
  <2> QED
    BY <1>0, <2>4, <2>5, StepKeepsLocks
<1>4. CASE MarkNotificationSucceeded(w) /\ ~Rollback(w)
  <2>1. /\ Go(w, "settled") /\ tx[w].pc = "sending" /\ UNCHANGED <<stickLock, subLock>>
        /\ rowLock[tx[w].row] = NULL /\ rowLock' = [rowLock EXCEPT ![tx[w].row] = w]
    BY <1>4 DEF MarkNotificationSucceeded
  <2>2. tx'[w].pc = "settled" /\ \A s \in Tx \ {w} : tx'[s] = tx[s]
    BY <1>0, <2>1, GoEffect
  <2>3. OnlyOf(w)
    BY <1>0, <2>1, <2>2, Connections DEF OnlyOf, TypeOK
  <2>4. LocksOf(w)'
    BY <1>0, <2>1, <2>2 DEF LocksOf, LockInv, Inside
  <2> QED
    BY <1>0, <2>3, <2>4, StepKeepsLocks
<1>5. CASE DeleteSubscription(w)
  <2> DEFINE user == rows[tx[w].row].user
  <2>1. /\ Go(w, "ready") /\ tx[w].pc = "settled" /\ UNCHANGED <<stickLock, rowLock>>
        /\ \/ UNCHANGED subLock
           \/ subLock[user] = NULL /\ subLock' = [subLock EXCEPT ![user] = w]
    BY <1>5 DEF DeleteSubscription
  <2> HIDE DEF user
  <2>2. tx'[w].pc = "ready" /\ \A s \in Tx \ {w} : tx'[s] = tx[s]
    BY <1>0, <2>1, GoEffect
  <2>3. OnlyOf(w)
    BY <1>0, <2>1, <2>2, Connections DEF OnlyOf, TypeOK
  <2>4. LocksOf(w)'
    BY <1>0, <2>1, <2>2 DEF LocksOf, LockInv, Inside
  <2> QED
    BY <1>0, <2>3, <2>4, StepKeepsLocks
<1> QED
  BY <1>1, <1>2, <1>3, <1>4, <1>5 DEF WorkerStep

\* Every step keeps the locks where they belong.
LEMMA NextKeepsLocks == PInv /\ LockInv /\ [Next]_vars => LockInv'
<1> SUFFICES ASSUME PInv, LockInv, [Next]_vars PROVE LockInv'
  OBVIOUS
<1>1. ASSUME NEW r \in Requests, NEW u \in Users, NEW op \in Ops, Begin(r, op, u) PROVE LockInv'
  <2>1. r \in Tx /\ TypeOK /\ tx[r].pc = "idle" /\ UNCHANGED locks
    BY <1>1, Connections DEF Begin, PInv
  <2>2. tx'[r].pc = "begun" /\ \A s \in Tx \ {r} : tx'[s] = tx[s]
    BY <1>1, <2>1 DEF Begin, TypeOK, Idle
  <2>3. OnlyOf(r)
    BY <2>1, <2>2 DEF OnlyOf, locks
  <2>4. LocksOf(r)'
    BY <2>1 DEF LockInv, LocksOf, locks, Inside
  <2> QED
    BY <2>1, <2>3, <2>4, StepKeepsLocks
<1>2. ASSUME NEW t \in Tx, Fail(t) PROVE LockInv'
  <2>1. End(t)
    BY <1>2 DEF Fail, Rollback
  <2> QED
    BY <2>1, EndEffect, EndKeepsLocks DEF End, PInv
<1>3. CASE UNCHANGED vars
  BY <1>3 DEF vars, locks, LockInv, LocksOf
<1> QED
  BY <1>1, <1>2, <1>3, RequestKeepsLocks, WorkerKeepsLocks DEF Next, Ops

\* Whoever has a user's row is about to commit, and whoever has the stick or a
\* notification waits for a user's row at most.
LEMMA SomebodyGoesOn ==
    ASSUME PInv, LockInv, NEW t \in Tx, tx[t].pc # "idle"
    PROVE  \E s \in Tx : tx[s].pc # "idle" /\ ~Waits(s)
<1> SUFFICES ASSUME \A s \in Tx : tx[s].pc # "idle" => Waits(s) PROVE FALSE
  OBVIOUS
<1>1. \A u \in Users : subLock[u] = NULL
  <2> SUFFICES ASSUME NEW u \in Users, subLock[u] \in Tx PROVE FALSE
    BY DEF PInv, TypeOK
  <2>1. tx[subLock[u]].pc = "ready"
    BY DEF LockInv, LocksOf
  <2> QED
    BY <2>1 DEF Waits, At
<1>2. ASSUME NEW s \in Tx, tx[s].pc # "idle"
      PROVE  tx[s].pc \in {"begun", "sending"} \/ (tx[s].pc = "read" /\ stickLock \notin {NULL, s})
  <2>1. Waits(s)
    BY <1>2
  <2>2. CASE s \in Requests
    <3>1. RequestShape(s)
      BY <2>2 DEF PInv, RequestOK
    <3> QED
      BY <1>1, <1>2, <2>1, <3>1 DEF Waits, At, RequestShape, Inside
  <2>3. CASE s \in Workers
    <3>1. WorkerShape(s) /\ TypeOK
      BY <2>3 DEF PInv, WorkerOK
    <3>2. rows[tx[s].row].user \in Users
      BY <1>2, <3>1, RowTypes DEF WorkerShape
    <3> QED
      BY <1>1, <1>2, <2>1, <3>1, <3>2 DEF Waits, At, WorkerShape
  <2> QED
    BY <2>2, <2>3 DEF Tx
<1>3. stickLock = NULL
  <2> SUFFICES ASSUME stickLock \in Tx PROVE FALSE
    BY DEF PInv, TypeOK
  <2>1. tx[stickLock].pc \in Inside
    BY DEF LockInv, LocksOf
  <2> QED
    BY <1>2, <2>1 DEF Inside
<1>4. tx[t].pc = "sending" /\ rowLock[tx[t].row] # NULL
  BY <1>2, <1>3 DEF Waits, At
<1>5. tx[t].row \in 1..MaxRows
  <2>1. t \in Workers
    BY <1>4 DEF PInv, RequestOK, RequestShape, Inside, Tx
  <2> QED
    BY <1>4, <2>1, RowTypes DEF PInv, WorkerOK, WorkerShape
<1>6. rowLock[tx[t].row] \in Tx
  BY <1>4, <1>5 DEF PInv, TypeOK
<1>7. tx[rowLock[tx[t].row]].pc \in {"claiming", "settled", "ready"}
  BY <1>5, <1>6 DEF LockInv, LocksOf
<1> QED
  BY <1>2, <1>6, <1>7

\* Requests and workers wait for each other's rows, but never in a circle: as
\* long as a transaction is open, one is not waiting for a lock, however many
\* there are and whatever fails.
THEOREM WaitsFormNoCycle ==
    Spec => []((\E t \in Tx : tx[t].pc # "idle") => \E t \in Tx : tx[t].pc # "idle" /\ ~Waits(t))
<1>1. Init => LockInv
  BY Connections DEF Init, LockInv, LocksOf
<1>2. PInv /\ LockInv => ((\E t \in Tx : tx[t].pc # "idle") => \E t \in Tx : tx[t].pc # "idle" /\ ~Waits(t))
  BY SomebodyGoesOn
<1> QED
  BY <1>1, <1>2, InitPInv, NextKeepsPInv, NextKeepsLocks, PTL DEF Spec

-----------------------------------------------------------------------------
(* Each transaction is one step of the contract. *)

\* The notifications as the contract has them.
LEMMA QueuedRowsShape ==
    /\ DOMAIN QueuedRows = 1..Len(rows)
    /\ \A n \in 1..Len(rows) :
          /\ QueuedRows[n] = [user |-> rows[n].user, generation |-> rows[n].generation,
                              settled |-> rows[n].status = "succeeded"]
          /\ QueuedRows[n].user = rows[n].user
          /\ QueuedRows[n].generation = rows[n].generation
          /\ QueuedRows[n].settled <=> rows[n].status = "succeeded"
  BY DEF QueuedRows

\* The same after the step.
LEMMA QueuedRowsShapeNext ==
    /\ DOMAIN QueuedRows' = 1..Len(rows')
    /\ \A n \in 1..Len(rows') :
          /\ QueuedRows'[n] = [user |-> rows'[n].user, generation |-> rows'[n].generation,
                               settled |-> rows'[n].status = "succeeded"]
          /\ QueuedRows'[n].user = rows'[n].user
          /\ QueuedRows'[n].generation = rows'[n].generation
          /\ QueuedRows'[n].settled <=> rows'[n].status = "succeeded"
  BY DEF QueuedRows

\* A step that neither adds nor settles a notification, and leaves the stick,
\* its sessions and its subscriptions alone, is no step of the contract.
LEMMA ContractStutters ==
    ASSUME UNCHANGED <<stick, open, subs>>, Len(rows') = Len(rows),
           \A n \in 1..Len(rows) : /\ rows'[n].user = rows[n].user
                                   /\ rows'[n].generation = rows[n].generation
                                   /\ rows'[n].status = "succeeded" <=> rows[n].status = "succeeded"
    PROVE  UNCHANGED Contract!vars
<1>1. QueuedRows' = QueuedRows
  BY DEF QueuedRows
<1> QED
  BY <1>1 DEF Contract!vars

\* The commit of a request.
LEMMA CommitContract ==
    ASSUME PInv, NEW r \in Requests, Commit(r)
    PROVE  Contract!Next
<1> DEFINE t == tx[r]
<1>0. /\ TypeOK /\ t.user \in Users /\ t.op \in Ops /\ t.version = stick.version
      /\ t.op # "release" => UNCHANGED rows
      /\ t.op \in {"claim", "release"} =>
            stick' = [version |-> stick.version + 1, held |-> t.op = "claim"] /\ UNCHANGED subs
      /\ t.op \in {"subscribe", "unsubscribe"} =>
            UNCHANGED stick /\ subs' = [subs EXCEPT ![t.user] = t.token]
  BY CommitFacts
<1>1. /\ t.op = "claim" => ~stick.held /\ open' = open + 1
      /\ t.op = "release" => stick.held /\ open' = open - 1
      /\ t.op \in {"subscribe", "unsubscribe"} => open' = open
      /\ t.op = "unsubscribe" => t.token = NoToken
  <2>1. open \in Int /\ t.pc = "ready" /\ RequestOK(r)
    BY <1>0 DEF PInv, TypeOK, Commit
  <2> QED
    BY <1>0, <2>1 DEF RequestOK, StickKept, RequestShape, Inside, Commit
<1>2. stick.version \in Nat /\ stick.version > 0 /\ subs \in [Users -> Nat] /\ Len(rows) \in Nat
  BY <1>0, RowTypes DEF TypeOK
<1>3. CASE t.op = "claim"
  <2>1. QueuedRows' = QueuedRows
    BY <1>0, <1>3 DEF QueuedRows
  <2>2. stick' = [version |-> stick.version + 1, held |-> TRUE]
    <3>1. (t.op = "claim") = TRUE
      BY <1>3
    <3> QED
      BY <1>0, <3>1
  <2>3. stick'.held = TRUE /\ stick'.version = stick.version + 1 /\ subs' = subs
    BY <1>0, <1>3, <2>2
  <2>4. Contract!Claim
    BY <1>1, <1>2, <1>3, <2>1, <2>3 DEF Contract!Claim
  <2> QED
    BY <2>4 DEF Contract!Next
<1>4. CASE t.op = "subscribe"
  <2>1. QueuedRows' = QueuedRows
    BY <1>0, <1>4 DEF QueuedRows
  <2>2. subs'[t.user] = t.token
    BY <1>0, <1>2, <1>4
  <2>3. Contract!Fresh(t.token)
    BY <1>4, QueuedRowsShape DEF PInv, TokenUnused, Contract!Fresh
  <2>4. Contract!Subscribe(t.user)
    BY <1>0, <1>1, <1>2, <1>4, <2>1, <2>2, <2>3 DEF Contract!Subscribe
  <2> QED
    BY <1>0, <2>4 DEF Contract!Next
<1>5. CASE t.op = "unsubscribe"
  <2>1. QueuedRows' = QueuedRows
    BY <1>0, <1>5 DEF QueuedRows
  <2>2. Contract!Unsubscribe(t.user)
    BY <1>0, <1>1, <1>5, <2>1 DEF Contract!Unsubscribe
  <2> QED
    BY <1>0, <2>2 DEF Contract!Next
<1>6. CASE t.op = "release"
  <2>1. /\ Len(rows') \in Nat /\ Len(rows') >= Len(rows)
        /\ \A n \in 1..Len(rows) : n \in 1..Len(rows') /\ rows'[n] = rows[n]
        /\ \A n \in (Len(rows) + 1)..Len(rows') : \E e \in t.queued : rows'[n] = NewRow(e)
        /\ \A e \in t.queued : \E n \in (Len(rows) + 1)..Len(rows') : rows'[n] = NewRow(e)
        /\ \A m, n \in (Len(rows) + 1)..Len(rows') : rows'[m].user = rows'[n].user => m = n
    BY <1>2, CommitAppends, QueuedFits
  <2>2. Subscribed \subseteq t.queued /\ t.queued \subseteq Subscribed \cup Ended
    BY <1>6 DEF PInv, RequestOK, QueuedKept, Commit
  <2>3. \A e \in t.queued : e = <<e[1], e[2]>> /\ NewRow(e).user = e[1] /\ NewRow(e).generation = e[2]
                            /\ NewRow(e).status = "pending"
    BY <1>0, TxTypes, Connections DEF NewRow
  <2>4. Contract!Subscriptions = Subscribed
    BY DEF Contract!Subscriptions, Subscribed
  <2>5. Ended \subseteq Contract!Entries(Contract!Settled)
    <3> SUFFICES ASSUME NEW n \in 1..Len(rows), rows[n].status = "succeeded"
                 PROVE  <<rows[n].user, rows[n].generation>> \in Contract!Entries(Contract!Settled)
      BY DEF Ended
    <3>1. n \in Contract!Settled
      BY QueuedRowsShape DEF Contract!Settled
    <3> QED
      BY <3>1, QueuedRowsShape DEF Contract!Entries
  <2>6. Contract!Added = (Len(rows) + 1)..Len(rows')
    <3>1. Contract!Added = (1..Len(rows')) \ (1..Len(rows))
      BY QueuedRowsShape, QueuedRowsShapeNext DEF Contract!Added
    <3> QED
      BY <1>2, <2>1, <3>1
  <2>7. \A n \in DOMAIN QueuedRows : n \in DOMAIN QueuedRows' /\ QueuedRows'[n] = QueuedRows[n]
    BY <2>1, QueuedRowsShape, QueuedRowsShapeNext
  <2>8. \A n \in Contract!Added :
           /\ n \in 1..Len(rows')
           /\ QueuedRows'[n].user = rows'[n].user /\ QueuedRows'[n].generation = rows'[n].generation
           /\ QueuedRows'[n].settled <=> rows'[n].status = "succeeded"
    BY <1>2, <2>1, <2>6, QueuedRowsShapeNext
  <2>9. ASSUME NEW n \in Contract!Added
        PROVE  /\ ~QueuedRows'[n].settled
               /\ <<QueuedRows'[n].user, QueuedRows'[n].generation>>
                     \in Contract!Subscriptions \cup Contract!Entries(Contract!Settled)
    <3>1. PICK e \in t.queued : rows'[n] = NewRow(e)
      BY <2>1, <2>6
    <3> QED
      BY <2>2, <2>3, <2>4, <2>5, <2>8, <3>1
  <2>10. ASSUME NEW e \in Contract!Subscriptions
         PROVE  \E n \in Contract!Added : <<QueuedRows'[n].user, QueuedRows'[n].generation>> = e
    <3>1. e \in t.queued
      BY <2>2, <2>4
    <3>2. PICK n \in (Len(rows) + 1)..Len(rows') : rows'[n] = NewRow(e)
      BY <2>1, <3>1
    <3> QED
      BY <2>3, <2>6, <2>8, <3>1, <3>2
  <2>11. \A m, n \in Contract!Added :
            QueuedRows'[m].user = QueuedRows'[n].user
                /\ QueuedRows'[m].generation = QueuedRows'[n].generation => m = n
    BY <2>1, <2>6, <2>8
  <2>12. stick'.held = FALSE /\ stick'.version = stick.version + 1 /\ subs' = subs
    <3>1. (t.op = "claim") = FALSE
      BY <1>6
    <3>2. stick' = [version |-> stick.version + 1, held |-> FALSE]
      BY <1>0, <1>6, <3>1
    <3> QED
      BY <1>0, <1>6, <3>2
  <2>13. Contract!Release
    BY <1>1, <1>6, <2>7, <2>9, <2>10, <2>11, <2>12 DEF Contract!Release
  <2> QED
    BY <2>13 DEF Contract!Next
<1> QED
  BY <1>0, <1>3, <1>4, <1>5, <1>6 DEF Ops

\* The commit of a recorded delivery.
LEMMA CommitDeliveryContract ==
    ASSUME PInv, NEW w \in Workers, CommitDelivery(w)
    PROVE  Contract!Next
<1> DEFINE n == tx[w].row
           user == rows[n].user
<1>0. /\ TypeOK /\ w \in Tx /\ tx[w].pc = "ready"
      /\ subs' = IF subLock[user] = w THEN [subs EXCEPT ![user] = NoToken] ELSE subs
      /\ UNCHANGED <<stick, open, nextToken>>
  BY Connections DEF PInv, CommitDelivery
<1>1. /\ n \in 1..Len(rows) /\ rows[n].status # "succeeded"
      /\ subLock[user] = w <=> subs[user] = rows[n].generation
  BY <1>0 DEF PInv, WorkerOK, WorkerShape, RowKept, GenerationKept
<1>2. RowSet(n, "succeeded", NoToken) /\ NoToken \in Nat /\ "succeeded" \in Statuses
  BY DEF CommitDelivery, RowSet, Statuses, NoToken
<1> HIDE DEF n
<1>3. /\ Len(rows') = Len(rows) /\ rows'[n].status = "succeeded"
      /\ \A m \in 1..Len(rows) : /\ rows'[m].user = rows[m].user
                                 /\ rows'[m].generation = rows[m].generation
                                 /\ m # n => rows'[m] = rows[m]
  BY <1>0, <1>1, <1>2, RowSetEffect
<1>4. QueuedRows' = [QueuedRows EXCEPT ![n].settled = TRUE]
  <2> DEFINE new == [QueuedRows[n] EXCEPT !.settled = TRUE]
  <2>1. new = [user |-> rows[n].user, generation |-> rows[n].generation, settled |-> TRUE]
    <3>1. ASSUME NEW u, NEW g, NEW b, NEW c
          PROVE  [[user |-> u, generation |-> g, settled |-> b] EXCEPT !.settled = c]
                     = [user |-> u, generation |-> g, settled |-> c]
      OBVIOUS
    <3> DEFINE before == rows[n].status = "succeeded"
    <3>2. QueuedRows[n] = [user |-> rows[n].user, generation |-> rows[n].generation, settled |-> before]
      BY <1>1, QueuedRowsShape
    <3> HIDE DEF before
    <3>3. [[user |-> rows[n].user, generation |-> rows[n].generation, settled |-> before] EXCEPT !.settled = TRUE]
              = [user |-> rows[n].user, generation |-> rows[n].generation, settled |-> TRUE]
      BY ONLY <3>1, Zenon
    <3> QED
      BY ONLY <3>2, <3>3, Zenon DEF new
  <2>2. QueuedRows'[n] = [user |-> rows[n].user, generation |-> rows[n].generation, settled |-> TRUE]
    BY <1>1, <1>3, QueuedRowsShapeNext
  <2>3. \A m \in 1..Len(rows) : m # n => QueuedRows'[m] = QueuedRows[m]
    BY <1>3, QueuedRowsShape, QueuedRowsShapeNext
  <2>4. QueuedRows' = [m \in 1..Len(rows) |-> QueuedRows'[m]]
    BY <1>3 DEF QueuedRows
  <2>5. QueuedRows = [m \in 1..Len(rows) |-> QueuedRows[m]]
    BY DEF QueuedRows
  <2>6. QueuedRows' = [QueuedRows EXCEPT ![n] = new]
    BY <1>1, <2>1, <2>2, <2>3, <2>4, <2>5
  <2> QED
    BY <2>6
<1>5. n \in DOMAIN QueuedRows /\ ~QueuedRows[n].settled
      /\ QueuedRows[n].user = user /\ QueuedRows[n].generation = rows[n].generation
  BY <1>1, QueuedRowsShape
<1>6. Contract!Settle(n)
  BY <1>0, <1>1, <1>4, <1>5 DEF Contract!Settle
<1> QED
  BY <1>5, <1>6 DEF Contract!Next

\* The statements of every other kind change nothing the contract shows.
LEMMA StepContract == PInv /\ [Next]_vars => [Contract!Next]_(Contract!vars)
<1> SUFFICES ASSUME PInv, [Next]_vars PROVE Contract!Next \/ UNCHANGED Contract!vars
  OBVIOUS
<1>1. CASE UNCHANGED <<stick, open, subs, rows>>
  BY <1>1, ContractStutters
<1>2. ASSUME NEW r \in Requests, Commit(r) PROVE Contract!Next
  BY <1>2, CommitContract
<1>3. ASSUME NEW w \in Workers, CommitDelivery(w) PROVE Contract!Next
  BY <1>3, CommitDeliveryContract
<1>4. ASSUME NEW w \in Workers, NEW status \in {"in_progress", "failed"}, NEW token \in Nat,
             tx[w].row \in 1..Len(rows), rows[tx[w].row].status # "succeeded",
             RowSet(tx[w].row, status, token), UNCHANGED <<stick, open, subs>>
      PROVE  UNCHANGED Contract!vars
  <2> DEFINE n == tx[w].row
  <2>1. TypeOK /\ status \in Statuses
    BY DEF PInv, Statuses
  <2>2. /\ Len(rows') = Len(rows) /\ rows'[n].status = status
        /\ \A m \in 1..Len(rows) : /\ rows'[m].user = rows[m].user
                                   /\ rows'[m].generation = rows[m].generation
                                   /\ m # n => rows'[m] = rows[m]
    BY <1>4, <2>1, RowSetEffect
  <2>3. \A m \in 1..Len(rows) : rows'[m].status = "succeeded" <=> rows[m].status = "succeeded"
    BY <1>4, <2>2
  <2> QED
    BY <1>4, <2>2, <2>3, ContractStutters
<1>5. ASSUME NEW w \in Workers, CommitClaim(w) PROVE UNCHANGED Contract!vars
  <2>1. tx[w].row \in 1..Len(rows) /\ rows[tx[w].row].status # "succeeded" /\ tx[w].token \in Nat
    BY <1>5, TxTypes, Connections DEF PInv, CommitClaim, WorkerOK, WorkerShape, RowKept
  <2>2. RowSet(tx[w].row, "in_progress", tx[w].token) /\ UNCHANGED <<stick, open, subs>>
    BY <1>5 DEF CommitClaim, RowSet
  <2> QED
    BY <1>4, <2>1, <2>2
<1>6. ASSUME NEW w \in Workers, MarkNotificationFailed(w) PROVE UNCHANGED Contract!vars
  <2>1. CASE ~HoldsClaim(w)
    BY <1>6, <2>1, ContractStutters DEF MarkNotificationFailed
  <2>2. CASE HoldsClaim(w)
    <3>1. tx[w].row \in 1..Len(rows) /\ rows[tx[w].row].status # "succeeded"
      BY <1>6, <2>2 DEF PInv, MarkNotificationFailed, WorkerOK, WorkerShape, HoldsClaim
    <3>2. /\ RowSet(tx[w].row, "failed", NoToken) /\ NoToken \in Nat
          /\ UNCHANGED <<stick, open, subs>>
      BY <1>6, <2>2 DEF MarkNotificationFailed, RowSet, NoToken
    <3> QED
      BY <1>4, <3>1, <3>2
  <2> QED
    BY <2>1, <2>2
<1>7. ASSUME NEW r \in Requests, RequestStep(r)
      PROVE  Commit(r) \/ UNCHANGED <<stick, open, subs, rows>>
  BY <1>7 DEF RequestStep, GetStick, SaveStick, CreateSession, CloseSession,
     EnqueueReleaseNotifications, Subscribe, Unsubscribe, Rollback, tables
<1>8. ASSUME NEW w \in Workers, ClaimNotification(w) \/ WorkerStep(w)
      PROVE  \/ CommitClaim(w) \/ MarkNotificationFailed(w) \/ CommitDelivery(w)
             \/ UNCHANGED <<stick, open, subs, rows>>
  BY <1>8 DEF ClaimNotification, WorkerStep, MarkNotificationSucceeded, DeleteSubscription,
     Rollback, tables
<1>9. ASSUME NEW t \in Tx, Fail(t) PROVE UNCHANGED <<stick, open, subs, rows>>
  BY <1>9 DEF Fail, Rollback, tables
<1>10. ASSUME NEW r \in Requests, NEW u \in Users, NEW op, Begin(r, op, u)
       PROVE  UNCHANGED <<stick, open, subs, rows>>
  BY <1>10 DEF Begin
<1>11. UNCHANGED vars => UNCHANGED <<stick, open, subs, rows>>
  BY DEF vars, tables
<1> QED
  BY <1>1, <1>2, <1>3, <1>5, <1>6, <1>7, <1>8, <1>9, <1>10, <1>11 DEF Next

\* However the statements of any number of requests and workers interleave,
\* and wherever transactions fail, PostgreSQL's tables change as if each
\* transaction (postgres.Store's WithTx and MarkNotificationSucceeded) were
\* one step of the contract.
THEOREM PostgresImplementsContract == Spec => ImplementsContract
<1>1. Init => Contract!Init
  <2> SUFFICES ASSUME Init PROVE Contract!Init
    OBVIOUS
  <2>1. DOMAIN QueuedRows = {}
    BY QueuedRowsShape DEF Init
  <2> QED
    BY <2>1 DEF Init, Contract!Init
<1> QED
  BY <1>1, StepContract, PostgresInvariant, PTL DEF Spec, ImplementsContract, Contract!Spec

=============================================================================
