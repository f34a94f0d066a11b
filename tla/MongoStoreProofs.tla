-------------------------- MODULE MongoStoreProofs ---------------------------
(***************************************************************************)
(* The MongoDB backend implements StoreContract and answers its requests    *)
(* truthfully, for any number of users, requests and workers.               *)
(*                                                                          *)
(* Nothing is locked: the invariant says of every open transaction what the *)
(* write conflicts keep true of its snapshot.  What it has written nobody   *)
(* else has changed or is writing; a subscription it sees is still there,   *)
(* or marked stale for it, or, as nobody but a delivery can pass a request  *)
(* that has reserved the stick, ended by a delivery.  A commit changes no   *)
(* document but those it has written (Covers), which is why the other       *)
(* transactions stay right about theirs.                                    *)
(***************************************************************************)
EXTENDS MongoStore, FiniteSetTheorems, SequenceTheorems, TLAPS

Statuses == {"pending", "in_progress", "failed", "succeeded"}

Row == [user : Users, generation : Nat, status : Statuses, token : Nat]

Ops == {"claim", "release", "subscribe", "unsubscribe"}

Docs == {StickDoc} \cup {SubDoc(u) : u \in Users} \cup {RowDoc(n) : n \in Nat}

\* A request past GetStick, and a transaction that has written all it writes.
Inside == {"read", "saved", "closed", "ready", "unsure"}
Ending == {"ready", "unsure"}

Rest == {"idle", "ok", "refused", "error", "begun", "sending", "mark", "applied"}

TxState == [pc : Rest \cup Inside \cup {"settled"}, op : Ops \cup {"none", "deliver"},
            user : Users \cup {NULL}, version : Nat, token : Nat, row : Nat,
            seen : [Users -> Nat], written : SUBSET Docs, stale : SUBSET Docs,
            queued : SUBSET (Users \X Nat), applied : Nat]

TypeOK ==
    /\ stick \in [version : Nat, held : BOOLEAN] /\ stick.version > 0
    /\ open \in Int
    /\ subs \in [Users -> Nat]
    /\ rows \in Seq(Row)
    /\ nextToken \in Nat /\ nextToken > 0
    /\ tx \in [Tx -> TxState]

\* The subscriptions, those a transaction sees, and the generations that
\* deliveries have ended.
Subscribed == {<<u, subs[u]>> : u \in {v \in Users : subs[v] # NoToken}}
Seen(t) == {<<u, tx[t].seen[u]>> : u \in {v \in Users : tx[t].seen[v] # NoToken}}
Ended == {<<rows[n].user, rows[n].generation>> :
             n \in {m \in 1..Len(rows) : rows[m].status = "succeeded"}}

\* Nobody else has changed what an open transaction has written, and of the
\* subscriptions it sees it has lost only those marked stale.
SnapshotKept(t) ==
    Active(t) =>
        /\ tx[t].written \cap tx[t].stale = {}
        /\ \A u \in Users : SubDoc(u) \in tx[t].stale \/ tx[t].seen[u] = subs[u]

\* First writer wins: no document has two writers.
Isolated ==
    \A s, t \in Tx : s # t /\ Active(s) /\ Active(t) => tx[s].written \cap tx[t].written = {}

\* A request past GetStick has reserved the stick and finds it as it was.
StickKept(r) ==
    tx[r].pc \in Inside =>
        /\ StickDoc \in tx[r].written
        /\ tx[r].version = stick.version
        /\ tx[r].op = "claim" => ~stick.held
        /\ tx[r].op = "release" => stick.held

\* What a request carries from operation to operation.
RequestShape(r) ==
    /\ tx[r].pc \in (Rest \ {"sending", "mark"}) \cup Inside
    /\ tx[r].pc \in Inside \cup {"begun"} => tx[r].user \in Users /\ tx[r].op \in Ops
    /\ tx[r].pc \in Inside => \A u \in Users : SubDoc(u) \in tx[r].written =>
          u = tx[r].user /\ tx[r].op \in {"subscribe", "unsubscribe"}
    /\ tx[r].pc \in Inside \cup {"begun"} => tx[r].queued =
          IF tx[r].pc \in Ending /\ tx[r].op = "release" THEN Seen(r) ELSE {}

\* Since its snapshot only deliveries have touched the subscriptions.
SeenKept(r) ==
    tx[r].pc \in Inside =>
        \A u \in Users : \/ tx[r].seen[u] = subs[u]
                         \/ subs[u] = NoToken /\ <<u, tx[r].seen[u]>> \in Ended

\* It has written the user's subscription, or sees none to delete.
UserDocKept(r) ==
    tx[r].pc \in Ending /\ tx[r].op \in {"subscribe", "unsubscribe"} =>
        \/ SubDoc(tx[r].user) \in tx[r].written
        \/ tx[r].op = "unsubscribe" /\ tx[r].seen[tx[r].user] = NoToken

\* The token of a subscription that is not committed is nowhere else.
TokenUnused(r) ==
    tx[r].pc \in Ending /\ tx[r].op = "subscribe" =>
        /\ tx[r].token # NoToken /\ tx[r].token < nextToken
        /\ \A u \in Users : subs[u] # tx[r].token
        /\ \A n \in 1..Len(rows) : rows[n].generation # tx[r].token

\* The effects of a request are visible once, and then it has been told so or
\* still may be.
AppliedOnce(r) ==
    /\ tx[r].applied \in {0, 1}
    /\ tx[r].applied = 1 => tx[r].pc \in {"ok", "applied", "error"}
    /\ tx[r].pc \in {"ok", "applied"} => tx[r].applied = 1

RequestOK(r) ==
    /\ StickKept(r) /\ RequestShape(r) /\ SeenKept(r) /\ UserDocKept(r)
    /\ TokenUnused(r) /\ AppliedOnce(r)

\* A worker's transaction writes its notification, which it finds unsettled.
WorkerShape(w) ==
    /\ tx[w].pc \in {"idle", "sending", "mark", "settled", "applied"} \cup Ending
    /\ tx[w].pc \in {"sending", "mark", "settled"} \cup Ending =>
          tx[w].op = "deliver" /\ tx[w].row \in 1..Len(rows)
    /\ tx[w].pc \in {"settled"} \cup Ending =>
          RowDoc(tx[w].row) \in tx[w].written /\ rows[tx[w].row].status # "succeeded"

\* It deletes the user's subscription exactly if that has the generation the
\* notification is about; a generation it does not see cannot come back.
GenerationKept(w) ==
    LET user == rows[tx[w].row].user
        generation == rows[tx[w].row].generation IN
    /\ tx[w].pc \in {"settled"} \cup Ending =>
          /\ tx[w].seen[user] # generation => subs[user] # generation
          /\ \A u \in Users : SubDoc(u) \in tx[w].written =>
                u = user /\ tx[w].seen[user] = generation
    /\ tx[w].pc \in Ending /\ tx[w].seen[user] = generation => SubDoc(user) \in tx[w].written

WorkerOK(w) == WorkerShape(w) /\ GenerationKept(w)

TokensKnown ==
    /\ \A u \in Users : subs[u] < nextToken
    /\ \A n \in 1..Len(rows) : rows[n].generation # NoToken /\ rows[n].generation < nextToken

\* What is known of a session.
TxOK(t) ==
    /\ SnapshotKept(t)
    /\ t \in Requests => RequestOK(t)
    /\ t \in Workers => WorkerOK(t)

MInv == TypeOK /\ Isolated /\ TokensKnown /\ \A t \in Tx : TxOK(t)

-----------------------------------------------------------------------------
(* Types. *)

\* Requests and workers are different sessions.
LEMMA Sessions ==
    /\ \A r \in Requests : r \in Tx /\ r \notin Workers
    /\ \A w \in Workers : w \in Tx /\ w \notin Requests
  BY MongoAssumption DEF Tx

\* Documents are told apart by their collection and their key.
LEMMA DocsDiffer ==
    /\ StickDoc \in Docs /\ \A u \in Users : SubDoc(u) \in Docs
    /\ \A n \in Nat : RowDoc(n) \in Docs
    /\ \A u : StickDoc # SubDoc(u) /\ StickDoc # RowDoc(u)
    /\ \A u, n : SubDoc(u) # RowDoc(n)
    /\ \A u, v : SubDoc(u) = SubDoc(v) => u = v
    /\ \A m, n : RowDoc(m) = RowDoc(n) => m = n
  BY DEF Docs, StickDoc, SubDoc, RowDoc

\* The notifications that exist.
LEMMA RowTypes ==
    ASSUME TypeOK
    PROVE  /\ Len(rows) \in Nat /\ rows \in Seq(Row)
           /\ \A n \in 1..Len(rows) :
                 rows[n] \in Row /\ rows[n].user \in Users /\ rows[n].generation \in Nat
<1>1. Len(rows) \in Nat /\ rows \in Seq(Row)
  BY LenProperties DEF TypeOK
<1>2. \A n \in 1..Len(rows) : rows[n] \in Row
  BY <1>1, ElementOfSeq
<1> QED
  BY <1>1, <1>2 DEF Row

\* The fields of a transaction's state.
LEMMA TxTypes ==
    ASSUME TypeOK, NEW t \in Tx
    PROVE  /\ tx[t] \in TxState
           /\ tx[t].pc \in Rest \cup Inside \cup {"settled"}
           /\ tx[t].op \in Ops \cup {"none", "deliver"} /\ tx[t].user \in Users \cup {NULL}
           /\ tx[t].version \in Nat /\ tx[t].token \in Nat /\ tx[t].row \in Nat
           /\ tx[t].seen \in [Users -> Nat]
           /\ tx[t].written \subseteq Docs /\ tx[t].stale \subseteq Docs
           /\ tx[t].queued \subseteq Users \X Nat /\ tx[t].applied \in Nat
<1>1. tx[t] \in TxState
  BY DEF TypeOK
<1> QED
  BY <1>1 DEF TxState

\* A session without an open transaction.
LEMMA RestingState ==
    ASSUME NEW pc \in Rest
    PROVE  /\ Resting(pc) \in TxState
           /\ Resting(pc).pc = pc /\ Resting(pc).op = "none" /\ Resting(pc).applied = 0
           /\ Resting(pc).queued = {}
  BY DEF Resting, TxState, NoToken, Rest

\* A transaction is open from its first operation to its end.
LEMMA ActiveStates ==
    ASSUME TypeOK, NEW t \in Tx
    PROVE  Active(t) <=> tx[t].pc \in Inside \cup {"settled"}
  BY TxTypes DEF Active, Inside, Rest

-----------------------------------------------------------------------------
(* What a step does to the transactions that do not take it. *)

\* A step of t leaves the state of another session as it is, but for what t
\* makes stale for it.
OnlyOf(t, docs) ==
    \A s \in Tx \ {t} :
        /\ tx'[s].pc = tx[s].pc /\ tx'[s].op = tx[s].op /\ tx'[s].user = tx[s].user
        /\ tx'[s].version = tx[s].version /\ tx'[s].token = tx[s].token /\ tx'[s].row = tx[s].row
        /\ tx'[s].seen = tx[s].seen /\ tx'[s].written = tx[s].written
        /\ tx'[s].queued = tx[s].queued /\ tx'[s].applied = tx[s].applied
        /\ Active(s) => tx'[s].stale = tx[s].stale \cup docs

\* Only these documents change: the stick, and with it the insertion of
\* notifications and the subscriptions that requests write; the subscriptions
\* that deliveries end; the notifications that are settled.
Covers(docs) ==
    /\ UNCHANGED stick \/ StickDoc \in docs
    /\ \A u \in Users : subs'[u] # subs[u] =>
          /\ SubDoc(u) \in docs
          /\ StickDoc \in docs \/ (subs'[u] = NoToken /\ <<u, subs[u]>> \in Ended')
          /\ \A n \in 1..Len(rows) : subs'[u] # rows[n].generation
    /\ Len(rows') = Len(rows) \/ (StickDoc \in docs /\ Len(rows') >= Len(rows))
    /\ \A n \in 1..Len(rows) :
          /\ rows'[n].user = rows[n].user /\ rows'[n].generation = rows[n].generation
          /\ rows[n].status = "succeeded" => rows'[n].status = "succeeded"
          /\ RowDoc(n) \in docs \/ (rows'[n].status = "succeeded" => rows[n].status = "succeeded")

\* Nobody else is writing these documents.
Free(t, docs) == \A s \in Tx \ {t} : Active(s) => tx[s].written \cap docs = {}

\* The snapshot of another transaction.
LEMMA OtherSnapshot ==
    ASSUME MInv, NEW t \in Tx, NEW docs, OnlyOf(t, docs), Covers(docs), Free(t, docs),
           NEW s \in Tx \ {t}
    PROVE  SnapshotKept(s)'
<1>1. SnapshotKept(s)
  BY DEF MInv, TxOK
<1>2. Active(s)' <=> Active(s)
  BY DEF OnlyOf, Active
<1> SUFFICES ASSUME Active(s)
             PROVE  /\ tx'[s].written \cap tx'[s].stale = {}
                    /\ \A u \in Users : SubDoc(u) \in tx'[s].stale \/ tx'[s].seen[u] = subs'[u]
  BY <1>2 DEF SnapshotKept
<1>3. /\ tx'[s].written = tx[s].written /\ tx'[s].seen = tx[s].seen
      /\ tx'[s].stale = tx[s].stale \cup docs
  BY DEF OnlyOf
<1>4. tx'[s].written \cap tx'[s].stale = {}
  BY <1>1, <1>3 DEF SnapshotKept, Free
<1>5. \A u \in Users : subs'[u] = subs[u] \/ SubDoc(u) \in docs
  BY DEF Covers
<1> QED
  BY <1>1, <1>3, <1>4, <1>5 DEF SnapshotKept

\* Another request.
LEMMA OtherRequest ==
    ASSUME MInv, NEW t \in Tx, NEW docs, OnlyOf(t, docs), Covers(docs), Free(t, docs),
           nextToken' \in Nat, nextToken' >= nextToken, NEW r \in Requests \ {t}
    PROVE  RequestOK(r)'
<1>1. TypeOK /\ r \in Tx \ {t} /\ RequestOK(r)
  BY Sessions DEF MInv, TxOK
<1>2. /\ tx'[r].pc = tx[r].pc /\ tx'[r].op = tx[r].op /\ tx'[r].user = tx[r].user
      /\ tx'[r].version = tx[r].version /\ tx'[r].token = tx[r].token
      /\ tx'[r].seen = tx[r].seen /\ tx'[r].written = tx[r].written
      /\ tx'[r].queued = tx[r].queued /\ tx'[r].applied = tx[r].applied
  BY <1>1 DEF OnlyOf
<1>3. RequestShape(r)' /\ AppliedOnce(r)' /\ UserDocKept(r)'
  <2>1. Seen(r)' = Seen(r)
    BY <1>2 DEF Seen
  <2> QED
    BY <1>1, <1>2, <2>1 DEF RequestOK, RequestShape, AppliedOnce, UserDocKept
<1>4. tx[r].pc \in Inside => StickDoc \notin docs
  BY <1>1, ActiveStates DEF RequestOK, StickKept, Free
<1>5. StickKept(r)'
  BY <1>1, <1>2, <1>4 DEF RequestOK, StickKept, Covers
<1>6. Len(rows) \in Nat /\ (tx[r].pc \in Inside => Len(rows') = Len(rows))
  BY <1>1, <1>4, RowTypes DEF Covers
<1>7. tx[r].pc \in Inside => Ended \subseteq Ended'
  BY <1>6 DEF Covers, Ended
<1>8. ASSUME NEW u \in Users, tx[r].pc \in Inside
      PROVE  subs'[u] = subs[u] \/ (subs'[u] = NoToken /\ <<u, subs[u]>> \in Ended')
  BY <1>4, <1>8 DEF Covers
<1>9. SeenKept(r)'
  <2> SUFFICES ASSUME tx[r].pc \in Inside, NEW u \in Users
               PROVE  \/ tx[r].seen[u] = subs'[u]
                      \/ subs'[u] = NoToken /\ <<u, tx[r].seen[u]>> \in Ended'
    BY <1>2 DEF SeenKept
  <2>1. \/ tx[r].seen[u] = subs[u]
        \/ subs[u] = NoToken /\ <<u, tx[r].seen[u]>> \in Ended
    BY <1>1 DEF RequestOK, SeenKept
  <2> QED
    BY <1>7, <1>8, <2>1
<1>10. TokenUnused(r)'
  <2> SUFFICES ASSUME tx[r].pc \in Ending, tx[r].op = "subscribe"
               PROVE  /\ tx[r].token # NoToken /\ tx[r].token < nextToken'
                      /\ \A u \in Users : subs'[u] # tx[r].token
                      /\ \A n \in 1..Len(rows') : rows'[n].generation # tx[r].token
    BY <1>2 DEF TokenUnused
  <2>1. tx[r].pc \in Inside /\ tx[r].token \in Nat /\ nextToken \in Nat
    BY <1>1, TxTypes DEF Ending, Inside, TypeOK
  <2>2. /\ tx[r].token # NoToken /\ tx[r].token < nextToken
        /\ \A u \in Users : subs[u] # tx[r].token
        /\ \A n \in 1..Len(rows) : rows[n].generation # tx[r].token
    BY <1>1 DEF RequestOK, TokenUnused
  <2>3. \A n \in 1..Len(rows') : rows'[n].generation # tx[r].token
    BY <1>6, <2>1, <2>2 DEF Covers
  <2>4. \A u \in Users : subs'[u] # tx[r].token
    BY <1>8, <2>1, <2>2
  <2>5. tx[r].token < nextToken'
    BY <2>1, <2>2
  <2> QED
    BY <2>2, <2>3, <2>4, <2>5
<1> QED
  BY <1>3, <1>5, <1>9, <1>10 DEF RequestOK

\* Another worker.
LEMMA OtherWorker ==
    ASSUME MInv, NEW t \in Tx, NEW docs, OnlyOf(t, docs), Covers(docs), Free(t, docs),
           NEW w \in Workers \ {t}
    PROVE  WorkerOK(w)'
<1>1. TypeOK /\ w \in Tx \ {t} /\ WorkerOK(w)
  BY Sessions DEF MInv, TxOK
<1>2. /\ tx'[w].pc = tx[w].pc /\ tx'[w].op = tx[w].op /\ tx'[w].row = tx[w].row
      /\ tx'[w].seen = tx[w].seen /\ tx'[w].written = tx[w].written
  BY <1>1 DEF OnlyOf
<1>3. Len(rows) \in Nat /\ Len(rows') >= Len(rows) /\ \A n \in 1..Len(rows) : n \in 1..Len(rows')
  <2>1. Len(rows) \in Nat
    BY <1>1, RowTypes
  <2>2. Len(rows') = Len(rows) \/ Len(rows') >= Len(rows)
    BY DEF Covers
  <2> QED
    BY <2>1, <2>2
<1> DEFINE Open == tx[w].pc \in {"settled"} \cup Ending
<1>4. Open => RowDoc(tx[w].row) \notin docs
  BY <1>1, ActiveStates DEF WorkerOK, WorkerShape, Free, Ending, Inside
<1>5. WorkerShape(w)'
  BY <1>1, <1>2, <1>3, <1>4 DEF WorkerOK, WorkerShape, Covers
<1>6. ASSUME Open
      PROVE  /\ rows'[tx[w].row].user = rows[tx[w].row].user
             /\ rows'[tx[w].row].generation = rows[tx[w].row].generation
             /\ \A u \in Users : subs'[u] = subs[u] \/ subs'[u] # rows[tx[w].row].generation
             /\ rows[tx[w].row].user \in Users
  BY <1>1, <1>6, RowTypes DEF WorkerOK, WorkerShape, Covers
<1>7. GenerationKept(w)'
  BY <1>1, <1>2, <1>6 DEF WorkerOK, GenerationKept
<1> QED
  BY <1>5, <1>7 DEF WorkerOK

\* A step that changes only what it covers keeps what is known of the others.
LEMMA StepKeeps ==
    ASSUME MInv, NEW t \in Tx, NEW docs, OnlyOf(t, docs), Covers(docs), Free(t, docs),
           TypeOK', TokensKnown', nextToken' >= nextToken,
           TxOK(t)', Active(t)' => Free(t, tx'[t].written)
    PROVE  MInv'
<1>0. nextToken' \in Nat
  BY DEF TypeOK
<1>1. ASSUME NEW s \in Tx \ {t} PROVE TxOK(s)'
  BY <1>0, OtherSnapshot, OtherRequest, OtherWorker DEF TxOK
<1>2. Isolated'
  <2> SUFFICES ASSUME NEW s \in Tx, NEW q \in Tx, s # q, Active(s)', Active(q)'
               PROVE  tx'[s].written \cap tx'[q].written = {}
    BY DEF Isolated
  <2>1. \A p \in Tx \ {t} : tx'[p].written = tx[p].written /\ (Active(p)' <=> Active(p))
    BY DEF OnlyOf, Active
  <2>2. CASE s # t /\ q # t
    BY <2>1, <2>2 DEF MInv, Isolated
  <2>3. CASE s = t
    BY <2>1, <2>3 DEF Free
  <2>4. CASE q = t
    BY <2>1, <2>4 DEF Free
  <2> QED
    BY <2>2, <2>3, <2>4
<1> QED
  BY <1>1, <1>2 DEF MInv

-----------------------------------------------------------------------------
(* Operations, refusals and new runs: the data stays as it is. *)

\* A request without an open transaction.
LEMMA RestingRequest ==
    ASSUME NEW r \in Requests, tx'[r].pc \in Rest \ {"sending", "mark"},
           tx'[r].pc = "begun" => tx'[r].user \in Users /\ tx'[r].op \in Ops /\ tx'[r].queued = {},
           AppliedOnce(r)'
    PROVE  RequestOK(r)'
<1>1. tx'[r].pc \notin Inside /\ tx'[r].pc \notin Ending
  BY DEF Rest, Inside, Ending
<1> QED
  BY <1>1
  DEF RequestOK, StickKept, RequestShape, SeenKept, UserDocKept, TokenUnused

\* A worker without an open transaction.
LEMMA RestingWorker ==
    ASSUME NEW w \in Workers, tx'[w].pc \in {"idle", "sending", "mark", "applied"},
           tx'[w].pc \in {"sending", "mark"} => tx'[w].op = "deliver" /\ tx'[w].row \in 1..Len(rows')
    PROVE  WorkerOK(w)'
  BY DEF WorkerOK, WorkerShape, GenerationKept, Ending

\* A step that changes no data keeps the invariant if it keeps what is known
\* of its own transaction: that rests, goes on with documents nobody else is
\* writing, or opens on the data of this moment.
LEMMA StatementKeeps ==
    ASSUME MInv, NEW t \in Tx, NEW new \in TxState, tx' = [tx EXCEPT ![t] = new],
           UNCHANGED <<stick, open, subs, rows>>, nextToken' \in Nat, nextToken' >= nextToken,
           \/ new.pc \in Rest
           \/ /\ Active(t) /\ new.seen = tx[t].seen /\ new.stale = tx[t].stale
              /\ \A d \in new.written \ tx[t].written : ~Conflicts(t, d)
           \/ /\ new.seen = subs /\ new.stale = {}
              /\ \A d \in new.written : ~Conflicts(t, d),
           t \in Requests => RequestOK(t)', t \in Workers => WorkerOK(t)'
    PROVE  MInv'
<1>0. TypeOK /\ TxOK(t)
  BY DEF MInv
<1>1. tx' \in [Tx -> TxState] /\ tx'[t] = new /\ \A s \in Tx \ {t} : tx'[s] = tx[s]
  BY <1>0 DEF TypeOK
<1>2. TypeOK' /\ TokensKnown'
  <2>1. nextToken \in Nat /\ nextToken > 0 /\ subs \in [Users -> Nat]
        /\ \A n \in 1..Len(rows) : rows[n].generation \in Nat
    BY <1>0, RowTypes DEF TypeOK
  <2>2. TypeOK'
    BY <1>0, <1>1, <2>1 DEF TypeOK
  <2>3. TokensKnown'
    BY <2>1 DEF MInv, TokensKnown
  <2> QED
    BY <2>2, <2>3
<1>3. OnlyOf(t, {})
  BY <1>1, TxTypes, <1>0 DEF OnlyOf
<1>4. Covers({}) /\ Free(t, {})
  BY DEF Covers, Free
<1>5. Active(t)' => new.pc \notin Rest
  BY <1>1 DEF Active, Rest
<1>6. SnapshotKept(t)'
  BY <1>0, <1>1, <1>5 DEF TxOK, SnapshotKept, Conflicts
<1>7. Active(t)' => Free(t, tx'[t].written)
  BY <1>0, <1>1, <1>5 DEF MInv, Isolated, Free, Conflicts
<1> QED
  BY <1>2, <1>3, <1>4, <1>6, <1>7, StepKeeps DEF TxOK

\* The answer of a transaction that is over without a commit, or that had been
\* committed before.
LEMMA AbortKeeps ==
    ASSUME MInv, NEW t \in Tx, NEW answer, Abort(t, answer),
           t \in Requests => /\ answer \in {"ok", "refused", "error"}
                             /\ answer = "ok" => tx[t].pc = "applied"
                             /\ answer = "refused" => tx[t].pc = "begun"
    PROVE  MInv'
<1>0. TypeOK /\ TxOK(t) /\ UNCHANGED <<stick, open, subs, rows, nextToken>>
      /\ nextToken \in Nat
  BY DEF MInv, Abort, data, TypeOK
<1>1. nextToken' \in Nat /\ nextToken' >= nextToken
  BY <1>0
<1>2. CASE t \in Workers
  <2>1. tx' = [tx EXCEPT ![t] = Resting("idle")]
    BY <1>2 DEF Abort, Answer
  <2>2. Resting("idle") \in TxState /\ Resting("idle").pc = "idle" /\ "idle" \in Rest
    BY RestingState DEF Rest
  <2>3. tx'[t] = Resting("idle")
    BY <1>0, <2>1 DEF TypeOK
  <2>4. WorkerOK(t)'
    BY <1>2, <2>2, <2>3, RestingWorker
  <2> QED
    BY <1>0, <1>1, <1>2, <2>1, <2>2, <2>4, Sessions, StatementKeeps
<1>3. CASE t \in Requests
  <2> DEFINE new == [Resting(answer) EXCEPT !.op = tx[t].op, !.applied = tx[t].applied]
  <2>1. t \notin Workers /\ tx' = [tx EXCEPT ![t] = new]
    BY <1>3, Sessions DEF Abort, Answer
  <2>2. answer \in Rest
    BY <1>3 DEF Rest
  <2>3. Resting(answer) \in TxState /\ Resting(answer).pc = answer
        /\ tx[t].op \in Ops \cup {"none", "deliver"} /\ tx[t].applied \in Nat
    BY <1>0, <2>2, RestingState, TxTypes
  <2>4. new \in TxState /\ new.pc = answer /\ new.applied = tx[t].applied
    BY <2>3 DEF TxState
  <2> HIDE DEF new
  <2>5. tx'[t] = new
    BY <1>0, <2>1 DEF TypeOK
  <2>6. AppliedOnce(t)'
    BY <1>0, <1>3, <2>4, <2>5 DEF TxOK, RequestOK, AppliedOnce
  <2>7. RequestOK(t)'
    BY <1>3, <2>2, <2>4, <2>5, <2>6, RestingRequest
  <2> QED
    BY <1>0, <1>1, <2>1, <2>2, <2>4, <2>7, StatementKeeps
<1> QED
  BY <1>2, <1>3 DEF Tx

\* The callback starts over.
LEMMA RunAgainKeeps ==
    ASSUME MInv, NEW t \in Tx, RunAgain(t), UNCHANGED <<data, nextToken>>,
           tx[t].pc \in {"begun", "mark"} \/ Active(t)
    PROVE  MInv'
<1>0. TypeOK /\ TxOK(t) /\ UNCHANGED <<stick, open, subs, rows, nextToken>>
      /\ nextToken \in Nat /\ nextToken' \in Nat /\ nextToken' >= nextToken
  BY DEF MInv, data, TypeOK
<1> DEFINE pc == IF t \in Workers THEN "mark" ELSE "begun"
           token == IF t \in Workers THEN tx[t].token ELSE NoToken
           new == [Resting(pc) EXCEPT !.op = tx[t].op, !.user = tx[t].user,
                                      !.version = tx[t].version, !.token = token,
                                      !.row = tx[t].row, !.applied = tx[t].applied]
<1>1. pc \in Rest /\ token \in Nat
  BY <1>0, TxTypes DEF Rest, NoToken
<1>2. tx' = [tx EXCEPT ![t] = new]
  BY DEF RunAgain
<1>3. new \in TxState /\ new.pc = pc /\ new.op = tx[t].op /\ new.user = tx[t].user
      /\ new.row = tx[t].row /\ new.applied = tx[t].applied /\ new.queued = {}
  <2>1. Resting(pc) \in TxState /\ Resting(pc).pc = pc /\ Resting(pc).queued = {}
    BY <1>1, RestingState
  <2> HIDE DEF pc, token
  <2> QED
    BY <1>0, <1>1, <2>1, TxTypes DEF TxState
<1> HIDE DEF new
<1>4. tx'[t] = new
  BY <1>0, <1>2 DEF TypeOK
<1>5. CASE t \in Workers
  <2>1. pc = "mark" /\ tx[t].pc # "begun"
    BY <1>0, <1>5 DEF TxOK, WorkerOK, WorkerShape, Ending
  <2>2. tx[t].op = "deliver" /\ tx[t].row \in 1..Len(rows)
    BY <1>0, <1>5, <2>1, ActiveStates DEF TxOK, WorkerOK, WorkerShape, Ending, Inside
  <2>3. WorkerOK(t)'
    BY <1>0, <1>3, <1>4, <1>5, <2>1, <2>2, RestingWorker
  <2> QED
    BY <1>0, <1>1, <1>2, <1>3, <1>5, <2>3, Sessions, StatementKeeps
<1>6. CASE t \in Requests
  <2>1. pc = "begun" /\ tx[t].pc \notin {"mark", "settled"}
    BY <1>0, <1>6, Sessions DEF TxOK, RequestOK, RequestShape, Inside, Rest
  <2>2. tx[t].pc \in Inside \cup {"begun"}
    BY <1>0, <2>1, ActiveStates
  <2>3. tx[t].user \in Users /\ tx[t].op \in Ops /\ tx[t].applied = 0
    BY <1>0, <1>6, <2>2 DEF TxOK, RequestOK, RequestShape, AppliedOnce, Inside
  <2>4. RequestOK(t)'
    <3>1. AppliedOnce(t)'
      BY <1>3, <1>4, <2>1, <2>3 DEF AppliedOnce
    <3> QED
      BY <1>1, <1>3, <1>4, <1>6, <2>1, <2>3, <3>1, RestingRequest
  <2> QED
    BY <1>0, <1>1, <1>2, <1>3, <1>6, <2>4, Sessions, StatementKeeps
<1> QED
  BY <1>5, <1>6 DEF Tx

\* A conflict, or any other failure of an operation.
LEMMA ConflictKeeps == \A t \in Tx : MInv /\ Conflict(t) => MInv'
<1> SUFFICES ASSUME NEW t \in Tx, MInv, Conflict(t) PROVE MInv'
  OBVIOUS
<1>1. CASE RunAgain(t)
  BY <1>1, RunAgainKeeps DEF Conflict
<1>2. CASE Answer(t, "error")
  <2>1. Abort(t, "error")
    BY <1>2 DEF Conflict, Abort
  <2> QED
    BY <2>1, AbortKeeps
<1> QED
  BY <1>1, <1>2 DEF Conflict

\* The form's transaction begins.
LEMMA BeginKeeps ==
    \A r \in Requests, op \in Ops, user \in Users : MInv /\ Begin(r, op, user) => MInv'
<1> SUFFICES ASSUME NEW r \in Requests, NEW op \in Ops, NEW user \in Users, MInv,
                    Begin(r, op, user)
             PROVE  MInv'
  OBVIOUS
<1>0. TypeOK /\ r \in Tx /\ stick.version \in Nat /\ UNCHANGED <<stick, open, subs, rows, nextToken>>
      /\ nextToken \in Nat /\ nextToken' \in Nat /\ nextToken' >= nextToken
  BY Sessions DEF MInv, TypeOK, Begin, data
<1> DEFINE new == [Resting("begun") EXCEPT !.op = op, !.user = user, !.version = stick.version]
<1>1. "begun" \in Rest /\ tx' = [tx EXCEPT ![r] = new]
  BY DEF Begin, Rest
<1>2. /\ new \in TxState /\ new.pc = "begun" /\ new.op = op /\ new.user = user
      /\ new.applied = 0 /\ new.queued = {}
  <2>1. /\ Resting("begun") \in TxState /\ Resting("begun").pc = "begun"
        /\ Resting("begun").applied = 0 /\ Resting("begun").queued = {}
    BY <1>1, RestingState
  <2> QED
    BY <1>0, <2>1 DEF TxState
<1> HIDE DEF new
<1>3. tx'[r] = new
  BY <1>0, <1>1 DEF TypeOK
<1>4. RequestOK(r)'
  <2>1. AppliedOnce(r)'
    BY <1>2, <1>3 DEF AppliedOnce
  <2> QED
    BY <1>1, <1>2, <1>3, <2>1, RestingRequest
<1> QED
  BY <1>0, <1>1, <1>2, <1>4, Sessions, StatementKeeps

-----------------------------------------------------------------------------
(* Operations of an open transaction. *)

\* FindOneAndUpdate: from here on the stick stays as it was checked.
LEMMA GetStickKeeps == \A r \in Requests : MInv /\ GetStick(r) => MInv'
<1> SUFFICES ASSUME NEW r \in Requests, MInv, GetStick(r) PROVE MInv'
  OBVIOUS
<1>0. TypeOK /\ r \in Tx /\ tx[r].pc = "begun" /\ RequestOK(r)
  BY Sessions DEF MInv, TxOK, GetStick
<1>1. CASE Abort(r, "refused")
  BY <1>0, <1>1, AbortKeeps
<1>2. CASE ~Refused(r) /\ tx' = [tx EXCEPT ![r] = Opened(r, "read", {StickDoc})]
           /\ UNCHANGED <<data, nextToken>>
  <2> DEFINE new == Opened(r, "read", {StickDoc})
  <2>1. /\ UNCHANGED <<stick, open, subs, rows, nextToken>>
        /\ nextToken' \in Nat /\ nextToken' >= nextToken
        /\ subs \in [Users -> Nat]
    BY <1>0, <1>2 DEF data, TypeOK
  <2>2. /\ new \in TxState /\ new.pc = "read" /\ new.seen = subs /\ new.stale = {}
        /\ new.written = {StickDoc} /\ new.op = tx[r].op /\ new.user = tx[r].user
        /\ new.version = tx[r].version /\ new.applied = tx[r].applied /\ new.queued = tx[r].queued
    <3>1. {StickDoc} \in SUBSET Docs /\ {} \in SUBSET Docs
      BY DocsDiffer
    <3> QED
      BY <1>0, <2>1, <3>1, TxTypes DEF Opened, TxState, Inside
  <2> HIDE DEF new
  <2>3. tx' = [tx EXCEPT ![r] = new] /\ tx'[r] = new
    BY <1>0, <1>2 DEF new, TypeOK
  <2>4. tx[r].user \in Users /\ tx[r].op \in Ops /\ tx[r].applied = 0 /\ tx[r].queued = {}
    BY <1>0 DEF RequestOK, RequestShape, AppliedOnce, Ending
  <2>5. RequestOK(r)'
    <3>1. tx'[r].pc = "read" /\ "read" \in Inside /\ "read" \notin Ending
      BY <2>2, <2>3 DEF Inside, Ending
    <3>2. StickKept(r)'
      BY <1>2, <2>1, <2>2, <2>3 DEF StickKept, Refused
    <3>3. RequestShape(r)'
      BY <2>2, <2>3, <2>4, <3>1, DocsDiffer DEF RequestShape
    <3>4. SeenKept(r)' /\ UserDocKept(r)' /\ TokenUnused(r)' /\ AppliedOnce(r)'
      BY <2>1, <2>2, <2>3, <2>4, <3>1 DEF SeenKept, UserDocKept, TokenUnused, AppliedOnce
    <3> QED
      BY <3>2, <3>3, <3>4 DEF RequestOK
  <2>6. \A d \in new.written : ~Conflicts(r, d)
    BY <2>2 DEF GetStick
  <2> QED
    BY <1>0, <2>1, <2>2, <2>3, <2>5, <2>6, Sessions, StatementKeeps
<1> QED
  BY <1>1, <1>2 DEF GetStick

\* A request goes on from one operation to the next, and keeps its snapshot.
LEMMA RequestGoesOn ==
    ASSUME MInv, NEW r \in Requests, tx[r].pc \in Inside, NEW new \in TxState,
           tx' = [tx EXCEPT ![r] = new],
           UNCHANGED <<stick, open, subs, rows>>, nextToken' \in Nat, nextToken' >= nextToken,
           new.pc \in Inside \ {"read"}, new.op = tx[r].op, new.user = tx[r].user,
           new.version = tx[r].version, new.seen = tx[r].seen, new.stale = tx[r].stale,
           new.applied = tx[r].applied, tx[r].written \subseteq new.written,
           \A d \in new.written \ tx[r].written :
              /\ ~Conflicts(r, d)
              /\ d = SubDoc(tx[r].user) /\ tx[r].op \in {"subscribe", "unsubscribe"},
           new.queued = IF new.pc \in Ending /\ tx[r].op = "release" THEN Seen(r) ELSE {},
           new.pc \in Ending /\ tx[r].op \in {"subscribe", "unsubscribe"} =>
              \/ SubDoc(tx[r].user) \in new.written
              \/ tx[r].op = "unsubscribe" /\ tx[r].seen[tx[r].user] = NoToken,
           new.pc \in Ending /\ tx[r].op = "subscribe" =>
              \/ new.token = nextToken /\ nextToken' = nextToken + 1
              \/ new.token = tx[r].token /\ tx[r].pc \in Ending
    PROVE  MInv'
<1>0. TypeOK /\ r \in Tx /\ RequestOK(r) /\ TokensKnown
  BY Sessions DEF MInv, TxOK
<1>1. tx'[r] = new
  BY <1>0 DEF TypeOK
<1>2. StickKept(r)'
  BY <1>0, <1>1 DEF RequestOK, StickKept
<1>3. RequestShape(r)'
  <2>1. Seen(r)' = Seen(r)
    BY <1>1 DEF Seen
  <2>2. \A u \in Users : SubDoc(u) \in new.written =>
           u = tx[r].user /\ tx[r].op \in {"subscribe", "unsubscribe"}
    BY <1>0, DocsDiffer DEF RequestOK, RequestShape
  <2>3. tx[r].user \in Users /\ tx[r].op \in Ops
    BY <1>0 DEF RequestOK, RequestShape
  <2> QED
    BY <1>1, <2>1, <2>2, <2>3 DEF RequestShape
<1>4. SeenKept(r)' /\ UserDocKept(r)' /\ AppliedOnce(r)'
  <2>1. Ended' = Ended
    BY DEF Ended
  <2>2. new.pc \notin {"ok", "applied", "error"} /\ tx[r].pc \notin {"ok", "applied", "error"}
    BY DEF Inside
  <2> QED
    BY <1>0, <1>1, <2>1, <2>2 DEF RequestOK, SeenKept, UserDocKept, AppliedOnce
<1>5. TokenUnused(r)'
  <2> SUFFICES ASSUME new.pc \in Ending, tx[r].op = "subscribe"
               PROVE  /\ new.token # NoToken /\ new.token < nextToken'
                      /\ \A u \in Users : subs[u] # new.token
                      /\ \A n \in 1..Len(rows) : rows[n].generation # new.token
    BY <1>1 DEF TokenUnused
  <2>1. /\ nextToken \in Nat /\ nextToken > 0 /\ \A u \in Users : subs[u] \in Nat
        /\ \A n \in 1..Len(rows) : rows[n].generation \in Nat
        /\ tx[r].token \in Nat
    BY <1>0, RowTypes, TxTypes DEF TypeOK
  <2>2. CASE new.token = nextToken /\ nextToken' = nextToken + 1
    BY <1>0, <2>1, <2>2 DEF TokensKnown, NoToken
  <2>3. CASE new.token = tx[r].token /\ tx[r].pc \in Ending
    BY <1>0, <2>1, <2>3 DEF RequestOK, TokenUnused
  <2> QED
    BY <2>2, <2>3
<1>6. RequestOK(r)'
  BY <1>2, <1>3, <1>4, <1>5 DEF RequestOK
<1>7. Active(r)
  BY <1>0, ActiveStates
<1> QED
  BY <1>0, <1>6, <1>7, Sessions, StatementKeeps

\* Updating the stick, then the sessions.
LEMMA ClaimAndReleaseKeep ==
    \A r \in Requests : MInv /\ (SaveStick(r) \/ CreateSession(r) \/ CloseSession(r)) => MInv'
<1> SUFFICES ASSUME NEW r \in Requests, MInv, SaveStick(r) \/ CreateSession(r) \/ CloseSession(r)
             PROVE  MInv'
  OBVIOUS
<1>0. TypeOK /\ r \in Tx /\ RequestOK(r)
  BY Sessions DEF MInv, TxOK
<1>1. CASE Abort(r, "error")
  BY <1>0, <1>1, AbortKeeps
<1>2. ASSUME NEW pc \in {"saved", "ready", "closed"}, NEW docs \in SUBSET {StickDoc},
             Write(r, pc, docs), tx[r].pc \in {"read", "saved"}, tx[r].op \in {"claim", "release"},
             pc = "ready" => tx[r].op = "claim"
      PROVE  MInv'
  <2> DEFINE new == [tx[r] EXCEPT !.pc = pc, !.written = @ \cup docs]
  <2>1. UNCHANGED <<stick, open, subs, rows, nextToken>> /\ tx' = [tx EXCEPT ![r] = new]
    BY <1>2 DEF Write, data
  <2>2. nextToken' \in Nat /\ nextToken' >= nextToken
    BY <1>0, <2>1 DEF TypeOK
  <2>3. pc \in Inside \ {"read"} /\ docs \in SUBSET Docs /\ tx[r].pc \in Inside \ Ending
    BY <1>2, DocsDiffer DEF Inside, Ending
  <2>4. /\ new \in TxState /\ new.pc = pc /\ new.written = tx[r].written \cup docs
        /\ new.op = tx[r].op /\ new.user = tx[r].user /\ new.version = tx[r].version
        /\ new.seen = tx[r].seen /\ new.stale = tx[r].stale /\ new.queued = tx[r].queued
        /\ new.applied = tx[r].applied
    BY <1>0, <2>3, TxTypes DEF TxState
  <2> HIDE DEF new
  <2>5. new.written = tx[r].written
    BY <1>0, <2>3, <2>4 DEF RequestOK, StickKept
  <2>6. new.queued = IF new.pc \in Ending /\ tx[r].op = "release" THEN Seen(r) ELSE {}
    BY <1>0, <1>2, <2>3, <2>4 DEF RequestOK, RequestShape, Ending
  <2>7. tx[r].op \notin {"subscribe", "unsubscribe"}
    BY <1>2
  <2> QED
    BY <2>1, <2>2, <2>3, <2>4, <2>5, <2>6, <2>7, RequestGoesOn
<1>3. CASE SaveStick(r)
  BY <1>2, <1>3 DEF SaveStick, At
<1>4. CASE CreateSession(r)
  BY <1>1, <1>2, <1>4 DEF CreateSession, At
<1>5. CASE CloseSession(r)
  BY <1>1, <1>2, <1>5 DEF CloseSession, At
<1> QED
  BY <1>3, <1>4, <1>5

\* A release queues what its snapshot shows.
LEMMA EnqueueKeeps == \A r \in Requests : MInv /\ EnqueueReleaseNotifications(r) => MInv'
<1> SUFFICES ASSUME NEW r \in Requests, MInv, EnqueueReleaseNotifications(r) PROVE MInv'
  OBVIOUS
<1>0. TypeOK /\ r \in Tx /\ RequestOK(r) /\ tx[r].pc = "closed" /\ tx[r].op = "release"
      /\ UNCHANGED <<stick, open, subs, rows, nextToken>>
      /\ nextToken' \in Nat /\ nextToken' >= nextToken
  BY Sessions DEF MInv, TypeOK, TxOK, EnqueueReleaseNotifications, At, data
<1> DEFINE new == [tx[r] EXCEPT !.pc = "ready", !.queued = Seen(r)]
<1>1. tx' = [tx EXCEPT ![r] = new]
  BY DEF EnqueueReleaseNotifications, Seen
<1>2. Seen(r) \in SUBSET (Users \X Nat)
  BY <1>0, TxTypes DEF Seen
<1>3. /\ new \in TxState /\ new.pc = "ready" /\ new.written = tx[r].written
      /\ new.op = tx[r].op /\ new.user = tx[r].user /\ new.version = tx[r].version
      /\ new.seen = tx[r].seen /\ new.stale = tx[r].stale /\ new.queued = Seen(r)
      /\ new.applied = tx[r].applied
  BY <1>0, <1>2, TxTypes DEF TxState, Inside
<1> HIDE DEF new
<1>4. tx[r].pc \in Inside /\ "ready" \in Inside \ {"read"} /\ "ready" \in Ending
  BY <1>0 DEF Inside, Ending
<1> QED
  BY <1>0, <1>1, <1>3, <1>4, RequestGoesOn

\* The upsert writes the user's subscription, with a token of its own.
LEMMA SubscribeKeeps == \A r \in Requests : MInv /\ Subscribe(r) => MInv'
<1> SUFFICES ASSUME NEW r \in Requests, MInv, Subscribe(r) PROVE MInv'
  OBVIOUS
<1>0. TypeOK /\ r \in Tx /\ RequestOK(r) /\ tx[r].pc = "read" /\ tx[r].op = "subscribe"
      /\ UNCHANGED <<stick, open, subs, rows>> /\ nextToken' = nextToken + 1
      /\ nextToken \in Nat /\ nextToken' \in Nat /\ nextToken' >= nextToken
  BY Sessions DEF MInv, TypeOK, TxOK, Subscribe, At, data
<1> DEFINE user == tx[r].user
           new == [tx[r] EXCEPT !.pc = "ready", !.token = nextToken,
                                !.written = @ \cup {SubDoc(user)}]
<1>1. tx' = [tx EXCEPT ![r] = new] /\ ~Conflicts(r, SubDoc(user))
  BY DEF Subscribe
<1>2. tx[r].pc \in Inside /\ "ready" \in Inside \ {"read"} /\ tx[r].pc \notin Ending
  BY <1>0 DEF Inside, Ending
<1>3. user \in Users /\ SubDoc(user) \in Docs
  BY <1>0, <1>2, DocsDiffer DEF RequestOK, RequestShape
<1>4. /\ new \in TxState /\ new.pc = "ready" /\ new.written = tx[r].written \cup {SubDoc(user)}
      /\ new.op = tx[r].op /\ new.user = user /\ new.version = tx[r].version
      /\ new.seen = tx[r].seen /\ new.stale = tx[r].stale /\ new.queued = tx[r].queued
      /\ new.applied = tx[r].applied /\ new.token = nextToken
  BY <1>0, <1>3, TxTypes DEF TxState, Inside
<1> HIDE DEF new
<1>5. tx[r].queued = {}
  BY <1>0, <1>2 DEF RequestOK, RequestShape
<1> QED
  BY <1>0, <1>1, <1>2, <1>4, <1>5, RequestGoesOn

\* The delete writes the user's subscription if the snapshot has one.
LEMMA UnsubscribeKeeps == \A r \in Requests : MInv /\ Unsubscribe(r) => MInv'
<1> SUFFICES ASSUME NEW r \in Requests, MInv, Unsubscribe(r) PROVE MInv'
  OBVIOUS
<1> DEFINE user == tx[r].user
           docs == IF tx[r].seen[user] = NoToken THEN {} ELSE {SubDoc(user)}
           new == [tx[r] EXCEPT !.pc = "ready", !.written = @ \cup docs]
<1>1. Write(r, "ready", docs) /\ tx[r].pc = "read" /\ tx[r].op = "unsubscribe"
  BY DEF Unsubscribe, At
<1> HIDE DEF docs
<1>0. TypeOK /\ r \in Tx /\ RequestOK(r) /\ tx[r].pc = "read" /\ tx[r].op = "unsubscribe"
      /\ UNCHANGED <<stick, open, subs, rows, nextToken>>
      /\ nextToken' \in Nat /\ nextToken' >= nextToken
      /\ tx' = [tx EXCEPT ![r] = new] /\ \A d \in docs : ~Conflicts(r, d)
  <2>1. TypeOK /\ r \in Tx /\ RequestOK(r) /\ nextToken \in Nat
    BY Sessions DEF MInv, TypeOK, TxOK
  <2>2. UNCHANGED <<stick, open, subs, rows, nextToken>> /\ \A d \in docs : ~Conflicts(r, d)
    BY <1>1 DEF Write, data
  <2>3. tx' = [tx EXCEPT ![r] = new]
    BY <1>1 DEF Write
  <2> QED
    BY <1>1, <2>1, <2>2, <2>3
<1>2. tx[r].pc \in Inside /\ "ready" \in Inside \ {"read"} /\ tx[r].pc \notin Ending
  BY <1>0 DEF Inside, Ending
<1>3. user \in Users /\ docs \in SUBSET Docs
  BY <1>0, <1>2, DocsDiffer DEF RequestOK, RequestShape, docs
<1>4. docs \subseteq {SubDoc(user)} /\ (SubDoc(user) \in docs \/ tx[r].seen[user] = NoToken)
  BY DEF docs
<1>5. /\ new \in TxState /\ new.pc = "ready" /\ new.written = tx[r].written \cup docs
      /\ new.op = tx[r].op /\ new.user = user /\ new.version = tx[r].version
      /\ new.seen = tx[r].seen /\ new.stale = tx[r].stale /\ new.queued = tx[r].queued
      /\ new.applied = tx[r].applied
  BY <1>0, <1>2, <1>3, TxTypes DEF TxState
<1> HIDE DEF new
<1>6. tx[r].queued = {}
  BY <1>0, <1>2 DEF RequestOK, RequestShape
<1> QED
  BY <1>0, <1>2, <1>4, <1>5, <1>6, RequestGoesOn

\* A delivery has succeeded, and its transaction is begun.
LEMMA BeginMarkKeeps == \A w \in Workers : MInv /\ BeginMark(w) => MInv'
<1> SUFFICES ASSUME NEW w \in Workers, MInv, BeginMark(w) PROVE MInv'
  OBVIOUS
<1>0. TypeOK /\ w \in Tx /\ WorkerOK(w) /\ tx[w].pc = "sending"
      /\ UNCHANGED <<stick, open, subs, rows, nextToken>>
      /\ nextToken' \in Nat /\ nextToken' >= nextToken
  BY Sessions DEF MInv, TypeOK, TxOK, BeginMark, data
<1> DEFINE new == [tx[w] EXCEPT !.pc = "mark"]
<1>1. tx' = [tx EXCEPT ![w] = new]
  BY DEF BeginMark
<1>2. /\ new \in TxState /\ new.pc = "mark" /\ new.op = tx[w].op /\ new.row = tx[w].row
      /\ "mark" \in Rest
  BY <1>0, TxTypes DEF TxState, Rest
<1> HIDE DEF new
<1>3. tx'[w] = new
  BY <1>0, <1>1 DEF TypeOK
<1>4. WorkerOK(w)'
  BY <1>0, <1>2, <1>3, RestingWorker DEF WorkerOK, WorkerShape
<1> QED
  BY <1>0, <1>1, <1>2, <1>4, Sessions, StatementKeeps

\* The update of the delivered notification opens the transaction; the claim
\* still stands.
LEMMA MarkSucceededKeeps == \A w \in Workers : MInv /\ MarkNotificationSucceeded(w) => MInv'
<1> SUFFICES ASSUME NEW w \in Workers, MInv, MarkNotificationSucceeded(w) PROVE MInv'
  OBVIOUS
<1>0. TypeOK /\ w \in Tx /\ WorkerOK(w) /\ tx[w].pc = "mark"
  BY Sessions DEF MInv, TxOK, MarkNotificationSucceeded
<1> DEFINE n == tx[w].row
<1>1. CASE Abort(w, "claim lost")
  BY <1>0, <1>1, Sessions, AbortKeeps
<1>2. CASE /\ HoldsClaim(w) /\ ~Conflicts(w, RowDoc(n))
           /\ tx' = [tx EXCEPT ![w] = Opened(w, "settled", {RowDoc(n)})]
           /\ UNCHANGED <<data, nextToken>>
  <2> DEFINE new == Opened(w, "settled", {RowDoc(n)})
  <2>1. /\ UNCHANGED <<stick, open, subs, rows, nextToken>> /\ subs \in [Users -> Nat]
        /\ nextToken' \in Nat /\ nextToken' >= nextToken
    BY <1>0, <1>2 DEF data, TypeOK
  <2>2. n \in 1..Len(rows) /\ tx[w].op = "deliver" /\ RowDoc(n) \in Docs
    BY <1>0, TxTypes, DocsDiffer DEF WorkerOK, WorkerShape
  <2>3. /\ new \in TxState /\ new.pc = "settled" /\ new.seen = subs /\ new.stale = {}
        /\ new.written = {RowDoc(n)} /\ new.op = tx[w].op /\ new.row = n
    BY <1>0, <2>1, <2>2, TxTypes DEF Opened, TxState
  <2> HIDE DEF new
  <2>4. tx' = [tx EXCEPT ![w] = new] /\ tx'[w] = new
    BY <1>0, <1>2 DEF new, TypeOK
  <2>5. WorkerShape(w)'
    BY <1>2, <2>1, <2>2, <2>3, <2>4 DEF WorkerShape, HoldsClaim
  <2>6. GenerationKept(w)'
    BY <2>1, <2>3, <2>4, DocsDiffer DEF GenerationKept, Ending
  <2>7. \A d \in new.written : ~Conflicts(w, d)
    BY <1>2, <2>3
  <2> QED
    BY <1>0, <2>1, <2>3, <2>4, <2>5, <2>6, <2>7, Sessions, StatementKeeps DEF WorkerOK
<1> QED
  BY <1>1, <1>2 DEF MarkNotificationSucceeded

\* A worker goes on, having deleted the subscription of its generation.
LEMMA WorkerGoesOn ==
    ASSUME MInv, NEW w \in Workers, tx[w].pc \in {"settled"} \cup Ending, NEW new \in TxState,
           tx' = [tx EXCEPT ![w] = new], UNCHANGED <<stick, open, subs, rows, nextToken>>,
           new.pc \in Ending, new.op = tx[w].op, new.row = tx[w].row,
           new.seen = tx[w].seen, new.stale = tx[w].stale, tx[w].written \subseteq new.written,
           \A d \in new.written \ tx[w].written :
              /\ ~Conflicts(w, d) /\ d = SubDoc(rows[tx[w].row].user)
              /\ tx[w].seen[rows[tx[w].row].user] = rows[tx[w].row].generation,
           tx[w].seen[rows[tx[w].row].user] = rows[tx[w].row].generation =>
              SubDoc(rows[tx[w].row].user) \in new.written
    PROVE  MInv'
<1>0. TypeOK /\ w \in Tx /\ WorkerOK(w) /\ nextToken' \in Nat /\ nextToken' >= nextToken
  BY Sessions DEF MInv, TypeOK, TxOK
<1>1. tx'[w] = new
  BY <1>0 DEF TypeOK
<1>2. WorkerShape(w)'
  BY <1>0, <1>1 DEF WorkerOK, WorkerShape
<1>3. \A u \in Users : SubDoc(u) \in new.written =>
         u = rows[tx[w].row].user /\ tx[w].seen[rows[tx[w].row].user] = rows[tx[w].row].generation
  BY <1>0, DocsDiffer DEF WorkerOK, GenerationKept
<1>4. GenerationKept(w)'
  BY <1>0, <1>1, <1>3 DEF WorkerOK, GenerationKept
<1>5. Active(w) /\ WorkerOK(w)'
  BY <1>0, <1>2, <1>4, ActiveStates DEF WorkerOK, Inside, Ending
<1> QED
  BY <1>0, <1>5, Sessions, StatementKeeps

\* The delete of the notified generation.
LEMMA DeleteSubscriptionKeeps == \A w \in Workers : MInv /\ DeleteSubscription(w) => MInv'
<1> SUFFICES ASSUME NEW w \in Workers, MInv, DeleteSubscription(w) PROVE MInv'
  OBVIOUS
<1> DEFINE row == rows[tx[w].row]
           docs == IF tx[w].seen[row.user] = row.generation THEN {SubDoc(row.user)} ELSE {}
           new == [tx[w] EXCEPT !.pc = "ready", !.written = @ \cup docs]
<1>1. tx[w].pc = "settled" /\ Write(w, "ready", docs)
  BY DEF DeleteSubscription
<1>2. docs \subseteq {SubDoc(row.user)}
      /\ (tx[w].seen[row.user] = row.generation => SubDoc(row.user) \in docs)
      /\ (docs # {} => tx[w].seen[row.user] = row.generation)
  OBVIOUS
<1> HIDE DEF docs
<1>3. TypeOK /\ w \in Tx /\ WorkerOK(w)
  BY Sessions DEF MInv, TxOK
<1>4. UNCHANGED <<stick, open, subs, rows, nextToken>> /\ \A d \in docs : ~Conflicts(w, d)
  BY <1>1 DEF Write, data
<1>5. tx' = [tx EXCEPT ![w] = new]
  BY <1>1 DEF Write
<1>6. row.user \in Users /\ docs \in SUBSET Docs
  BY <1>1, <1>2, <1>3, RowTypes, DocsDiffer DEF WorkerOK, WorkerShape
<1>7. /\ new \in TxState /\ new.pc = "ready" /\ new.written = tx[w].written \cup docs
      /\ new.op = tx[w].op /\ new.row = tx[w].row /\ new.seen = tx[w].seen
      /\ new.stale = tx[w].stale
  BY <1>3, <1>6, TxTypes DEF TxState, Inside
<1> HIDE DEF new
<1>8. "ready" \in Ending
  BY DEF Ending
<1>9. \A d \in new.written \ tx[w].written :
         ~Conflicts(w, d) /\ d = SubDoc(row.user) /\ tx[w].seen[row.user] = row.generation
  BY <1>2, <1>4, <1>7
<1> QED
  BY <1>1, <1>2, <1>4, <1>5, <1>7, <1>8, <1>9, WorkerGoesOn

\* Nobody knows whether a commit that was lost has arrived.
LEMMA CommitLostKeeps == \A t \in Tx : MInv /\ CommitLost(t) => MInv'
<1> SUFFICES ASSUME NEW t \in Tx, MInv, CommitLost(t) PROVE MInv'
  OBVIOUS
<1> DEFINE new == [tx[t] EXCEPT !.pc = "unsure"]
<1>1. TypeOK /\ TxOK(t) /\ UNCHANGED <<stick, open, subs, rows, nextToken>>
      /\ nextToken' \in Nat /\ nextToken' >= nextToken
  BY DEF MInv, TypeOK, CommitLost, data
<1>2. tx' = [tx EXCEPT ![t] = new] /\ tx[t].pc = "ready"
  BY DEF CommitLost
<1>3. /\ new \in TxState /\ new.pc = "unsure" /\ new.written = tx[t].written
      /\ new.op = tx[t].op /\ new.user = tx[t].user /\ new.version = tx[t].version
      /\ new.token = tx[t].token /\ new.row = tx[t].row /\ new.seen = tx[t].seen
      /\ new.stale = tx[t].stale /\ new.queued = tx[t].queued /\ new.applied = tx[t].applied
  BY <1>1, TxTypes DEF TxState, Inside
<1> HIDE DEF new
<1>4. /\ {"ready", "unsure"} \subseteq Ending /\ {"ready", "unsure"} \subseteq Inside
      /\ "unsure" # "read"
  BY DEF Ending, Inside
<1>5. CASE t \in Requests
  <2>1. RequestShape(t) /\ UserDocKept(t)
    BY <1>1, <1>5 DEF TxOK, RequestOK
  <2>2. new.queued = IF new.pc \in Ending /\ tx[t].op = "release" THEN Seen(t) ELSE {}
    BY <1>2, <1>3, <1>4, <2>1 DEF RequestShape
  <2>3. tx[t].op \in {"subscribe", "unsubscribe"} =>
           \/ SubDoc(tx[t].user) \in new.written
           \/ tx[t].op = "unsubscribe" /\ tx[t].seen[tx[t].user] = NoToken
    BY <1>2, <1>3, <1>4, <2>1 DEF UserDocKept
  <2> QED
    BY <1>1, <1>2, <1>3, <1>4, <1>5, <2>2, <2>3, RequestGoesOn
<1>6. CASE t \in Workers
  <2>1. tx[t].seen[rows[tx[t].row].user] = rows[tx[t].row].generation =>
           SubDoc(rows[tx[t].row].user) \in new.written
    BY <1>1, <1>2, <1>3, <1>4, <1>6 DEF TxOK, WorkerOK, GenerationKept
  <2> QED
    BY <1>1, <1>2, <1>3, <1>4, <1>6, <2>1, WorkerGoesOn
<1> QED
  BY <1>5, <1>6 DEF Tx

\* The driver's time is up.
LEMMA GiveUpKeeps == \A t \in Tx : MInv /\ GiveUp(t) => MInv'
  BY AbortKeeps DEF GiveUp

-----------------------------------------------------------------------------
(* Updates of a notification outside a transaction. *)

\* What becomes stale does so for the open transactions of other sessions.
LEMMA StaleEffect ==
    ASSUME TypeOK, NEW t \in Tx, NEW docs \in SUBSET Docs, NEW new \in TxState,
           tx' = [Stale(docs, t) EXCEPT ![t] = new]
    PROVE  tx' \in [Tx -> TxState] /\ tx'[t] = new /\ OnlyOf(t, docs)
<1>1. ASSUME NEW s \in Tx \ {t}
      PROVE  /\ tx'[s] \in TxState
             /\ tx'[s] = IF Active(s) THEN [tx[s] EXCEPT !.stale = @ \cup docs] ELSE tx[s]
  <2>1. tx'[s] = IF Active(s) THEN [tx[s] EXCEPT !.stale = @ \cup docs] ELSE tx[s]
    BY DEF Stale
  <2>2. [tx[s] EXCEPT !.stale = @ \cup docs] \in TxState
    BY TxTypes DEF TxState
  <2> QED
    BY <2>1, <2>2, TxTypes
<1>2. ASSUME NEW s \in Tx \ {t}
      PROVE  /\ tx'[s].pc = tx[s].pc /\ tx'[s].op = tx[s].op /\ tx'[s].user = tx[s].user
             /\ tx'[s].version = tx[s].version /\ tx'[s].token = tx[s].token
             /\ tx'[s].row = tx[s].row /\ tx'[s].seen = tx[s].seen
             /\ tx'[s].written = tx[s].written /\ tx'[s].queued = tx[s].queued
             /\ tx'[s].applied = tx[s].applied
             /\ Active(s) => tx'[s].stale = tx[s].stale \cup docs
  <2> DEFINE x == [tx[s] EXCEPT !.stale = @ \cup docs]
  <2>1. /\ x.pc = tx[s].pc /\ x.op = tx[s].op /\ x.user = tx[s].user
        /\ x.version = tx[s].version /\ x.token = tx[s].token /\ x.row = tx[s].row
        /\ x.seen = tx[s].seen /\ x.written = tx[s].written /\ x.queued = tx[s].queued
        /\ x.applied = tx[s].applied /\ x.stale = tx[s].stale \cup docs
    BY TxTypes DEF TxState
  <2>2. tx'[s] = IF Active(s) THEN x ELSE tx[s]
    BY <1>1
  <2> HIDE DEF x
  <2>3. CASE Active(s)
    BY <2>1, <2>2, <2>3
  <2>4. CASE ~Active(s)
    BY <2>2, <2>4
  <2> QED
    BY <2>3, <2>4
<1>3. tx' = [s \in Tx |-> tx'[s]] /\ tx'[t] = new
  BY DEF Stale
<1> QED
  BY <1>1, <1>2, <1>3 DEF OnlyOf

\* A notification with another status and token.
RowSet(n, status, token) ==
    rows' = [rows EXCEPT ![n].status = status, ![n].token = token]

\* Nothing else of it changes, and no other notification.
LEMMA RowSetEffect ==
    ASSUME TypeOK, NEW n \in 1..Len(rows), NEW status \in Statuses, NEW token \in Nat,
           RowSet(n, status, token)
    PROVE  /\ rows' \in Seq(Row) /\ Len(rows') = Len(rows)
           /\ rows'[n].status = status
           /\ \A m \in 1..Len(rows) : /\ rows'[m].user = rows[m].user
                                      /\ rows'[m].generation = rows[m].generation
                                      /\ m # n => rows'[m] = rows[m]
<1> DEFINE new == [rows[n] EXCEPT !.status = status, !.token = token]
<1>1. rows[n] \in Row /\ rows \in Seq(Row) /\ Len(rows) \in Nat
  BY RowTypes
<1>2. /\ new \in Row /\ new.status = status
      /\ new.user = rows[n].user /\ new.generation = rows[n].generation
  BY <1>1 DEF Row
<1>3. rows' = [rows EXCEPT ![n] = new]
  BY <1>1, LenProperties DEF RowSet
<1> HIDE DEF new
<1>4. rows' \in Seq(Row) /\ Len(rows') = Len(rows)
      /\ \A m \in 1..Len(rows) : rows'[m] = IF m = n THEN new ELSE rows[m]
  BY <1>1, <1>2, <1>3, ExceptSeq
<1> QED
  BY <1>2, <1>4

\* What is known of tokens after such an update.
LEMMA RowSetTokens ==
    ASSUME MInv, Len(rows') = Len(rows),
           \A m \in 1..Len(rows) : rows'[m].generation = rows[m].generation,
           \A u \in Users : subs'[u] \in {subs[u], NoToken},
           nextToken' \in Nat, nextToken' >= nextToken
    PROVE  TokensKnown'
<1>1. /\ TypeOK /\ nextToken \in Nat /\ nextToken > NoToken /\ NoToken \in Nat
      /\ \A u \in Users : subs[u] \in Nat
      /\ \A n \in 1..Len(rows) : rows[n].generation \in Nat
  BY RowTypes DEF MInv, TypeOK, NoToken
<1>2. \A u \in Users : subs'[u] < nextToken'
  <2> SUFFICES ASSUME NEW u \in Users PROVE subs'[u] < nextToken'
    OBVIOUS
  <2>1. subs[u] < nextToken
    BY DEF MInv, TokensKnown
  <2> QED
    BY <1>1, <2>1
<1>3. \A n \in 1..Len(rows') : rows'[n].generation # NoToken /\ rows'[n].generation < nextToken'
  <2> SUFFICES ASSUME NEW n \in 1..Len(rows)
               PROVE  rows[n].generation # NoToken /\ rows[n].generation < nextToken'
    OBVIOUS
  <2>1. rows[n].generation # NoToken /\ rows[n].generation < nextToken
    BY DEF MInv, TokensKnown
  <2> QED
    BY <1>1, <2>1
<1> QED
  BY <1>2, <1>3 DEF TokensKnown

\* A worker's single update of an unsettled notification that no transaction
\* is settling.
LEMMA RowUpdateKeeps ==
    ASSUME MInv, NEW w \in Workers, NEW n \in 1..Len(rows), NotBeingMarked(n),
           rows[n].status # "succeeded", NEW status \in Statuses \ {"succeeded"}, NEW token \in Nat,
           RowSet(n, status, token), UNCHANGED <<stick, open, subs>>,
           nextToken' \in Nat, nextToken' >= nextToken,
           NEW new \in TxState, tx' = [Stale({RowDoc(n)}, w) EXCEPT ![w] = new],
           \/ new.pc = "idle"
           \/ new.pc = "sending" /\ new.op = "deliver" /\ new.row \in 1..Len(rows)
    PROVE  MInv'
<1> DEFINE docs == {RowDoc(n)}
<1>1. /\ TypeOK /\ w \in Tx /\ Len(rows) \in Nat /\ docs \in SUBSET Docs
      /\ nextToken \in Nat /\ nextToken > 0
  BY Sessions, RowTypes, DocsDiffer DEF MInv, TypeOK
<1>2. tx' \in [Tx -> TxState] /\ tx'[w] = new /\ OnlyOf(w, docs)
  BY <1>1, StaleEffect
<1>3. /\ rows' \in Seq(Row) /\ Len(rows') = Len(rows) /\ rows'[n].status = status
      /\ \A m \in 1..Len(rows) : /\ rows'[m].user = rows[m].user
                                 /\ rows'[m].generation = rows[m].generation
                                 /\ m # n => rows'[m] = rows[m]
  BY <1>1, RowSetEffect
<1>4. TypeOK'
  <2>1. nextToken' > 0
    BY <1>1
  <2> QED
    BY <1>1, <1>2, <1>3, <2>1 DEF TypeOK
<1>5. TokensKnown'
  BY <1>3, RowSetTokens
<1>6. Covers(docs)
  BY <1>3 DEF Covers
<1>7. Free(w, docs)
  BY DEF Free, NotBeingMarked
<1>8. WorkerOK(w)' /\ ~Active(w)'
  <2>1. ~Active(w)'
    BY <1>2 DEF Active
  <2>2. WorkerOK(w)'
    BY <1>2, <1>3, RestingWorker
  <2> QED
    BY <2>1, <2>2
<1>9. TxOK(w)'
  BY <1>8, Sessions DEF TxOK, SnapshotKept
<1> QED
  BY <1>1, <1>2, <1>4, <1>5, <1>6, <1>7, <1>8, <1>9, StepKeeps

\* A claim, whose answer may be lost.
LEMMA ClaimNotificationKeeps == \A w \in Workers : MInv /\ ClaimNotification(w) => MInv'
<1> SUFFICES ASSUME NEW w \in Workers, MInv, ClaimNotification(w) PROVE MInv'
  OBVIOUS
<1>0. /\ TypeOK /\ w \in Tx /\ nextToken \in Nat /\ nextToken' = nextToken + 1
      /\ nextToken' \in Nat /\ nextToken' >= nextToken /\ tx[w].pc = "idle"
      /\ UNCHANGED <<stick, open, subs>>
  BY Sessions DEF MInv, TypeOK, ClaimNotification
<1>1. PICK n \in 1..Len(rows) :
         /\ Deliverable(n) /\ NotBeingMarked(n)
         /\ rows' = [rows EXCEPT ![n].status = "in_progress", ![n].token = nextToken]
         /\ \/ tx' = [Stale({RowDoc(n)}, w) EXCEPT
                          ![w] = [Resting("sending") EXCEPT !.op = "deliver", !.row = n,
                                                            !.token = nextToken]]
            \/ tx' = Stale({RowDoc(n)}, w)
  BY DEF ClaimNotification
<1>2. /\ RowSet(n, "in_progress", nextToken) /\ rows[n].status # "succeeded"
      /\ "in_progress" \in Statuses \ {"succeeded"} /\ n \in Nat
  BY <1>0, <1>1, RowTypes DEF RowSet, Deliverable, Statuses
<1>3. CASE tx' = [Stale({RowDoc(n)}, w) EXCEPT
                     ![w] = [Resting("sending") EXCEPT !.op = "deliver", !.row = n,
                                                       !.token = nextToken]]
  <2> DEFINE new == [Resting("sending") EXCEPT !.op = "deliver", !.row = n, !.token = nextToken]
  <2>1. new \in TxState /\ new.pc = "sending" /\ new.op = "deliver" /\ new.row = n
    <3>1. Resting("sending") \in TxState /\ Resting("sending").pc = "sending"
      BY RestingState DEF Rest
    <3> QED
      BY <1>0, <1>2, <3>1 DEF TxState
  <2> HIDE DEF new
  <2>2. tx' = [Stale({RowDoc(n)}, w) EXCEPT ![w] = new]
    BY <1>3 DEF new
  <2> QED
    BY <1>0, <1>1, <1>2, <2>1, <2>2, RowUpdateKeeps
<1>4. CASE tx' = Stale({RowDoc(n)}, w)
  <2>1. tx' = [Stale({RowDoc(n)}, w) EXCEPT ![w] = tx[w]] /\ tx[w] \in TxState
    BY <1>0, <1>4, TxTypes DEF Stale
  <2> QED
    BY <1>0, <1>1, <1>2, <2>1, RowUpdateKeeps
<1> QED
  BY <1>1, <1>3, <1>4

\* A failed delivery is recorded if the claim still stands.
LEMMA MarkFailedKeeps == \A w \in Workers : MInv /\ MarkNotificationFailed(w) => MInv'
<1> SUFFICES ASSUME NEW w \in Workers, MInv, MarkNotificationFailed(w) PROVE MInv'
  OBVIOUS
<1> DEFINE n == tx[w].row
<1>0. TypeOK /\ w \in Tx /\ WorkerOK(w) /\ tx[w].pc = "sending" /\ NotBeingMarked(n)
  BY Sessions DEF MInv, TxOK, MarkNotificationFailed
<1>1. CASE Abort(w, "claim lost")
  BY <1>0, <1>1, Sessions, AbortKeeps
<1>2. CASE /\ HoldsClaim(w)
           /\ rows' = [rows EXCEPT ![n].status = "failed", ![n].token = NoToken]
           /\ tx' = [Stale({RowDoc(n)}, w) EXCEPT ![w] = Resting("idle")]
           /\ UNCHANGED <<stick, open, subs, nextToken>>
  <2>1. /\ n \in 1..Len(rows) /\ rows[n].status # "succeeded"
        /\ RowSet(n, "failed", NoToken) /\ NoToken \in Nat /\ "failed" \in Statuses \ {"succeeded"}
        /\ nextToken' \in Nat /\ nextToken' >= nextToken
    BY <1>0, <1>2 DEF WorkerOK, WorkerShape, HoldsClaim, RowSet, Statuses, NoToken, TypeOK
  <2>2. Resting("idle") \in TxState /\ Resting("idle").pc = "idle"
    BY RestingState DEF Rest
  <2> HIDE DEF n
  <2> QED
    BY <1>0, <1>2, <2>1, <2>2, RowUpdateKeeps
<1> QED
  BY <1>1, <1>2 DEF MarkNotificationFailed

-----------------------------------------------------------------------------
(* Commits. *)

\* What a request has queued: each user at most once.
LEMMA QueuedFits ==
    ASSUME MInv, NEW r \in Requests, tx[r].pc \in Ending
    PROVE  /\ IsFiniteSet(tx[r].queued) /\ Cardinality(tx[r].queued) \in Nat
           /\ \A e \in tx[r].queued : e[1] \in Users /\ e[2] \in Nat /\ e = <<e[1], e[2]>>
           /\ \A d, e \in tx[r].queued : d[1] = e[1] => d = e
<1> DEFINE Q == tx[r].queued
           f == [e \in Q |-> e[1]]
<1>1. TypeOK /\ r \in Tx /\ RequestShape(r)
  BY Sessions DEF MInv, TxOK, RequestOK
<1>2. Q \subseteq Users \X Nat /\ \A d, e \in Q : d[1] = e[1] => d = e
  <2>1. Q = {} \/ Q = Seen(r)
    BY <1>1 DEF RequestShape, Ending, Inside
  <2>2. \A d, e \in Seen(r) : d[1] = e[1] => d = e
    BY DEF Seen
  <2> QED
    BY <1>1, <2>1, <2>2, TxTypes
<1> HIDE DEF Q
<1>3. f \in [Q -> Users] /\ \A d, e \in Q : f[d] = f[e] => d = e
  BY <1>2
<1>4. f \in Injection(Q, Users)
  BY <1>3 DEF Injection, IsInjective
<1>5. IsFiniteSet(Q)
  BY <1>4, MongoAssumption, FS_Injection
<1> QED
  BY <1>2, <1>5, FS_CardinalityType DEF Q

\* The notifications after a request's commit: the old ones, and one for each
\* entry queued.
LEMMA ApplyAppends ==
    ASSUME MInv, NEW r \in Requests, tx[r].pc \in Ending, Apply(r)
    PROVE  /\ rows' \in Seq(Row) /\ Len(rows') \in Nat
           /\ Len(rows') = Len(rows) + Cardinality(tx[r].queued)
           /\ \A n \in 1..Len(rows) : n \in 1..Len(rows') /\ rows'[n] = rows[n]
           /\ \A n \in (Len(rows) + 1)..Len(rows') :
                 \E e \in tx[r].queued : rows'[n] = NewRow(e)
           /\ \A e \in tx[r].queued :
                 \E n \in (Len(rows) + 1)..Len(rows') : rows'[n] = NewRow(e)
           /\ \A m, n \in (Len(rows) + 1)..Len(rows') :
                 rows'[m].user = rows'[n].user => m = n
<1> DEFINE Q == tx[r].queued
           k == Cardinality(Q)
<1>1. /\ TypeOK /\ k \in Nat /\ \A e \in Q : e[1] \in Users /\ e[2] \in Nat
      /\ \A d, e \in Q : d[1] = e[1] => d = e
  BY QueuedFits DEF MInv
<1>2. tx[r].op # "deliver"
  BY Sessions DEF MInv, TxOK, RequestOK, RequestShape, Ending, Inside, Ops
<1>3. PICK order \in Bijection(1..k, Q) :
         rows' = rows \o [n \in DOMAIN order |-> NewRow(order[n])]
  BY <1>2 DEF Apply
<1> DEFINE more == [n \in 1..k |-> NewRow(order[n])]
<1>4. order \in [1..k -> Q]
  BY DEF Bijection, Injection
<1>5. rows' = rows \o more
  BY <1>3, <1>4
<1> HIDE DEF Q, k
<1>6. \A n \in 1..k : NewRow(order[n]) \in Row
  BY <1>1, <1>4 DEF NewRow, Row, Statuses, NoToken
<1>7. more \in Seq(Row)
  BY <1>1, <1>6, IsASeq
<1>8. Len(more) = k /\ rows \in Seq(Row) /\ Len(rows) \in Nat
  BY <1>1, <1>7, LenProperties DEF TypeOK
<1>9. \A n \in 1..k : more[n] = NewRow(order[n])
  OBVIOUS
<1> HIDE DEF more
<1>10. /\ rows' \in Seq(Row) /\ Len(rows') = Len(rows) + k
       /\ \A i \in 1..(Len(rows) + k) :
             rows'[i] = IF i <= Len(rows) THEN rows[i] ELSE more[i - Len(rows)]
  BY <1>5, <1>7, <1>8, ConcatProperties
<1>11. \A n \in 1..Len(rows) : n \in 1..Len(rows') /\ rows'[n] = rows[n]
  BY <1>1, <1>8, <1>10
<1>12. \A n \in (Len(rows) + 1)..Len(rows') :
          n - Len(rows) \in 1..k /\ rows'[n] = NewRow(order[n - Len(rows)])
  BY <1>1, <1>8, <1>9, <1>10
<1>13. \A n \in (Len(rows) + 1)..Len(rows') : \E e \in Q : rows'[n] = NewRow(e)
  BY <1>4, <1>12
<1>14. ASSUME NEW e \in Q PROVE \E n \in (Len(rows) + 1)..Len(rows') : rows'[n] = NewRow(e)
  <2>1. PICK i \in 1..k : order[i] = e
    BY DEF Bijection, Surjection
  <2>2. i + Len(rows) \in (Len(rows) + 1)..Len(rows') /\ (i + Len(rows)) - Len(rows) = i
    BY <1>1, <1>8, <1>10
  <2> QED
    BY <1>12, <2>1, <2>2
<1>15. ASSUME NEW m \in (Len(rows) + 1)..Len(rows'), NEW n \in (Len(rows) + 1)..Len(rows'),
              rows'[m].user = rows'[n].user
       PROVE  m = n
  <2>1. order[m - Len(rows)][1] = order[n - Len(rows)][1]
    <3>1. \A e : NewRow(e).user = e[1]
      BY DEF NewRow
    <3> QED
      BY <1>12, <1>15, <3>1
  <2>2. order[m - Len(rows)] = order[n - Len(rows)]
    BY <1>1, <1>4, <1>12, <2>1
  <2>3. m - Len(rows) = n - Len(rows)
    BY <1>12, <2>2 DEF Bijection, Injection, IsInjective
  <2> QED
    BY <1>8, <1>10, <2>3
<1>16. Len(rows') \in Nat
  BY <1>1, <1>8, <1>10
<1> QED
  BY <1>10, <1>11, <1>13, <1>14, <1>15, <1>16 DEF Q, k

\* What a request's commit makes visible, by its operation.
LEMMA RequestApplies ==
    ASSUME MInv, NEW r \in Requests, tx[r].pc \in Ending, Apply(r)
    PROVE  /\ tx[r].user \in Users /\ tx[r].op \in Ops /\ StickDoc \in tx[r].written
           /\ tx[r].version = stick.version /\ UNCHANGED nextToken /\ open' \in Int
           /\ tx[r].op # "release" => tx[r].queued = {} /\ UNCHANGED rows
           /\ tx[r].op \in {"claim", "release"} =>
                 stick' = [version |-> stick.version + 1, held |-> tx[r].op = "claim"] /\ UNCHANGED subs
           /\ tx[r].op = "subscribe" =>
                 /\ UNCHANGED stick /\ subs' = [subs EXCEPT ![tx[r].user] = tx[r].token]
                 /\ SubDoc(tx[r].user) \in tx[r].written
           /\ tx[r].op = "unsubscribe" =>
                 /\ UNCHANGED stick /\ subs' = [subs EXCEPT ![tx[r].user] = NoToken]
                 /\ SubDoc(tx[r].user) \in tx[r].written \/ UNCHANGED subs
           /\ \A e \in tx[r].queued : e \in Subscribed \cup Ended
<1> DEFINE x == tx[r]
<1>0. /\ TypeOK /\ r \in Tx /\ RequestOK(r) /\ x.pc \in Inside
      /\ subs \in [Users -> Nat] /\ open \in Int
  BY Sessions DEF MInv, TypeOK, TxOK, Ending, Inside
<1>1. /\ x.user \in Users /\ x.op \in Ops /\ StickDoc \in x.written
      /\ x.version = stick.version
  BY <1>0 DEF RequestOK, RequestShape, StickKept
<1>2. UNCHANGED nextToken /\ open' \in Int
  BY <1>0, <1>1 DEF Apply, Ops
<1>3. ASSUME x.op # "release" PROVE x.queued = {} /\ UNCHANGED rows
  <2>1. x.queued = {}
    BY <1>0, <1>3 DEF RequestOK, RequestShape
  <2>2. Cardinality(x.queued) = 0
    BY <2>1, FS_EmptySet
  <2>3. /\ rows' \in Seq(Row) /\ Len(rows') = Len(rows) /\ rows \in Seq(Row) /\ Len(rows) \in Nat
        /\ \A n \in 1..Len(rows) : rows'[n] = rows[n]
    BY <1>0, <2>2, ApplyAppends, RowTypes
  <2> QED
    BY <2>1, <2>3, SeqEqual
<1>4. subs' = [u \in Users |-> IF SubDoc(u) \notin x.written THEN subs[u]
                               ELSE IF x.op = "subscribe" THEN x.token ELSE NoToken]
  BY DEF Apply
<1>5. \A u \in Users : SubDoc(u) \in x.written => u = x.user /\ x.op \in {"subscribe", "unsubscribe"}
  BY <1>0 DEF RequestOK, RequestShape
<1>6. ASSUME x.op \in {"claim", "release"}
      PROVE  /\ stick' = [version |-> stick.version + 1, held |-> x.op = "claim"]
             /\ UNCHANGED subs
  <2>1. UNCHANGED subs
    BY <1>0, <1>4, <1>5, <1>6
  <2>2. stick' = [version |-> x.version + 1, held |-> x.op = "claim"]
    BY <1>6 DEF Apply
  <2> QED
    BY <1>1, <2>1, <2>2
<1>7. x.op \in {"subscribe", "unsubscribe"} => UNCHANGED stick
  BY DEF Apply
<1>8. ASSUME x.op = "subscribe"
      PROVE  subs' = [subs EXCEPT ![x.user] = x.token] /\ SubDoc(x.user) \in x.written
  <2>1. SubDoc(x.user) \in x.written
    BY <1>0, <1>8 DEF RequestOK, UserDocKept
  <2> QED
    BY <1>0, <1>1, <1>4, <1>5, <1>8, <2>1
<1>9. ASSUME x.op = "unsubscribe"
      PROVE  /\ subs' = [subs EXCEPT ![x.user] = NoToken]
             /\ SubDoc(x.user) \in x.written \/ UNCHANGED subs
  <2>1. CASE SubDoc(x.user) \in x.written
    BY <1>0, <1>1, <1>4, <1>5, <1>9, <2>1
  <2>2. CASE SubDoc(x.user) \notin x.written
    <3>1. x.seen[x.user] = NoToken
      BY <1>0, <1>9, <2>2 DEF RequestOK, UserDocKept
    <3>2. subs[x.user] = NoToken
      BY <1>0, <1>1, <3>1 DEF RequestOK, SeenKept
    <3>3. UNCHANGED subs
      BY <1>0, <1>4, <1>5, <2>2
    <3> QED
      BY <1>0, <1>1, <3>2, <3>3
  <2> QED
    BY <2>1, <2>2
<1>10. ASSUME NEW e \in x.queued PROVE e \in Subscribed \cup Ended
  <2>1. e \in Seen(r)
    BY <1>0 DEF RequestOK, RequestShape
  <2>2. PICK u \in Users : e = <<u, x.seen[u]>> /\ x.seen[u] # NoToken
    BY <2>1 DEF Seen
  <2>3. x.seen[u] = subs[u] \/ <<u, x.seen[u]>> \in Ended
    BY <1>0 DEF RequestOK, SeenKept
  <2> QED
    BY <2>2, <2>3 DEF Subscribed
<1> QED
  BY <1>1, <1>2, <1>3, <1>6, <1>7, <1>8, <1>9, <1>10

\* What a worker's commit makes visible.
LEMMA WorkerApplies ==
    ASSUME MInv, NEW w \in Workers, tx[w].pc \in Ending, Apply(w)
    PROVE  LET n == tx[w].row
               user == rows[n].user IN
           /\ n \in 1..Len(rows) /\ user \in Users /\ rows[n].status # "succeeded"
           /\ RowDoc(n) \in tx[w].written
           /\ RowSet(n, "succeeded", NoToken) /\ UNCHANGED <<stick, open, nextToken>>
           /\ subs' = IF subs[user] = rows[n].generation THEN [subs EXCEPT ![user] = NoToken] ELSE subs
           /\ subs[user] = rows[n].generation => SubDoc(user) \in tx[w].written
<1> DEFINE x == tx[w]
           n == x.row
           user == rows[n].user
           generation == rows[n].generation
<1>0. /\ TypeOK /\ w \in Tx /\ WorkerOK(w) /\ SnapshotKept(w) /\ x.pc \in Inside
      /\ subs \in [Users -> Nat] /\ open \in Int
  BY Sessions DEF MInv, TypeOK, TxOK, Ending, Inside
<1>1. /\ n \in 1..Len(rows) /\ x.op = "deliver" /\ RowDoc(n) \in x.written
      /\ rows[n].status # "succeeded"
  BY <1>0 DEF WorkerOK, WorkerShape
<1>2. user \in Users
  BY <1>0, <1>1, RowTypes
<1>3. RowSet(n, "succeeded", NoToken) /\ UNCHANGED <<stick, open, nextToken>>
  BY <1>0, <1>1 DEF Apply, RowSet
<1>4. subs' = [u \in Users |-> IF SubDoc(u) \notin x.written THEN subs[u] ELSE NoToken]
  BY <1>1 DEF Apply
<1>5. /\ \A u \in Users : SubDoc(u) \in x.written => u = user
      /\ SubDoc(user) \in x.written => x.seen[user] = generation
      /\ x.seen[user] = generation => SubDoc(user) \in x.written
      /\ x.seen[user] # generation => subs[user] # generation
  BY <1>0, <1>2 DEF WorkerOK, GenerationKept
<1>6. SubDoc(user) \in x.written => subs[user] = generation
  BY <1>0, <1>2, <1>5, ActiveStates DEF SnapshotKept
<1>7. SubDoc(user) \in x.written <=> subs[user] = generation
  BY <1>5, <1>6
<1> HIDE DEF x, user, generation
<1>9. subs' = IF subs[user] = generation THEN [subs EXCEPT ![user] = NoToken] ELSE subs
  <2>1. CASE SubDoc(user) \in x.written
    BY <1>0, <1>2, <1>4, <1>5, <1>7, <2>1
  <2>2. CASE SubDoc(user) \notin x.written
    BY <1>0, <1>4, <1>5, <1>7, <2>2
  <2> QED
    BY <2>1, <2>2
<1> QED
  BY <1>1, <1>2, <1>3, <1>7, <1>9 DEF x, user, generation

\* The session after its commit: it rests, and its effects count once more.
LEMMA AppliedEffect ==
    ASSUME MInv, NEW t \in Tx, tx[t].pc \in Ending, NEW pc \in {"ok", "applied"}, tx' = Applied(t, pc)
    PROVE  /\ tx' \in [Tx -> TxState] /\ OnlyOf(t, tx[t].written)
           /\ ~Active(t)' /\ SnapshotKept(t)'
           /\ t \in Requests => RequestOK(t)'
           /\ t \in Workers => WorkerOK(t)'
<1> DEFINE new == IF pc = "ok" /\ t \in Workers THEN Resting("idle")
                  ELSE [Resting(pc) EXCEPT !.op = tx[t].op, !.user = tx[t].user,
                                    !.version = tx[t].version, !.row = tx[t].row,
                                    !.token = tx[t].token, !.applied = tx[t].applied + 1]
<1>0. TypeOK /\ TxOK(t) /\ tx[t].applied \in Nat /\ tx[t].written \in SUBSET Docs
      /\ {"ok", "applied", "idle"} \subseteq Rest
  BY TxTypes DEF MInv, Rest
<1>1. CASE pc = "ok" /\ t \in Workers
  <2>1. new = Resting("idle")
    BY <1>1
  <2> HIDE DEF new
  <2>2. new \in TxState /\ new.pc = "idle"
    BY <1>0, <2>1, RestingState
  <2>3. tx' = [Stale(tx[t].written, t) EXCEPT ![t] = new]
    BY <1>1, <2>1 DEF Applied
  <2>4. tx' \in [Tx -> TxState] /\ tx'[t] = new /\ OnlyOf(t, tx[t].written)
    BY <1>0, <2>2, <2>3, StaleEffect
  <2>5. ~Active(t)' /\ WorkerOK(t)'
    BY <1>1, <2>2, <2>4, RestingWorker DEF Active
  <2> QED
    BY <1>1, <2>4, <2>5, Sessions DEF SnapshotKept
<1>2. CASE ~(pc = "ok" /\ t \in Workers)
  <2>0. new = [Resting(pc) EXCEPT !.op = tx[t].op, !.user = tx[t].user,
                                  !.version = tx[t].version, !.row = tx[t].row,
                                  !.token = tx[t].token, !.applied = tx[t].applied + 1]
    BY <1>2
  <2> HIDE DEF new
  <2>1. new \in TxState /\ new.pc = pc /\ new.applied = tx[t].applied + 1
    <3>1. Resting(pc) \in TxState /\ Resting(pc).pc = pc
      BY <1>0, RestingState
    <3>2. tx[t].applied + 1 \in Nat
      BY <1>0
    <3> QED
      BY <1>0, <2>0, <3>1, <3>2, TxTypes DEF TxState
  <2>2. tx' = [Stale(tx[t].written, t) EXCEPT ![t] = new]
    BY <1>2, <2>0 DEF Applied
  <2>3. tx' \in [Tx -> TxState] /\ tx'[t] = new /\ OnlyOf(t, tx[t].written)
    BY <1>0, <2>1, <2>2, StaleEffect
  <2>4. ~Active(t)'
    BY <2>1, <2>3 DEF Active
  <2>5. t \in Workers => WorkerOK(t)'
    BY <1>2, <2>1, <2>3, RestingWorker
  <2>6. ASSUME t \in Requests PROVE RequestOK(t)'
    <3>1. tx[t].applied = 0
      BY <1>0, <2>6 DEF TxOK, RequestOK, AppliedOnce, Ending
    <3>2. AppliedOnce(t)'
      BY <2>1, <2>3, <3>1 DEF AppliedOnce
    <3>3. tx'[t].pc \in Rest \ {"sending", "mark"} /\ tx'[t].pc # "begun"
      BY <1>0, <2>1, <2>3
    <3> QED
      BY <2>6, <3>2, <3>3, RestingRequest
  <2> QED
    BY <2>3, <2>4, <2>5, <2>6 DEF SnapshotKept
<1> QED
  BY <1>1, <1>2

\* The commit of a request.
LEMMA RequestCommitKeeps ==
    ASSUME MInv, NEW r \in Requests, tx[r].pc \in Ending, Apply(r),
           NEW pc \in {"ok", "applied"}, tx' = Applied(r, pc)
    PROVE  MInv'
<1> DEFINE x == tx[r]
<1>0. /\ TypeOK /\ r \in Tx /\ nextToken \in Nat /\ nextToken > 0 /\ subs \in [Users -> Nat]
      /\ RequestOK(r) /\ x.token \in Nat
      /\ stick.version \in Nat /\ stick.version > 0
  BY Sessions, TxTypes DEF MInv, TypeOK, TxOK
<1>1. /\ x.user \in Users /\ x.op \in Ops /\ StickDoc \in x.written
      /\ UNCHANGED nextToken /\ open' \in Int
      /\ x.op \in {"claim", "release"} =>
            stick' = [version |-> stick.version + 1, held |-> x.op = "claim"] /\ UNCHANGED subs
      /\ x.op = "subscribe" =>
            /\ UNCHANGED stick /\ subs' = [subs EXCEPT ![x.user] = x.token]
            /\ SubDoc(x.user) \in x.written
      /\ x.op = "unsubscribe" =>
            /\ UNCHANGED stick /\ subs' = [subs EXCEPT ![x.user] = NoToken]
            /\ SubDoc(x.user) \in x.written \/ UNCHANGED subs
      /\ \A e \in x.queued : e \in Subscribed \cup Ended
  BY RequestApplies
<1>2. /\ rows' \in Seq(Row) /\ Len(rows') \in Nat /\ Len(rows) \in Nat /\ Len(rows') >= Len(rows)
      /\ \A n \in 1..Len(rows) : n \in 1..Len(rows') /\ rows'[n] = rows[n]
      /\ \A n \in (Len(rows) + 1)..Len(rows') : \E e \in x.queued : rows'[n] = NewRow(e)
  <2>1. Cardinality(x.queued) \in Nat /\ Len(rows) \in Nat
    BY <1>0, QueuedFits, RowTypes
  <2> QED
    BY <2>1, ApplyAppends
<1>3. /\ tx' \in [Tx -> TxState] /\ OnlyOf(r, x.written) /\ ~Active(r)' /\ TxOK(r)'
  BY <1>0, AppliedEffect, Sessions DEF TxOK
<1>4. stick' \in [version : Nat, held : BOOLEAN] /\ stick'.version > 0
  <2>1. CASE x.op \in {"claim", "release"}
    <3> DEFINE new == [version |-> stick.version + 1, held |-> x.op = "claim"]
    <3>1. (x.op = "claim") \in BOOLEAN
      OBVIOUS
    <3>2. new \in [version : Nat, held : BOOLEAN] /\ new.version > 0
      BY <1>0, <3>1
    <3>3. stick' = new
      BY <1>1, <2>1
    <3> HIDE DEF new
    <3> QED
      BY <3>2, <3>3
  <2>2. CASE x.op \in {"subscribe", "unsubscribe"}
    BY <1>0, <1>1, <2>2 DEF TypeOK
  <2> QED
    BY <1>1, <2>1, <2>2 DEF Ops
<1>5. subs' \in [Users -> Nat]
  BY <1>0, <1>1 DEF Ops, NoToken
<1>6. TypeOK'
  BY <1>0, <1>1, <1>2, <1>3, <1>4, <1>5 DEF TypeOK
<1>7. \A u \in Users : subs'[u] # subs[u] =>
         /\ SubDoc(u) \in x.written
         /\ subs'[u] = NoToken \/ (x.op = "subscribe" /\ subs'[u] = x.token)
  BY <1>0, <1>1 DEF Ops
<1>8. x.op = "subscribe" =>
         /\ x.token < nextToken /\ \A n \in 1..Len(rows) : rows[n].generation # x.token
  BY <1>0 DEF RequestOK, TokenUnused
<1>9. \A n \in 1..Len(rows) : rows[n].generation # NoToken /\ rows[n].generation < nextToken
  BY DEF MInv, TokensKnown
<1>10. Covers(x.written)
  BY <1>1, <1>2, <1>7, <1>8, <1>9 DEF Covers
<1>11. Free(r, x.written)
  BY <1>0, ActiveStates DEF MInv, Isolated, Free, Ending, Inside
<1>12. TokensKnown'
  <2>1. \A u \in Users : subs'[u] < nextToken
    <3>1. \A u \in Users : subs[u] < nextToken
      BY DEF MInv, TokensKnown
    <3> QED
      BY <1>0, <1>7, <1>8, <3>1 DEF NoToken
  <2>2. \A e \in Subscribed \cup Ended : e[2] # NoToken /\ e[2] < nextToken
    BY <1>9 DEF Subscribed, Ended, MInv, TokensKnown
  <2>3. ASSUME NEW n \in 1..Len(rows')
        PROVE  rows'[n].generation # NoToken /\ rows'[n].generation < nextToken
    <3>1. CASE n <= Len(rows)
      BY <1>2, <1>9, <3>1
    <3>2. CASE n > Len(rows)
      <4>1. n \in (Len(rows) + 1)..Len(rows')
        BY <1>2, <3>2
      <4>2. PICK e \in x.queued : rows'[n] = NewRow(e)
        BY <1>2, <4>1
      <4>3. rows'[n].generation = e[2]
        BY <4>2 DEF NewRow
      <4> QED
        BY <1>1, <2>2, <4>3
    <3> QED
      BY <1>2, <3>1, <3>2
  <2> QED
    BY <1>1, <2>1, <2>3 DEF TokensKnown
<1>13. nextToken' >= nextToken
  BY <1>0, <1>1
<1> QED
  BY <1>0, <1>3, <1>6, <1>10, <1>11, <1>12, <1>13, StepKeeps

\* The commit of a recorded delivery.
LEMMA WorkerCommitKeeps ==
    ASSUME MInv, NEW w \in Workers, tx[w].pc \in Ending, Apply(w),
           NEW pc \in {"ok", "applied"}, tx' = Applied(w, pc)
    PROVE  MInv'
<1> DEFINE x == tx[w]
           n == x.row
           user == rows[n].user
<1>0. /\ TypeOK /\ w \in Tx /\ nextToken \in Nat /\ nextToken > 0 /\ subs \in [Users -> Nat]
      /\ Len(rows) \in Nat
  BY Sessions, RowTypes DEF MInv, TypeOK
<1>1. /\ n \in 1..Len(rows) /\ user \in Users /\ rows[n].status # "succeeded"
      /\ RowDoc(n) \in x.written
      /\ RowSet(n, "succeeded", NoToken) /\ UNCHANGED <<stick, open, nextToken>>
      /\ subs' = IF subs[user] = rows[n].generation THEN [subs EXCEPT ![user] = NoToken] ELSE subs
      /\ subs[user] = rows[n].generation => SubDoc(user) \in x.written
  BY WorkerApplies
<1>2. /\ tx' \in [Tx -> TxState] /\ OnlyOf(w, x.written) /\ ~Active(w)' /\ TxOK(w)'
  BY <1>0, AppliedEffect, Sessions DEF TxOK
<1> HIDE DEF n
<1>3. "succeeded" \in Statuses /\ NoToken \in Nat
  BY DEF Statuses, NoToken
<1>4. /\ rows' \in Seq(Row) /\ Len(rows') = Len(rows) /\ rows'[n].status = "succeeded"
      /\ \A m \in 1..Len(rows) : /\ rows'[m].user = rows[m].user
                                 /\ rows'[m].generation = rows[m].generation
                                 /\ m # n => rows'[m] = rows[m]
  BY <1>0, <1>1, <1>3, RowSetEffect
<1>5. subs' \in [Users -> Nat] /\ \A u \in Users : subs'[u] \in {subs[u], NoToken}
  BY <1>0, <1>1, <1>3
<1>6. TypeOK'
  BY <1>0, <1>1, <1>2, <1>4, <1>5 DEF TypeOK
<1>7. TokensKnown'
  BY <1>0, <1>1, <1>4, <1>5, RowSetTokens
<1>8. ASSUME NEW u \in Users, subs'[u] # subs[u]
      PROVE  /\ SubDoc(u) \in x.written /\ subs'[u] = NoToken /\ <<u, subs[u]>> \in Ended'
             /\ \A m \in 1..Len(rows) : subs'[u] # rows[m].generation
  <2>1. u = user /\ subs[u] = rows[n].generation /\ subs'[u] = NoToken
    BY <1>0, <1>1, <1>8
  <2>2. <<user, rows[n].generation>> \in Ended'
    BY <1>1, <1>4 DEF Ended
  <2> QED
    BY <1>1, <2>1, <2>2 DEF MInv, TokensKnown
<1>9. \A m \in 1..Len(rows) :
         /\ rows[m].status = "succeeded" => rows'[m].status = "succeeded"
         /\ RowDoc(m) \in x.written \/ (rows'[m].status = "succeeded" => rows[m].status = "succeeded")
  BY <1>1, <1>4
<1>10. Covers(x.written)
  BY <1>1, <1>4, <1>8, <1>9 DEF Covers
<1>11. Free(w, x.written)
  BY <1>0, ActiveStates DEF MInv, Isolated, Free, Ending, Inside
<1>12. nextToken' >= nextToken
  BY <1>0, <1>1
<1> QED
  BY <1>0, <1>2, <1>6, <1>7, <1>10, <1>11, <1>12, StepKeeps

\* A commit, or the repetition of one.
LEMMA CommitKeeps == \A t \in Tx : MInv /\ (Commit(t) \/ RetryCommit(t)) => MInv'
<1> SUFFICES ASSUME NEW t \in Tx, MInv, Commit(t) \/ RetryCommit(t) PROVE MInv'
  OBVIOUS
<1>1. CASE tx[t].pc \in Ending /\ Apply(t) /\ \E pc \in {"ok", "applied"} : tx' = Applied(t, pc)
  BY <1>1, RequestCommitKeeps, WorkerCommitKeeps DEF Tx
<1>2. CASE tx[t].pc = "applied" /\ Abort(t, "ok")
  BY <1>2, AbortKeeps
<1>3. CASE tx[t].pc = "unsure" /\ RunAgain(t) /\ UNCHANGED <<data, nextToken>>
  <2>1. Active(t)
    BY <1>3 DEF Active
  <2> QED
    BY <1>3, <2>1, RunAgainKeeps
<1> QED
  BY <1>1, <1>2, <1>3 DEF Commit, RetryCommit, Ending

-----------------------------------------------------------------------------
(* The invariant. *)

\* Nothing is open at the start.
LEMMA InitMInv == Init => MInv
<1> SUFFICES ASSUME Init PROVE MInv
  OBVIOUS
<1>1. /\ tx \in [Tx -> TxState]
      /\ \A t \in Tx : tx[t].pc = "idle" /\ tx[t].applied = 0
  BY RestingState DEF Init, Rest
<1>2. /\ rows = <<>> /\ Len(rows) = 0 /\ rows \in Seq(Row) /\ stick.version = 1
      /\ subs \in [Users -> Nat] /\ \A u \in Users : subs[u] = NoToken
  BY EmptySeq DEF Init, NoToken
<1>3. TypeOK
  BY <1>1, <1>2 DEF Init, TypeOK
<1>4. \A t \in Tx : ~Active(t)
  BY <1>1 DEF Active
<1>5. ASSUME NEW r \in Requests PROVE RequestOK(r)
  <2>1. tx[r].pc = "idle" /\ tx[r].applied = 0
    BY <1>1, Sessions
  <2> QED
    BY <2>1
    DEF RequestOK, StickKept, RequestShape, SeenKept, UserDocKept, TokenUnused, AppliedOnce,
        Inside, Ending, Rest
<1>6. ASSUME NEW w \in Workers PROVE WorkerOK(w)
  <2>1. tx[w].pc = "idle"
    BY <1>1, Sessions
  <2> QED
    BY <2>1 DEF WorkerOK, WorkerShape, GenerationKept, Ending
<1>7. TokensKnown
  BY <1>2 DEF Init, TokensKnown, NoToken
<1> QED
  BY <1>3, <1>4, <1>5, <1>6, <1>7 DEF MInv, Isolated, TxOK, SnapshotKept

\* Every operation, commit, refusal and new run keeps it.
LEMMA NextKeepsMInv == MInv /\ [Next]_vars => MInv'
<1> SUFFICES ASSUME MInv, [Next]_vars PROVE MInv'
  OBVIOUS
<1>1. ASSUME NEW r \in Requests, NEW u \in Users, NEW op \in Ops, Begin(r, op, u) PROVE MInv'
  BY <1>1, BeginKeeps
<1>2. ASSUME NEW r \in Requests, RequestStep(r) PROVE MInv'
  BY <1>2, GetStickKeeps, ClaimAndReleaseKeep, EnqueueKeeps, SubscribeKeeps, UnsubscribeKeeps
  DEF RequestStep
<1>3. ASSUME NEW w \in Workers, WorkerStep(w) PROVE MInv'
  BY <1>3, ClaimNotificationKeeps, BeginMarkKeeps, MarkSucceededKeeps, DeleteSubscriptionKeeps,
     MarkFailedKeeps
  DEF WorkerStep
<1>4. ASSUME NEW t \in Tx, DriverStep(t) PROVE MInv'
  BY <1>4, ConflictKeeps, CommitKeeps, CommitLostKeeps, GiveUpKeeps DEF DriverStep
<1>5. CASE UNCHANGED vars
  <2>1. UNCHANGED <<stick, open, subs, rows, nextToken, tx>>
    BY <1>5 DEF vars, data
  <2>2. TypeOK' /\ TokensKnown' /\ Isolated'
    BY <2>1 DEF MInv, TypeOK, TokensKnown, Isolated, Active
  <2>3. Subscribed' = Subscribed /\ Ended' = Ended /\ \A t : Seen(t)' = Seen(t)
    BY <2>1 DEF Subscribed, Ended, Seen
  <2>4. \A t \in Tx : SnapshotKept(t)'
    BY <2>1 DEF MInv, TxOK, SnapshotKept, Active
  <2>5. ASSUME NEW r \in Requests PROVE RequestOK(r)'
    BY <2>1, <2>3, Sessions
    DEF MInv, TxOK, RequestOK, StickKept, RequestShape, SeenKept, UserDocKept, TokenUnused,
        AppliedOnce
  <2>6. ASSUME NEW w \in Workers PROVE WorkerOK(w)'
    BY <2>1, Sessions DEF MInv, TxOK, WorkerOK, WorkerShape, GenerationKept
  <2> QED
    BY <2>2, <2>4, <2>5, <2>6 DEF MInv, TxOK
<1> QED
  BY <1>1, <1>2, <1>3, <1>4, <1>5 DEF Next, Ops

\* Whatever the number of sessions, an open transaction commits only what its
\* snapshot and the write conflicts of the server have kept true.
THEOREM MongoInvariant == Spec => []MInv
<1> QED
  BY InitMInv, NextKeepsMInv, PTL DEF Spec

\* A request that was answered with success was applied once, one that was
\* refused was not, however often its callback ran and its commit was sent.
THEOREM AnswersAreTrueHolds == Spec => []AnswersAreTrue
<1>1. MInv => AnswersAreTrue
  BY Sessions DEF MInv, TxOK, RequestOK, AppliedOnce, AnswersAreTrue
<1> QED
  BY <1>1, MongoInvariant, PTL

-----------------------------------------------------------------------------
(* Each transaction is one step of the contract. *)

\* The notifications as the contract has them.
LEMMA QueuedRowsShape ==
    /\ DOMAIN QueuedRows = 1..Len(rows)
    /\ \A n \in 1..Len(rows) :
          /\ QueuedRows[n] = [user |-> rows[n].user, generation |-> rows[n].generation,
                              settled |-> rows[n].status = "succeeded"]
          /\ QueuedRows[n].user = rows[n].user
          /\ QueuedRows[n].generation = rows[n].generation
          /\ QueuedRows[n].settled <=> rows[n].status = "succeeded"
  BY DEF QueuedRows

\* The same after the step.
LEMMA QueuedRowsShapeNext ==
    /\ DOMAIN QueuedRows' = 1..Len(rows')
    /\ \A n \in 1..Len(rows') :
          /\ QueuedRows'[n] = [user |-> rows'[n].user, generation |-> rows'[n].generation,
                               settled |-> rows'[n].status = "succeeded"]
          /\ QueuedRows'[n].user = rows'[n].user
          /\ QueuedRows'[n].generation = rows'[n].generation
          /\ QueuedRows'[n].settled <=> rows'[n].status = "succeeded"
  BY DEF QueuedRows

\* A step that neither adds nor settles a notification, and leaves the stick,
\* its sessions and its subscriptions alone, is no step of the contract.
LEMMA ContractStutters ==
    ASSUME UNCHANGED <<stick, open, subs>>, Len(rows') = Len(rows),
           \A n \in 1..Len(rows) : /\ rows'[n].user = rows[n].user
                                   /\ rows'[n].generation = rows[n].generation
                                   /\ rows'[n].status = "succeeded" <=> rows[n].status = "succeeded"
    PROVE  UNCHANGED Contract!vars
<1>1. QueuedRows' = QueuedRows
  BY DEF QueuedRows
<1> QED
  BY <1>1 DEF Contract!vars

\* The commit of a release: a notification for every subscription.
LEMMA ReleaseContract ==
    ASSUME MInv, NEW r \in Requests, tx[r].pc \in Ending, tx[r].op = "release", Apply(r)
    PROVE  Contract!Release
<1> DEFINE t == tx[r]
<1>0. /\ TypeOK /\ RequestOK(r) /\ Len(rows) \in Nat /\ t.pc \in Inside
      /\ stick' = [version |-> stick.version + 1, held |-> t.op = "claim"] /\ UNCHANGED subs
      /\ \A e \in t.queued : e \in Subscribed \cup Ended
  BY RowTypes, RequestApplies, Sessions DEF MInv, TxOK, Ending, Inside
<1>1. stick.held /\ open' = open - 1
  <2>1. stick.held
    BY <1>0 DEF RequestOK, StickKept
  <2>2. open \in Int
    BY <1>0 DEF TypeOK
  <2> QED
    BY <2>1, <2>2 DEF Apply
<1>2. Subscribed \subseteq t.queued
  <2> SUFFICES ASSUME NEW u \in Users, subs[u] # NoToken PROVE <<u, subs[u]>> \in t.queued
    BY DEF Subscribed
  <2>1. t.seen[u] = subs[u]
    BY <1>0 DEF RequestOK, SeenKept
  <2>2. t.queued = Seen(r)
    BY <1>0 DEF RequestOK, RequestShape
  <2> QED
    BY <2>1, <2>2 DEF Seen
<1>3. /\ Len(rows') \in Nat /\ Len(rows') >= Len(rows)
      /\ \A n \in 1..Len(rows) : n \in 1..Len(rows') /\ rows'[n] = rows[n]
      /\ \A n \in (Len(rows) + 1)..Len(rows') : \E e \in t.queued : rows'[n] = NewRow(e)
      /\ \A e \in t.queued : \E n \in (Len(rows) + 1)..Len(rows') : rows'[n] = NewRow(e)
      /\ \A m, n \in (Len(rows) + 1)..Len(rows') : rows'[m].user = rows'[n].user => m = n
  BY <1>0, ApplyAppends, QueuedFits
<1>4. \A e \in t.queued : e = <<e[1], e[2]>> /\ NewRow(e).user = e[1] /\ NewRow(e).generation = e[2]
                          /\ NewRow(e).status = "pending"
  BY QueuedFits DEF NewRow
<1>5. Contract!Subscriptions = Subscribed
  BY DEF Contract!Subscriptions, Subscribed
<1>6. Ended \subseteq Contract!Entries(Contract!Settled)
  <2> SUFFICES ASSUME NEW n \in 1..Len(rows), rows[n].status = "succeeded"
               PROVE  <<rows[n].user, rows[n].generation>> \in Contract!Entries(Contract!Settled)
    BY DEF Ended
  <2>1. n \in Contract!Settled
    BY QueuedRowsShape DEF Contract!Settled
  <2> QED
    BY <2>1, QueuedRowsShape DEF Contract!Entries
<1>7. Contract!Added = (Len(rows) + 1)..Len(rows')
  <2>1. Contract!Added = (1..Len(rows')) \ (1..Len(rows))
    BY QueuedRowsShape, QueuedRowsShapeNext DEF Contract!Added
  <2> QED
    BY <1>0, <1>3, <2>1
<1>8. \A n \in DOMAIN QueuedRows : n \in DOMAIN QueuedRows' /\ QueuedRows'[n] = QueuedRows[n]
  BY <1>3, QueuedRowsShape, QueuedRowsShapeNext
<1>9. \A n \in Contract!Added :
         /\ n \in 1..Len(rows')
         /\ QueuedRows'[n].user = rows'[n].user /\ QueuedRows'[n].generation = rows'[n].generation
         /\ QueuedRows'[n].settled <=> rows'[n].status = "succeeded"
  BY <1>0, <1>3, <1>7, QueuedRowsShapeNext
<1>10. ASSUME NEW n \in Contract!Added
       PROVE  /\ ~QueuedRows'[n].settled
              /\ <<QueuedRows'[n].user, QueuedRows'[n].generation>>
                    \in Contract!Subscriptions \cup Contract!Entries(Contract!Settled)
  <2>1. PICK e \in t.queued : rows'[n] = NewRow(e)
    BY <1>3, <1>7
  <2> QED
    BY <1>0, <1>4, <1>5, <1>6, <1>9, <2>1
<1>11. ASSUME NEW e \in Contract!Subscriptions
       PROVE  \E n \in Contract!Added : <<QueuedRows'[n].user, QueuedRows'[n].generation>> = e
  <2>1. e \in t.queued
    BY <1>2, <1>5
  <2>2. PICK n \in (Len(rows) + 1)..Len(rows') : rows'[n] = NewRow(e)
    BY <1>3, <2>1
  <2> QED
    BY <1>4, <1>7, <1>9, <2>1, <2>2
<1>12. \A m, n \in Contract!Added :
          QueuedRows'[m].user = QueuedRows'[n].user
              /\ QueuedRows'[m].generation = QueuedRows'[n].generation => m = n
  BY <1>3, <1>7, <1>9
<1>13. stick'.held = FALSE /\ stick'.version = stick.version + 1 /\ subs' = subs
  <2>1. (t.op = "claim") = FALSE
    OBVIOUS
  <2>2. stick' = [version |-> stick.version + 1, held |-> FALSE]
    BY <1>0, <2>1
  <2> QED
    BY <1>0, <2>2
<1> QED
  BY <1>1, <1>8, <1>10, <1>11, <1>12, <1>13 DEF Contract!Release

\* The commit of a request.
LEMMA RequestContract ==
    ASSUME MInv, NEW r \in Requests, tx[r].pc \in Ending, Apply(r)
    PROVE  Contract!Next
<1> DEFINE t == tx[r]
<1>0. /\ TypeOK /\ RequestOK(r) /\ t.pc \in Inside /\ open \in Int
      /\ stick.version \in Nat /\ stick.version > 0 /\ subs \in [Users -> Nat]
  BY Sessions DEF MInv, TypeOK, TxOK, Ending, Inside
<1>1. /\ t.user \in Users /\ t.op \in Ops
      /\ t.op # "release" => UNCHANGED rows
      /\ t.op \in {"claim", "release"} =>
            stick' = [version |-> stick.version + 1, held |-> t.op = "claim"] /\ UNCHANGED subs
      /\ t.op = "subscribe" => UNCHANGED stick /\ subs' = [subs EXCEPT ![t.user] = t.token]
      /\ t.op = "unsubscribe" => UNCHANGED stick /\ subs' = [subs EXCEPT ![t.user] = NoToken]
  BY RequestApplies
<1>2. /\ t.op = "claim" => ~stick.held /\ open' = open + 1
      /\ t.op \in {"subscribe", "unsubscribe"} => open' = open
  BY <1>0 DEF RequestOK, StickKept, Apply
<1>3. CASE t.op = "claim"
  <2>1. QueuedRows' = QueuedRows
    BY <1>1, <1>3 DEF QueuedRows
  <2>2. stick' = [version |-> stick.version + 1, held |-> TRUE]
    <3>1. (t.op = "claim") = TRUE
      BY <1>3
    <3> QED
      BY <1>1, <3>1
  <2>3. stick'.held = TRUE /\ stick'.version = stick.version + 1 /\ subs' = subs
    BY <1>1, <1>3, <2>2
  <2>4. Contract!Claim
    BY <1>0, <1>2, <1>3, <2>1, <2>3 DEF Contract!Claim
  <2> QED
    BY <2>4 DEF Contract!Next
<1>4. CASE t.op = "subscribe"
  <2>1. QueuedRows' = QueuedRows
    BY <1>1, <1>4 DEF QueuedRows
  <2>2. subs'[t.user] = t.token
    BY <1>0, <1>1, <1>4
  <2>3. Contract!Fresh(t.token)
    BY <1>0, <1>4, QueuedRowsShape DEF RequestOK, TokenUnused, Contract!Fresh
  <2>4. Contract!Subscribe(t.user)
    BY <1>0, <1>1, <1>2, <1>4, <2>1, <2>2, <2>3 DEF Contract!Subscribe
  <2> QED
    BY <1>1, <2>4 DEF Contract!Next
<1>5. CASE t.op = "unsubscribe"
  <2>1. QueuedRows' = QueuedRows
    BY <1>1, <1>5 DEF QueuedRows
  <2>2. Contract!Unsubscribe(t.user)
    BY <1>1, <1>2, <1>5, <2>1 DEF Contract!Unsubscribe
  <2> QED
    BY <1>1, <2>2 DEF Contract!Next
<1>6. CASE t.op = "release"
  BY <1>6, ReleaseContract DEF Contract!Next
<1> QED
  BY <1>1, <1>3, <1>4, <1>5, <1>6 DEF Ops

\* The commit of a recorded delivery.
LEMMA WorkerContract ==
    ASSUME MInv, NEW w \in Workers, tx[w].pc \in Ending, Apply(w)
    PROVE  Contract!Next
<1> DEFINE n == tx[w].row
           user == rows[n].user
<1>0. TypeOK
  BY DEF MInv
<1>1. /\ n \in 1..Len(rows) /\ rows[n].status # "succeeded"
      /\ RowSet(n, "succeeded", NoToken) /\ UNCHANGED <<stick, open, nextToken>>
      /\ subs' = IF subs[user] = rows[n].generation THEN [subs EXCEPT ![user] = NoToken] ELSE subs
  BY WorkerApplies
<1>2. NoToken \in Nat /\ "succeeded" \in Statuses
  BY DEF Statuses, NoToken
<1> HIDE DEF n
<1>3. /\ Len(rows') = Len(rows) /\ rows'[n].status = "succeeded"
      /\ \A m \in 1..Len(rows) : /\ rows'[m].user = rows[m].user
                                 /\ rows'[m].generation = rows[m].generation
                                 /\ m # n => rows'[m] = rows[m]
  BY <1>0, <1>1, <1>2, RowSetEffect
<1>4. QueuedRows' = [QueuedRows EXCEPT ![n].settled = TRUE]
  <2> DEFINE new == [QueuedRows[n] EXCEPT !.settled = TRUE]
  <2>1. new = [user |-> rows[n].user, generation |-> rows[n].generation, settled |-> TRUE]
    <3>1. ASSUME NEW u, NEW g, NEW b, NEW c
          PROVE  [[user |-> u, generation |-> g, settled |-> b] EXCEPT !.settled = c]
                     = [user |-> u, generation |-> g, settled |-> c]
      OBVIOUS
    <3> DEFINE before == rows[n].status = "succeeded"
    <3>2. QueuedRows[n] = [user |-> rows[n].user, generation |-> rows[n].generation, settled |-> before]
      BY <1>1, QueuedRowsShape
    <3> HIDE DEF before
    <3>3. [[user |-> rows[n].user, generation |-> rows[n].generation, settled |-> before] EXCEPT !.settled = TRUE]
              = [user |-> rows[n].user, generation |-> rows[n].generation, settled |-> TRUE]
      BY ONLY <3>1, Zenon
    <3> QED
      BY ONLY <3>2, <3>3, Zenon DEF new
  <2>2. QueuedRows'[n] = [user |-> rows[n].user, generation |-> rows[n].generation, settled |-> TRUE]
    BY <1>1, <1>3, QueuedRowsShapeNext
  <2>3. \A m \in 1..Len(rows) : m # n => QueuedRows'[m] = QueuedRows[m]
    BY <1>3, QueuedRowsShape, QueuedRowsShapeNext
  <2>4. QueuedRows' = [m \in 1..Len(rows) |-> QueuedRows'[m]]
    BY <1>3 DEF QueuedRows
  <2>5. QueuedRows = [m \in 1..Len(rows) |-> QueuedRows[m]]
    BY DEF QueuedRows
  <2>6. QueuedRows' = [QueuedRows EXCEPT ![n] = new]
    BY <1>1, <2>1, <2>2, <2>3, <2>4, <2>5
  <2> QED
    BY <2>6
<1>5. n \in DOMAIN QueuedRows /\ ~QueuedRows[n].settled
      /\ QueuedRows[n].user = user /\ QueuedRows[n].generation = rows[n].generation
  BY <1>1, QueuedRowsShape
<1>6. Contract!Settle(n)
  BY <1>1, <1>4, <1>5 DEF Contract!Settle
<1> QED
  BY <1>5, <1>6 DEF Contract!Next

\* Every other operation changes nothing the contract shows.
LEMMA StepContract == MInv /\ [Next]_vars => [Contract!Next]_(Contract!vars)
<1> SUFFICES ASSUME MInv, [Next]_vars PROVE Contract!Next \/ UNCHANGED Contract!vars
  OBVIOUS
<1>1. CASE UNCHANGED <<stick, open, subs, rows>>
  BY <1>1, ContractStutters
<1>2. ASSUME NEW t \in Tx, tx[t].pc \in Ending, Apply(t) PROVE Contract!Next
  BY <1>2, RequestContract, WorkerContract DEF Tx
<1>3. ASSUME NEW n \in 1..Len(rows), rows[n].status # "succeeded",
             NEW status \in {"in_progress", "failed"}, NEW token \in Nat,
             RowSet(n, status, token), UNCHANGED <<stick, open, subs>>
      PROVE  UNCHANGED Contract!vars
  <2>1. TypeOK /\ status \in Statuses
    BY DEF MInv, Statuses
  <2>2. /\ Len(rows') = Len(rows) /\ rows'[n].status = status
        /\ \A m \in 1..Len(rows) : /\ rows'[m].user = rows[m].user
                                   /\ rows'[m].generation = rows[m].generation
                                   /\ m # n => rows'[m] = rows[m]
    BY <1>3, <2>1, RowSetEffect
  <2>3. \A m \in 1..Len(rows) : rows'[m].status = "succeeded" <=> rows[m].status = "succeeded"
    BY <1>3, <2>2
  <2> QED
    BY <1>3, <2>2, <2>3, ContractStutters
<1>4. ASSUME NEW w \in Workers, ClaimNotification(w) PROVE UNCHANGED Contract!vars
  <2>1. PICK n \in 1..Len(rows) :
           /\ Deliverable(n)
           /\ rows' = [rows EXCEPT ![n].status = "in_progress", ![n].token = nextToken]
    BY <1>4 DEF ClaimNotification
  <2>2. RowSet(n, "in_progress", nextToken) /\ nextToken \in Nat /\ UNCHANGED <<stick, open, subs>>
    BY <1>4, <2>1 DEF RowSet, ClaimNotification, MInv, TypeOK
  <2>3. rows[n].status # "succeeded"
    BY <2>1 DEF Deliverable
  <2> QED
    BY <1>3, <2>2, <2>3
<1>5. ASSUME NEW w \in Workers, MarkNotificationFailed(w)
      PROVE  UNCHANGED Contract!vars \/ UNCHANGED <<stick, open, subs, rows>>
  <2>1. CASE Abort(w, "claim lost")
    BY <2>1 DEF Abort, data
  <2>2. CASE /\ HoldsClaim(w)
             /\ rows' = [rows EXCEPT ![tx[w].row].status = "failed", ![tx[w].row].token = NoToken]
             /\ UNCHANGED <<stick, open, subs, nextToken>>
    <3>1. tx[w].row \in 1..Len(rows) /\ rows[tx[w].row].status # "succeeded"
      BY <1>5, <2>2, Sessions DEF MInv, TxOK, WorkerOK, WorkerShape, MarkNotificationFailed, HoldsClaim
    <3>2. RowSet(tx[w].row, "failed", NoToken) /\ NoToken \in Nat
      BY <2>2 DEF RowSet, NoToken
    <3> QED
      BY <1>3, <2>2, <3>1, <3>2
  <2> QED
    BY <1>5, <2>1, <2>2 DEF MarkNotificationFailed
<1>6. ASSUME NEW r \in Requests, RequestStep(r) PROVE UNCHANGED <<stick, open, subs, rows>>
  BY <1>6 DEF RequestStep, GetStick, SaveStick, CreateSession, CloseSession,
     EnqueueReleaseNotifications, Subscribe, Unsubscribe, Abort, Write, data
<1>7. ASSUME NEW w \in Workers, WorkerStep(w)
      PROVE  \/ ClaimNotification(w) \/ MarkNotificationFailed(w)
             \/ UNCHANGED <<stick, open, subs, rows>>
  BY <1>7 DEF WorkerStep, BeginMark, MarkNotificationSucceeded, DeleteSubscription, Abort, Write, data
<1>8. ASSUME NEW t \in Tx, DriverStep(t)
      PROVE  (tx[t].pc \in Ending /\ Apply(t)) \/ UNCHANGED <<stick, open, subs, rows>>
  BY <1>8 DEF DriverStep, Conflict, Commit, CommitLost, RetryCommit, GiveUp, Abort, Ending, data
<1>9. ASSUME NEW r \in Requests, NEW u \in Users, NEW op, Begin(r, op, u)
      PROVE  UNCHANGED <<stick, open, subs, rows>>
  BY <1>9 DEF Begin, data
<1>10. UNCHANGED vars => UNCHANGED <<stick, open, subs, rows>>
  BY DEF vars, data
<1> QED
  BY <1>1, <1>2, <1>4, <1>5, <1>6, <1>7, <1>8, <1>9, <1>10 DEF Next

\* However the transactions of any number of requests and workers overlap,
\* are run again, or lose their commits, MongoDB's documents change as if each
\* transaction (mongodb.Store's WithTx and MarkNotificationSucceeded) were one
\* step of the contract.
THEOREM MongoImplementsContract == Spec => ImplementsContract
<1>1. Init => Contract!Init
  <2> SUFFICES ASSUME Init PROVE Contract!Init
    OBVIOUS
  <2>1. DOMAIN QueuedRows = {}
    BY QueuedRowsShape DEF Init
  <2> QED
    BY <2>1 DEF Init, Contract!Init
<1> QED
  BY <1>1, StepContract, MongoInvariant, PTL DEF Spec, ImplementsContract, Contract!Spec

=============================================================================
