-------------------------- MODULE OutboxStoreProofs --------------------------
(***************************************************************************)
(* Every statement on the notification tables keeps them well typed.        *)
(***************************************************************************)
EXTENDS OutboxStore, TLAPS, SequenceTheorems, FiniteSetTheorems

\* The empty tables of a new database are well typed.
LEMMA OutboxInitType == OutboxInit => OutboxTypeOK
  BY EmptySeq DEF OutboxInit, OutboxTypeOK, NoToken

\* Subscribing stores a fresh, non-null generation token.
LEMMA SubscribeType ==
  ASSUME OutboxTypeOK, NEW id \in StickIDs, NEW user \in Users, Subscribe(id, user)
  PROVE  OutboxTypeOK'
  BY DEF OutboxTypeOK, Subscribe, NoToken

\* Unsubscribing stores none.
LEMMA UnsubscribeType ==
  ASSUME OutboxTypeOK, NEW id \in StickIDs, NEW user \in Users, Unsubscribe(id, user)
  PROVE  OutboxTypeOK'
  BY DEF OutboxTypeOK, Unsubscribe, NoToken

\* What EnqueueReleaseNotifications adds: the old rows stay where they are,
\* every new one is the fresh row of a current subscriber, and every
\* subscriber gets exactly one.
LEMMA EnqueueAppends ==
  ASSUME OutboxTypeOK, NEW id \in StickIDs, NEW held \in Nat, NEW at \in Nat,
         EnqueueReleaseNotifications(id, held, at)
  PROVE  /\ OutboxTypeOK'
         /\ Len(outbox') >= Len(outbox)
         /\ \A n \in 1..Len(outbox) : outbox'[n] = outbox[n]
         /\ \A n \in (Len(outbox) + 1)..Len(outbox') :
               \E u \in Subscribers(id) : outbox'[n] = NewRow(id, u, held, at)
         /\ \A u \in Subscribers(id) :
               \E n \in (Len(outbox) + 1)..Len(outbox') : outbox'[n] = NewRow(id, u, held, at)
         /\ \A m, n \in (Len(outbox) + 1)..Len(outbox') :
               outbox'[m].recipient = outbox'[n].recipient => m = n
<1> DEFINE subs == Subscribers(id)
           k == Cardinality(subs)
<1>1. IsFiniteSet(subs)
  BY FS_Subset, TypesAssumption DEF Subscribers
<1>2. k \in Nat
  BY <1>1, FS_CardinalityType
<1>3. PICK order \in Bijection(1..k, subs) :
         outbox' = outbox \o [i \in DOMAIN order |-> NewRow(id, order[i], held, at)]
  BY DEF EnqueueReleaseNotifications
<1> DEFINE rows == [i \in 1..k |-> NewRow(id, order[i], held, at)]
<1>4. order \in [1..k -> subs]
  BY DEF Bijection, Injection
<1>5. outbox' = outbox \o rows
  BY <1>3, <1>4
<1>6. \A i \in 1..k : NewRow(id, order[i], held, at) \in Row
  BY <1>4 DEF NewRow, Row, Subscribers, OutboxTypeOK, NoToken
<1>7. rows \in Seq(Row)
  BY <1>2, <1>6, IsASeq
<1>8. Len(rows) = k /\ outbox \in Seq(Row) /\ Len(outbox) \in Nat
  BY <1>2, <1>7, LenProperties DEF OutboxTypeOK
<1>13. \A i \in 1..k : rows[i] = NewRow(id, order[i], held, at)
  OBVIOUS
<1> HIDE DEF k, subs, rows
<1>9. /\ outbox' \in Seq(Row)
      /\ Len(outbox') = Len(outbox) + k
      /\ \A i \in 1..(Len(outbox) + k) :
            outbox'[i] = IF i <= Len(outbox) THEN outbox[i] ELSE rows[i - Len(outbox)]
  BY <1>5, <1>7, <1>8, ConcatProperties
<1>10. OutboxTypeOK'
  BY <1>9 DEF EnqueueReleaseNotifications, OutboxTypeOK
<1>11. \A n \in (Len(outbox) + 1)..Len(outbox') :
          outbox'[n] = NewRow(id, order[n - Len(outbox)], held, at)
  BY <1>2, <1>8, <1>9, <1>13
<1>12. \A n \in (Len(outbox) + 1)..Len(outbox') : order[n - Len(outbox)] \in subs
  BY <1>2, <1>4, <1>8, <1>9
<1>14. Len(outbox') >= Len(outbox)
  BY <1>2, <1>8, <1>9
<1>15. \A n \in 1..Len(outbox) : outbox'[n] = outbox[n]
  BY <1>2, <1>8, <1>9
<1>16. \A n \in (Len(outbox) + 1)..Len(outbox') :
          \E u \in Subscribers(id) : outbox'[n] = NewRow(id, u, held, at)
  BY <1>11, <1>12 DEF subs
<1>17. \A u \in subs : \E n \in (Len(outbox) + 1)..Len(outbox') :
          outbox'[n] = NewRow(id, u, held, at)
  <2> SUFFICES ASSUME NEW u \in subs
               PROVE  \E n \in (Len(outbox) + 1)..Len(outbox') :
                          outbox'[n] = NewRow(id, u, held, at)
    OBVIOUS
  <2>1. PICK i \in 1..k : order[i] = u
    BY DEF Bijection, Surjection
  <2>2. /\ i + Len(outbox) \in (Len(outbox) + 1)..Len(outbox')
        /\ (i + Len(outbox)) - Len(outbox) = i
    BY <1>2, <1>8, <1>9
  <2> QED
    BY <1>11, <2>1, <2>2
<1>18. ASSUME NEW m \in (Len(outbox) + 1)..Len(outbox'),
              NEW n \in (Len(outbox) + 1)..Len(outbox'),
              outbox'[m].recipient = outbox'[n].recipient
       PROVE  m = n
  <2>1. order[m - Len(outbox)] = order[n - Len(outbox)]
    <3>1. \A u : NewRow(id, u, held, at).recipient = u
      BY DEF NewRow
    <3> QED
      BY <1>11, <1>18, <3>1
  <2>2. m - Len(outbox) \in 1..k /\ n - Len(outbox) \in 1..k
    BY <1>2, <1>8, <1>9
  <2>3. m - Len(outbox) = n - Len(outbox)
    BY <2>1, <2>2, <1>4 DEF Bijection, Injection, IsInjective
  <2> QED
    BY <1>8, <1>9, <2>3
<1> QED
  BY <1>10, <1>14, <1>15, <1>16, <1>17, <1>18 DEF subs

\* Replacing one row by another keeps the table a table of rows.
LEMMA ReplaceRow ==
  ASSUME OutboxTypeOK, NEW n \in DOMAIN outbox, NEW row \in Row,
         outbox' = [outbox EXCEPT ![n] = row]
  PROVE  /\ outbox' \in Seq(Row)
         /\ DOMAIN outbox' = DOMAIN outbox
         /\ outbox'[n] = row
         /\ \A m \in DOMAIN outbox : m # n => outbox'[m] = outbox[m]
  BY ExceptSeq, LenProperties DEF OutboxTypeOK

\* A claimed row is a row.
LEMMA ClaimedRow ==
  ASSUME NEW row \in Row, NEW token \in Nat, NEW now \in Nat
  PROVE  Claimed(row, token, now) \in Row
<1> DEFINE tried == row.attempts + 1
<1>1. tried \in Nat
  BY DEF Row
<1> HIDE DEF tried
<1>2. [row EXCEPT !.status = "in_progress", !.attempts = tried,
                  !.claimToken = token, !.claimedAt = now] \in Row
  BY <1>1 DEF Row, NoToken
<1> QED
  BY <1>2 DEF Claimed, tried

\* Claiming stores a fresh token and the time of the claim, in one row.
LEMMA ClaimType ==
  ASSUME OutboxTypeOK, NEW n \in DOMAIN outbox, NEW now \in Nat, ClaimNotification(n, now)
  PROVE  /\ OutboxTypeOK'
         /\ DOMAIN outbox' = DOMAIN outbox
         /\ outbox'[n] = Claimed(outbox[n], nextToken, now)
         /\ \A m \in DOMAIN outbox : m # n => outbox'[m] = outbox[m]
<1>1. outbox[n] \in Row
  BY ElementOfSeq, LenProperties DEF OutboxTypeOK
<1>2. Claimed(outbox[n], nextToken, now) \in Row
  BY <1>1, ClaimedRow DEF OutboxTypeOK
<1> QED
  BY <1>2, ReplaceRow DEF ClaimNotification, OutboxTypeOK, NoToken

\* Recording a success settles one row.
LEMMA MarkSucceededType ==
  ASSUME OutboxTypeOK, NEW n \in DOMAIN outbox, NEW token,
         MarkNotificationSucceeded(n, token)
  PROVE  /\ OutboxTypeOK'
         /\ DOMAIN outbox' = DOMAIN outbox
         /\ outbox'[n] = Settled(outbox[n], "succeeded", 0)
         /\ \A m \in DOMAIN outbox : m # n => outbox'[m] = outbox[m]
<1>1. outbox[n] \in Row
  BY ElementOfSeq, LenProperties DEF OutboxTypeOK
<1>2. Settled(outbox[n], "succeeded", 0) \in Row
  BY <1>1 DEF Settled, Row, NoToken
<1>3. subscriptions' \in [StickIDs -> [Users -> Nat]]
  BY <1>1 DEF MarkNotificationSucceeded, OutboxTypeOK, Row, NoToken
<1> QED
  BY <1>2, <1>3, ReplaceRow DEF MarkNotificationSucceeded, OutboxTypeOK

\* Recording a failure settles one row until its retry time.
LEMMA MarkFailedType ==
  ASSUME OutboxTypeOK, NEW n \in DOMAIN outbox, NEW token, NEW at \in Nat,
         MarkNotificationFailed(n, token, at)
  PROVE  /\ OutboxTypeOK'
         /\ DOMAIN outbox' = DOMAIN outbox
         /\ outbox'[n] = Settled(outbox[n], "failed", at)
         /\ \A m \in DOMAIN outbox : m # n => outbox'[m] = outbox[m]
<1>1. outbox[n] \in Row
  BY ElementOfSeq, LenProperties DEF OutboxTypeOK
<1>2. Settled(outbox[n], "failed", at) \in Row
  BY <1>1 DEF Settled, Row, NoToken
<1> QED
  BY <1>2, ReplaceRow DEF MarkNotificationFailed, OutboxTypeOK
=============================================================================
