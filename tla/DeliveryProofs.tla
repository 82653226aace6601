--------------------------- MODULE DeliveryProofs ---------------------------
(***************************************************************************)
(* Proofs about Delivery, for any number of sessions, rows, attempts and   *)
(* host crashes.  One lemma per conjunct of IInv shows that every step     *)
(* keeps it; the theorems follow.                                          *)
(***************************************************************************)
EXTENDS Delivery, TLAPS

\* Every step of every action keeps the types.
LEMMA TypeStep == TypeOK /\ [Next]_vars => TypeOK'
<1> SUFFICES ASSUME TypeOK, [Next]_vars PROVE TypeOK'
  OBVIOUS
<1> USE DeliveryAssumption DEF TypeOK, PCs
<1>1. ASSUME NEW r \in Rows, Write(r) PROVE TypeOK'
  BY <1>1 DEF Write, poller, history
<1>2. ASSUME NEW s \in Sessions, Close(s) PROVE TypeOK'
  BY <1>2 DEF Close, poller, history
<1>3. ASSUME NEW p \in Pollers, Poll(p) PROVE TypeOK'
  <2>1. CASE Tick(p)      BY <2>1 DEF Tick, disk, history
  <2>2. CASE Rearm(p)     BY <2>2 DEF Rearm, disk, history
  <2>3. ASSUME NEW s \in Sessions, Enter(p, s) PROVE TypeOK'
    BY <2>3 DEF Enter, disk, history
  <2>4. ASSUME NEW s \in Sessions, Skip(p, s) PROVE TypeOK'
    BY <2>4 DEF Skip, disk, history
  <2>5. CASE OpenDbs(p)
    BY <2>5 DEF OpenDbs, disk, history, Undelivered, DeliveredIds, Written
  <2>6. CASE Begin(p)     BY <2>6 DEF Begin, disk, history
  <2>7. CASE Taken(p)     BY <2>7 DEF Taken, disk
  <2>8. CASE PassSilently(p) BY <2>8 DEF PassSilently, disk, history
  <2>9. CASE MarkDelivered(p) BY <2>9 DEF MarkDelivered, Record
  <2>10. CASE Fan(p)      BY <2>10 DEF Fan, disk
  <2>11. CASE Throw(p)
    <3>1. PICK r \in left[p] :
            /\ misses' = [misses EXCEPT ![r] = @ + 1]
            /\ IF attempts[r] + 1 >= MaxAttempts
               THEN /\ verdict' = Record(r, "failed")
                    /\ attempts' = [attempts EXCEPT ![r] = 0]
               ELSE /\ attempts' = [attempts EXCEPT ![r] = @ + 1]
                    /\ UNCHANGED verdict
            /\ left' = [left EXCEPT ![p] = @ \ {r}]
      BY <2>11 DEF Throw, LastAttempt
    <3>2. r \in Rows
      OBVIOUS
    <3>3. verdict' \in [Rows -> {"none", "delivered", "failed"}]
      BY <3>1, <3>2 DEF Record
    <3>4. attempts' \in [Rows -> 0 .. MaxAttempts - 1]
      BY <3>1, <3>2
    <3> QED
      BY <2>11, <3>1, <3>2, <3>3, <3>4 DEF Throw
  <2>12. CASE Leave(p)    BY <2>12 DEF Leave, Released, disk, history
  <2> QED
    BY <1>3, <2>1, <2>2, <2>3, <2>4, <2>5, <2>6, <2>7, <2>8, <2>9, <2>10,
       <2>11, <2>12 DEF Poll
<1>4. CASE Crash
  BY <1>4 DEF Crash, Everywhere, disk
<1>5. CASE UNCHANGED vars
  BY <1>5 DEF vars, disk, poller, history
<1> QED
  BY <1>1, <1>2, <1>3, <1>4, <1>5 DEF Next

\* The row the for loop of a drain is at is one row.
LEMMA HeadUnique ==
  ASSUME IInv, NEW p \in Pollers, NEW r, NEW q,
         r \in left[p], q \in left[p], IsHead(r, left[p]), IsHead(q, left[p])
  PROVE  r = q
<1>1. r \in Rows /\ q \in Rows /\ Owner[r] = cur[p] /\ Owner[q] = cur[p]
  BY DEF IInv, TypeOK, LeftUnsettled, Remaining
<1>2. stamp[r] <= stamp[q] /\ stamp[q] <= stamp[r] /\ stamp[r] > 0
  BY DEF IInv, LeftUnsettled, Remaining, IsHead
<1>3. stamp[r] = stamp[q]
  BY <1>1, <1>2 DEF IInv, TypeOK
<1> QED
  BY <1>1, <1>2, <1>3 DEF IInv, StampsOrder

\* Two drains have no row in common.
LEMMA LeftsDisjoint ==
  ASSUME IInv, NEW p \in Pollers, NEW w \in Pollers, p # w
  PROVE  left[p] \cap left[w] = {}
<1> SUFFICES ASSUME NEW r \in left[p], r \in left[w] PROVE FALSE
  OBVIOUS
<1>1. cur[p] = Owner[r] /\ cur[w] = Owner[r]
  BY DEF IInv, LeftUnsettled, Remaining
<1>2. cur[p] # NoSession
  BY DEF IInv, LeftUnsettled, Remaining, SessionsHeld
<1> QED
  BY <1>1, <1>2 DEF IInv, SessionsHeld, OneDrainPerSession

\* Enter takes a session nobody holds; only Leave and Crash let one go.
LEMMA SessionsHeldStep == IInv /\ [Next]_vars => SessionsHeld'
<1> SUFFICES ASSUME IInv, [Next]_vars PROVE SessionsHeld'
  OBVIOUS
<1> USE DeliveryAssumption DEF IInv, TypeOK, PCs
<1>1. ASSUME NEW r \in Rows, Write(r) PROVE SessionsHeld'
  BY <1>1 DEF Write, poller, history, SessionsHeld, OneDrainPerSession
<1>2. ASSUME NEW s \in Sessions, Close(s) PROVE SessionsHeld'
  BY <1>2 DEF Close, poller, history, SessionsHeld, OneDrainPerSession
<1>3. ASSUME NEW p \in Pollers, Tick(p) PROVE SessionsHeld'
  BY <1>3 DEF Tick, disk, history, SessionsHeld, OneDrainPerSession
<1>4. ASSUME NEW p \in Pollers, Rearm(p) PROVE SessionsHeld'
  BY <1>4 DEF Rearm, disk, history, SessionsHeld, OneDrainPerSession
<1>5. ASSUME NEW p \in Pollers, NEW s \in Sessions, Enter(p, s) PROVE SessionsHeld'
  BY <1>5 DEF Enter, disk, history, SessionsHeld, OneDrainPerSession, Free
<1>6. ASSUME NEW p \in Pollers, NEW s \in Sessions, Skip(p, s) PROVE SessionsHeld'
  BY <1>6 DEF Skip, disk, history, SessionsHeld, OneDrainPerSession
<1>7. ASSUME NEW p \in Pollers, OpenDbs(p) PROVE SessionsHeld'
  BY <1>7 DEF OpenDbs, disk, history, SessionsHeld, OneDrainPerSession
<1>8. ASSUME NEW p \in Pollers, Begin(p) PROVE SessionsHeld'
  BY <1>8 DEF Begin, disk, history, SessionsHeld, OneDrainPerSession
<1>9. ASSUME NEW p \in Pollers, Taken(p) PROVE SessionsHeld'
  BY <1>9 DEF Taken, disk, SessionsHeld, OneDrainPerSession
<1>10. ASSUME NEW p \in Pollers, PassSilently(p) PROVE SessionsHeld'
  BY <1>10 DEF PassSilently, disk, history, SessionsHeld, OneDrainPerSession
<1>11. ASSUME NEW p \in Pollers, MarkDelivered(p) PROVE SessionsHeld'
  BY <1>11 DEF MarkDelivered, SessionsHeld, OneDrainPerSession, Record
<1>12. ASSUME NEW p \in Pollers, Fan(p) PROVE SessionsHeld'
  BY <1>12 DEF Fan, disk, SessionsHeld, OneDrainPerSession
<1>13. ASSUME NEW p \in Pollers, Throw(p) PROVE SessionsHeld'
  BY <1>13 DEF Throw, SessionsHeld, OneDrainPerSession, Record, LastAttempt
<1>14. ASSUME NEW p \in Pollers, Leave(p) PROVE SessionsHeld'
  BY <1>14 DEF Leave, disk, history, SessionsHeld, OneDrainPerSession, Released
<1>15. CASE Crash
  BY <1>15 DEF Crash, disk, SessionsHeld, OneDrainPerSession, Everywhere
<1>16. CASE UNCHANGED vars
  BY <1>16 DEF vars, disk, poller, history, SessionsHeld, OneDrainPerSession
<1> QED
  BY <1>1, <1>2, <1>3, <1>4, <1>5, <1>6, <1>7, <1>8, <1>9, <1>10,
      <1>11, <1>12, <1>13, <1>14, <1>15, <1>16
  DEF Next, Poll

\* A new row is newer than every row of its session.
LEMMA StampsOrderStep == IInv /\ [Next]_vars => StampsOrder'
<1> SUFFICES ASSUME IInv, [Next]_vars PROVE StampsOrder'
  OBVIOUS
<1> USE DeliveryAssumption DEF IInv, TypeOK, PCs
<1>1. ASSUME NEW r \in Rows, Write(r) PROVE StampsOrder'
  BY <1>1 DEF Write, poller, history, StampsOrder
<1>2. ASSUME NEW s \in Sessions, Close(s) PROVE StampsOrder'
  BY <1>2 DEF Close, poller, history, StampsOrder
<1>3. ASSUME NEW p \in Pollers, Tick(p) PROVE StampsOrder'
  BY <1>3 DEF Tick, disk, history, StampsOrder
<1>4. ASSUME NEW p \in Pollers, Rearm(p) PROVE StampsOrder'
  BY <1>4 DEF Rearm, disk, history, StampsOrder
<1>5. ASSUME NEW p \in Pollers, NEW s \in Sessions, Enter(p, s) PROVE StampsOrder'
  BY <1>5 DEF Enter, disk, history, StampsOrder
<1>6. ASSUME NEW p \in Pollers, NEW s \in Sessions, Skip(p, s) PROVE StampsOrder'
  BY <1>6 DEF Skip, disk, history, StampsOrder
<1>7. ASSUME NEW p \in Pollers, OpenDbs(p) PROVE StampsOrder'
  BY <1>7 DEF OpenDbs, disk, history, StampsOrder
<1>8. ASSUME NEW p \in Pollers, Begin(p) PROVE StampsOrder'
  BY <1>8 DEF Begin, disk, history, StampsOrder
<1>9. ASSUME NEW p \in Pollers, Taken(p) PROVE StampsOrder'
  BY <1>9 DEF Taken, disk, StampsOrder
<1>10. ASSUME NEW p \in Pollers, PassSilently(p) PROVE StampsOrder'
  BY <1>10 DEF PassSilently, disk, history, StampsOrder
<1>11. ASSUME NEW p \in Pollers, MarkDelivered(p) PROVE StampsOrder'
  BY <1>11 DEF MarkDelivered, StampsOrder, Record
<1>12. ASSUME NEW p \in Pollers, Fan(p) PROVE StampsOrder'
  BY <1>12 DEF Fan, disk, StampsOrder
<1>13. ASSUME NEW p \in Pollers, Throw(p) PROVE StampsOrder'
  BY <1>13 DEF Throw, StampsOrder, Record, LastAttempt
<1>14. ASSUME NEW p \in Pollers, Leave(p) PROVE StampsOrder'
  BY <1>14 DEF Leave, disk, history, StampsOrder
<1>15. CASE Crash
  BY <1>15 DEF Crash, disk, StampsOrder, Everywhere
<1>16. CASE UNCHANGED vars
  BY <1>16 DEF vars, disk, poller, history, StampsOrder
<1> QED
  BY <1>1, <1>2, <1>3, <1>4, <1>5, <1>6, <1>7, <1>8, <1>9, <1>10,
      <1>11, <1>12, <1>13, <1>14, <1>15, <1>16
  DEF Next, Poll

\* Only the drain that holds a session settles its rows, head first.
LEMMA LeftUnsettledStep == IInv /\ [Next]_vars => LeftUnsettled'
<1> SUFFICES ASSUME IInv, [Next]_vars PROVE LeftUnsettled'
  OBVIOUS
<1> USE DeliveryAssumption DEF IInv, TypeOK, PCs
<1>1. ASSUME NEW r \in Rows, Write(r) PROVE LeftUnsettled'
  BY <1>1 DEF Write, poller, history, LeftUnsettled, Remaining, SessionsHeld, OneDrainPerSession, StampsOrder, IsHead
<1>2. ASSUME NEW s \in Sessions, Close(s) PROVE LeftUnsettled'
  BY <1>2 DEF Close, poller, history, LeftUnsettled, Remaining, SessionsHeld, OneDrainPerSession, StampsOrder, IsHead
<1>3. ASSUME NEW p \in Pollers, Tick(p) PROVE LeftUnsettled'
  BY <1>3 DEF Tick, disk, history, LeftUnsettled, Remaining, SessionsHeld, OneDrainPerSession, StampsOrder, IsHead
<1>4. ASSUME NEW p \in Pollers, Rearm(p) PROVE LeftUnsettled'
  BY <1>4 DEF Rearm, disk, history, LeftUnsettled, Remaining, SessionsHeld, OneDrainPerSession, StampsOrder, IsHead
<1>5. ASSUME NEW p \in Pollers, NEW s \in Sessions, Enter(p, s) PROVE LeftUnsettled'
  BY <1>5 DEF Enter, disk, history, LeftUnsettled, Remaining, SessionsHeld, OneDrainPerSession, StampsOrder, IsHead
<1>6. ASSUME NEW p \in Pollers, NEW s \in Sessions, Skip(p, s) PROVE LeftUnsettled'
  BY <1>6 DEF Skip, disk, history, LeftUnsettled, Remaining, SessionsHeld, OneDrainPerSession, StampsOrder, IsHead
<1>7. ASSUME NEW p \in Pollers, OpenDbs(p) PROVE LeftUnsettled'
  BY <1>7 DEF OpenDbs, disk, history, LeftUnsettled, Remaining, SessionsHeld, OneDrainPerSession, StampsOrder, IsHead, Undelivered, Written
<1>8. ASSUME NEW p \in Pollers, Begin(p) PROVE LeftUnsettled'
  BY <1>8 DEF Begin, disk, history, LeftUnsettled, Remaining, SessionsHeld, OneDrainPerSession, StampsOrder, IsHead
<1>9. ASSUME NEW p \in Pollers, Taken(p) PROVE LeftUnsettled'
  BY <1>9 DEF Taken, disk, LeftUnsettled, Remaining, SessionsHeld, OneDrainPerSession, StampsOrder, IsHead
<1>10. ASSUME NEW p \in Pollers, PassSilently(p) PROVE LeftUnsettled'
  BY <1>10 DEF PassSilently, disk, history, LeftUnsettled, Remaining, SessionsHeld, OneDrainPerSession, StampsOrder, IsHead
<1>11. ASSUME NEW p \in Pollers, MarkDelivered(p) PROVE LeftUnsettled'
  <2>1. PICK r \in left[p] :
       /\ IsHead(r, left[p])
       /\ verdict' = Record(r, "delivered")
       /\ IF UserFacing(r)
          THEN pc' = [pc EXCEPT ![p] = "fanning"] /\ UNCHANGED left
          ELSE /\ left' = [left EXCEPT ![p] = @ \ {r}]
               /\ pc' = [pc EXCEPT ![p] = "next"]
    BY <1>11 DEF MarkDelivered
  <2>2. pc[p] = "taken" /\ UNCHANGED <<stamp, cur, fans>>
    BY <1>11 DEF MarkDelivered
  <2>3. r \in Rows /\ verdict[r] = "none" /\ fans[r] = 0
    <3>1. r \in Rows /\ verdict[r] = "none"
      BY <2>2 DEF LeftUnsettled, Remaining
    <3>2. fans[r] \in Nat /\ fans[r] <= 1 /\ fans[r] # 1
      BY <3>1 DEF FannedAtMostOnce
    <3> QED
      BY <3>1, <3>2
  <2>4. verdict' = [verdict EXCEPT ![r] = "delivered"]
    BY <2>1, <2>3 DEF Record
  <2>5. \A w \in Pollers : w # p =>
          left'[w] = left[w] /\ pc'[w] = pc[w] /\ r \notin left[w]
    BY <2>1, LeftsDisjoint
  <2>6. ASSUME NEW w \in Pollers, w # p, NEW q \in left'[w]
        PROVE  Remaining(w, q)'
    BY <2>2, <2>4, <2>5, <2>6 DEF LeftUnsettled, Remaining, IsHead
  <2>7. ASSUME NEW q \in left'[p]
        PROVE  Remaining(p, q)'
    <3>1. q \in left[p] /\ Owner[q] = cur[p] /\ stamp[q] > 0 /\ verdict[q] = "none"
      BY <2>1, <2>2, <2>7 DEF LeftUnsettled, Remaining
    <3>2. q = r => pc'[p] = "fanning" /\ left'[p] = left[p]
      BY <2>1, <2>7
    <3>3. pc'[p] = "fanning" /\ IsHead(q, left[p])' => q = r
      <4> SUFFICES ASSUME pc'[p] = "fanning", IsHead(q, left[p])' PROVE q = r
        OBVIOUS
      <4>1. left'[p] = left[p]
        BY <2>1
      <4>2. IsHead(q, left[p])
        BY <2>2, <4>1 DEF IsHead
      <4> QED
        BY <2>1, <3>1, <4>2, HeadUnique
    <3>4. CASE q = r
      <4>1. IsHead(q, left[p])'
        BY <2>1, <2>2, <3>2, <3>4 DEF IsHead
      <4> QED
        BY <2>2, <2>3, <2>4, <3>1, <3>2, <3>4, <4>1 DEF Remaining
    <3>5. CASE q # r
      BY <2>2, <2>4, <3>1, <3>3, <3>5 DEF Remaining
    <3> QED
      BY <3>4, <3>5
  <2>8. \A w \in Pollers : pc'[w] \in {"timer", "loop", "opening"} => left'[w] = {}
    BY <2>1, <2>5 DEF LeftUnsettled, Remaining
  <2> QED
    BY <2>6, <2>7, <2>8 DEF LeftUnsettled, Remaining
<1>12. ASSUME NEW p \in Pollers, Fan(p) PROVE LeftUnsettled'
  <2>1. PICK r \in left[p] : IsHead(r, left[p]) /\ left' = [left EXCEPT ![p] = @ \ {r}]
                              /\ fans' = [fans EXCEPT ![r] = IF Class[r] = "chat" THEN @ + 1 ELSE @]
    BY <1>12 DEF Fan
  <2>2. pc[p] = "fanning" /\ pc' = [pc EXCEPT ![p] = "next"] /\ UNCHANGED <<stamp, cur, verdict>>
    BY <1>12 DEF Fan, disk
  <2>3. \A w \in Pollers : w # p =>
          left'[w] = left[w] /\ pc'[w] = pc[w] /\ r \notin left[w]
    BY <2>1, <2>2, LeftsDisjoint
  <2>4. \A q \in left'[p] : q \in left[p] /\ verdict[q] = "none"
    BY <2>1, <2>2, HeadUnique DEF LeftUnsettled, Remaining
  <2>5. ASSUME NEW w \in Pollers, w # p, NEW q \in left'[w]
        PROVE  Remaining(w, q)'
    BY <2>1, <2>2, <2>3, <2>5 DEF LeftUnsettled, Remaining, IsHead
  <2>6. \A w \in Pollers : pc'[w] \in {"timer", "loop", "opening"} => left'[w] = {}
    BY <2>2, <2>3 DEF LeftUnsettled, Remaining
  <2> QED
    BY <2>2, <2>4, <2>5, <2>6 DEF LeftUnsettled, Remaining
<1>13. ASSUME NEW p \in Pollers, Throw(p) PROVE LeftUnsettled'
  BY <1>13 DEF Throw, LeftUnsettled, Remaining, SessionsHeld, OneDrainPerSession, StampsOrder, IsHead, Record, LastAttempt
<1>14. ASSUME NEW p \in Pollers, Leave(p) PROVE LeftUnsettled'
  BY <1>14 DEF Leave, disk, history, LeftUnsettled, Remaining, SessionsHeld, OneDrainPerSession, StampsOrder, IsHead
<1>15. CASE Crash
  BY <1>15 DEF Crash, disk, LeftUnsettled, Remaining, SessionsHeld, OneDrainPerSession, StampsOrder, IsHead, Everywhere
<1>16. CASE UNCHANGED vars
  BY <1>16 DEF vars, disk, poller, history, LeftUnsettled, Remaining, SessionsHeld, OneDrainPerSession, StampsOrder, IsHead
<1> QED
  BY <1>1, <1>2, <1>3, <1>4, <1>5, <1>6, <1>7, <1>8, <1>9, <1>10,
      <1>11, <1>12, <1>13, <1>14, <1>15, <1>16
  DEF Next, Poll

\* An effect is counted while its row is in hand, and a failure or an outcome
\* takes the row out of the hand.
LEMMA EffectsExplainedStep == IInv /\ [Next]_vars => EffectsExplained'
<1> SUFFICES ASSUME IInv, [Next]_vars PROVE EffectsExplained'
  OBVIOUS
<1> USE DeliveryAssumption DEF IInv, TypeOK, PCs
<1>1. ASSUME NEW r \in Rows, Write(r) PROVE EffectsExplained'
  <2>1. ASSUME NEW p \in Pollers, NEW q \in Rows PROVE InHand(p, q)' = InHand(p, q)
    <3>1. \A x \in left[p] : stamp'[x] = stamp[x]
      BY <1>1 DEF Write, LeftUnsettled, Remaining
    <3> QED
      BY <1>1, <3>1 DEF Write, poller, InHand, IsHead
  <2> QED
    BY <1>1, <2>1 DEF Write, history, EffectsExplained
<1>2. ASSUME NEW s \in Sessions, Close(s) PROVE EffectsExplained'
  BY <1>2 DEF Close, poller, history, EffectsExplained, InHand, IsHead
<1>3. ASSUME NEW p \in Pollers, Tick(p) PROVE EffectsExplained'
  BY <1>3 DEF Tick, disk, history, EffectsExplained, InHand, IsHead
<1>4. ASSUME NEW p \in Pollers, Rearm(p) PROVE EffectsExplained'
  BY <1>4 DEF Rearm, disk, history, EffectsExplained, InHand, IsHead
<1>5. ASSUME NEW p \in Pollers, NEW s \in Sessions, Enter(p, s) PROVE EffectsExplained'
  <2>1. ASSUME NEW w \in Pollers, NEW q \in Rows PROVE InHand(w, q)' = InHand(w, q)
    BY <1>5 DEF Enter, disk, InHand, IsHead
  <2> QED
    BY <1>5, <2>1 DEF Enter, disk, history, EffectsExplained
<1>6. ASSUME NEW p \in Pollers, NEW s \in Sessions, Skip(p, s) PROVE EffectsExplained'
  BY <1>6 DEF Skip, disk, history, EffectsExplained, InHand, IsHead
<1>7. ASSUME NEW p \in Pollers, OpenDbs(p) PROVE EffectsExplained'
  BY <1>7 DEF OpenDbs, disk, history, EffectsExplained, InHand, IsHead
<1>8. ASSUME NEW p \in Pollers, Begin(p) PROVE EffectsExplained'
  <2>1. ASSUME NEW w \in Pollers, NEW q \in Rows PROVE InHand(w, q)' = InHand(w, q)
    BY <1>8 DEF Begin, disk, InHand, IsHead
  <2> QED
    BY <1>8, <2>1 DEF Begin, disk, history, EffectsExplained
<1>9. ASSUME NEW p \in Pollers, Taken(p) PROVE EffectsExplained'
  <2>1. PICK r \in left[p] : IsHead(r, left[p]) /\ effects' = [effects EXCEPT ![r] = @ + 1]
    BY <1>9 DEF Taken
  <2>2. r \in Rows /\ verdict[r] = "none" /\ InHand(p, r)'
    BY <1>9, <2>1 DEF Taken, disk, InHand, IsHead, LeftUnsettled, Remaining
  <2>3. ASSUME NEW w \in Pollers, NEW q \in Rows, InHand(w, q)'
        PROVE  InHand(w, q) \/ (w = p /\ q = r)
    <3>1. q \in left[w] /\ IsHead(q, left[w]) /\ (w = p \/ pc[w] = "taken")
      BY <1>9, <2>3 DEF Taken, disk, InHand, IsHead
    <3> QED
      BY <2>1, <3>1, HeadUnique DEF InHand
  <2>4. ASSUME NEW w \in Pollers, NEW q \in Rows, InHand(w, q)
        PROVE  InHand(w, q)' /\ q # r
    BY <1>9, <2>1, <2>4, LeftsDisjoint DEF Taken, disk, InHand, IsHead
  <2> QED
    BY <1>9, <2>1, <2>2, <2>3, <2>4 DEF Taken, disk, EffectsExplained
<1>10. ASSUME NEW p \in Pollers, PassSilently(p) PROVE EffectsExplained'
  <2>1. PICK r \in left[p] : IsHead(r, left[p]) /\ ~GoesOut(r)
    BY <1>10 DEF PassSilently
  <2>2. ASSUME NEW w \in Pollers, NEW q \in Rows, InHand(w, q)'
        PROVE  InHand(w, q) \/ ~GoesOut(q)
    <3>1. q \in left[w] /\ IsHead(q, left[w]) /\ (w = p \/ pc[w] = "taken")
      BY <1>10, <2>2 DEF PassSilently, disk, InHand, IsHead
    <3> QED
      BY <2>1, <3>1, HeadUnique DEF InHand
  <2>3. ASSUME NEW w \in Pollers, NEW q \in Rows, InHand(w, q) PROVE InHand(w, q)'
    BY <1>10, <2>3 DEF PassSilently, disk, InHand, IsHead
  <2> QED
    BY <1>10, <2>2, <2>3 DEF PassSilently, disk, history, EffectsExplained
<1>11. ASSUME NEW p \in Pollers, MarkDelivered(p) PROVE EffectsExplained'
  <2>1. PICK r \in left[p] : IsHead(r, left[p]) /\ verdict' = Record(r, "delivered")
    BY <1>11 DEF MarkDelivered
  <2>2. r \in Rows /\ verdict[r] = "none"
    BY <1>11, <2>1 DEF MarkDelivered, LeftUnsettled, Remaining
  <2>3. ASSUME NEW w \in Pollers, NEW q \in Rows, InHand(w, q)' PROVE InHand(w, q)
    BY <1>11, <2>3 DEF MarkDelivered, InHand, IsHead
  <2>4. ASSUME NEW w \in Pollers, NEW q \in Rows, InHand(w, q), q # r PROVE InHand(w, q)'
    <3>1. w # p
      BY <1>11, <2>1, <2>4, HeadUnique DEF InHand
    <3> QED
      BY <1>11, <2>4, <3>1 DEF MarkDelivered, InHand, IsHead
  <2>5. ASSUME NEW q \in Rows, verdict'[q] = "none" PROVE verdict[q] = "none" /\ q # r
    BY <2>1, <2>2, <2>5 DEF Record
  <2> QED
    BY <1>11, <2>3, <2>4, <2>5 DEF MarkDelivered, EffectsExplained
<1>12. ASSUME NEW p \in Pollers, Fan(p) PROVE EffectsExplained'
  BY <1>12 DEF Fan, disk, EffectsExplained, InHand, IsHead
<1>13. ASSUME NEW p \in Pollers, Throw(p) PROVE EffectsExplained'
  <2>1. PICK r \in left[p] :
          /\ IsHead(r, left[p])
          /\ misses' = [misses EXCEPT ![r] = @ + 1]
          /\ verdict' = verdict \/ verdict' = Record(r, "failed")
    BY <1>13 DEF Throw
  <2>2. r \in Rows /\ verdict[r] = "none"
    BY <1>13, <2>1 DEF Throw, LeftUnsettled, Remaining
  <2>3. ASSUME NEW w \in Pollers, NEW q \in Rows, InHand(w, q)' PROVE InHand(w, q)
    BY <1>13, <2>3 DEF Throw, InHand, IsHead
  <2>4. ASSUME NEW w \in Pollers, NEW q \in Rows, InHand(w, q), q # r PROVE InHand(w, q)'
    <3>1. w # p
      BY <1>13, <2>1, <2>4, HeadUnique DEF InHand
    <3> QED
      BY <1>13, <2>4, <3>1 DEF Throw, InHand, IsHead
  <2>5. ASSUME NEW q \in Rows, verdict'[q] = "none" PROVE verdict[q] = "none"
    BY <2>1, <2>2, <2>5 DEF Record
  <2> QED
    BY <1>13, <2>1, <2>2, <2>3, <2>4, <2>5 DEF Throw, EffectsExplained
<1>14. ASSUME NEW p \in Pollers, Leave(p) PROVE EffectsExplained'
  BY <1>14 DEF Leave, disk, history, EffectsExplained, InHand, IsHead
<1>15. CASE Crash
  BY <1>15 DEF Crash, disk, EffectsExplained, InHand, IsHead, Everywhere
<1>16. CASE UNCHANGED vars
  BY <1>16 DEF vars, disk, poller, history, EffectsExplained, InHand, IsHead
<1> QED
  BY <1>1, <1>2, <1>3, <1>4, <1>5, <1>6, <1>7, <1>8, <1>9, <1>10,
      <1>11, <1>12, <1>13, <1>14, <1>15, <1>16
  DEF Next, Poll

\* misses follows attempts until the row has an outcome.
LEMMA MissesCountedStep == IInv /\ [Next]_vars => MissesCounted'
<1> SUFFICES ASSUME IInv, [Next]_vars PROVE MissesCounted'
  OBVIOUS
<1> USE DeliveryAssumption DEF IInv, TypeOK, PCs
<1>1. ASSUME NEW r \in Rows, Write(r) PROVE MissesCounted'
  BY <1>1 DEF Write, poller, history, MissesCounted, LeftUnsettled, Remaining
<1>2. ASSUME NEW s \in Sessions, Close(s) PROVE MissesCounted'
  BY <1>2 DEF Close, poller, history, MissesCounted, LeftUnsettled, Remaining
<1>3. ASSUME NEW p \in Pollers, Tick(p) PROVE MissesCounted'
  BY <1>3 DEF Tick, disk, history, MissesCounted, LeftUnsettled, Remaining
<1>4. ASSUME NEW p \in Pollers, Rearm(p) PROVE MissesCounted'
  BY <1>4 DEF Rearm, disk, history, MissesCounted, LeftUnsettled, Remaining
<1>5. ASSUME NEW p \in Pollers, NEW s \in Sessions, Enter(p, s) PROVE MissesCounted'
  BY <1>5 DEF Enter, disk, history, MissesCounted, LeftUnsettled, Remaining
<1>6. ASSUME NEW p \in Pollers, NEW s \in Sessions, Skip(p, s) PROVE MissesCounted'
  BY <1>6 DEF Skip, disk, history, MissesCounted, LeftUnsettled, Remaining
<1>7. ASSUME NEW p \in Pollers, OpenDbs(p) PROVE MissesCounted'
  BY <1>7 DEF OpenDbs, disk, history, MissesCounted, LeftUnsettled, Remaining
<1>8. ASSUME NEW p \in Pollers, Begin(p) PROVE MissesCounted'
  BY <1>8 DEF Begin, disk, history, MissesCounted, LeftUnsettled, Remaining
<1>9. ASSUME NEW p \in Pollers, Taken(p) PROVE MissesCounted'
  BY <1>9 DEF Taken, disk, MissesCounted, LeftUnsettled, Remaining
<1>10. ASSUME NEW p \in Pollers, PassSilently(p) PROVE MissesCounted'
  BY <1>10 DEF PassSilently, disk, history, MissesCounted, LeftUnsettled, Remaining
<1>11. ASSUME NEW p \in Pollers, MarkDelivered(p) PROVE MissesCounted'
  BY <1>11 DEF MarkDelivered, MissesCounted, LeftUnsettled, Remaining, Record
<1>12. ASSUME NEW p \in Pollers, Fan(p) PROVE MissesCounted'
  BY <1>12 DEF Fan, disk, MissesCounted, LeftUnsettled, Remaining
<1>13. ASSUME NEW p \in Pollers, Throw(p) PROVE MissesCounted'
  BY <1>13 DEF Throw, MissesCounted, LeftUnsettled, Remaining, Record, LastAttempt
<1>14. ASSUME NEW p \in Pollers, Leave(p) PROVE MissesCounted'
  BY <1>14 DEF Leave, disk, history, MissesCounted, LeftUnsettled, Remaining
<1>15. CASE Crash
  BY <1>15 DEF Crash, disk, MissesCounted, LeftUnsettled, Remaining, Everywhere
<1>16. CASE UNCHANGED vars
  BY <1>16 DEF vars, disk, poller, history, MissesCounted, LeftUnsettled, Remaining
<1> QED
  BY <1>1, <1>2, <1>3, <1>4, <1>5, <1>6, <1>7, <1>8, <1>9, <1>10,
      <1>11, <1>12, <1>13, <1>14, <1>15, <1>16
  DEF Next, Poll

\* The fan runs for a row just delivered, which is then left behind.
LEMMA FannedAtMostOnceStep == IInv /\ [Next]_vars => FannedAtMostOnce'
<1> SUFFICES ASSUME IInv, [Next]_vars PROVE FannedAtMostOnce'
  OBVIOUS
<1> USE DeliveryAssumption DEF IInv, TypeOK, PCs
<1>1. ASSUME NEW r \in Rows, Write(r) PROVE FannedAtMostOnce'
  BY <1>1 DEF Write, poller, history, FannedAtMostOnce, LeftUnsettled, Remaining
<1>2. ASSUME NEW s \in Sessions, Close(s) PROVE FannedAtMostOnce'
  BY <1>2 DEF Close, poller, history, FannedAtMostOnce, LeftUnsettled, Remaining
<1>3. ASSUME NEW p \in Pollers, Tick(p) PROVE FannedAtMostOnce'
  BY <1>3 DEF Tick, disk, history, FannedAtMostOnce, LeftUnsettled, Remaining
<1>4. ASSUME NEW p \in Pollers, Rearm(p) PROVE FannedAtMostOnce'
  BY <1>4 DEF Rearm, disk, history, FannedAtMostOnce, LeftUnsettled, Remaining
<1>5. ASSUME NEW p \in Pollers, NEW s \in Sessions, Enter(p, s) PROVE FannedAtMostOnce'
  BY <1>5 DEF Enter, disk, history, FannedAtMostOnce, LeftUnsettled, Remaining
<1>6. ASSUME NEW p \in Pollers, NEW s \in Sessions, Skip(p, s) PROVE FannedAtMostOnce'
  BY <1>6 DEF Skip, disk, history, FannedAtMostOnce, LeftUnsettled, Remaining
<1>7. ASSUME NEW p \in Pollers, OpenDbs(p) PROVE FannedAtMostOnce'
  BY <1>7 DEF OpenDbs, disk, history, FannedAtMostOnce, LeftUnsettled, Remaining
<1>8. ASSUME NEW p \in Pollers, Begin(p) PROVE FannedAtMostOnce'
  BY <1>8 DEF Begin, disk, history, FannedAtMostOnce, LeftUnsettled, Remaining
<1>9. ASSUME NEW p \in Pollers, Taken(p) PROVE FannedAtMostOnce'
  BY <1>9 DEF Taken, disk, FannedAtMostOnce, LeftUnsettled, Remaining
<1>10. ASSUME NEW p \in Pollers, PassSilently(p) PROVE FannedAtMostOnce'
  BY <1>10 DEF PassSilently, disk, history, FannedAtMostOnce, LeftUnsettled, Remaining
<1>11. ASSUME NEW p \in Pollers, MarkDelivered(p) PROVE FannedAtMostOnce'
  BY <1>11 DEF MarkDelivered, FannedAtMostOnce, LeftUnsettled, Remaining, Record
<1>12. ASSUME NEW p \in Pollers, Fan(p) PROVE FannedAtMostOnce'
  BY <1>12 DEF Fan, disk, FannedAtMostOnce, LeftUnsettled, Remaining
<1>13. ASSUME NEW p \in Pollers, Throw(p) PROVE FannedAtMostOnce'
  BY <1>13 DEF Throw, FannedAtMostOnce, LeftUnsettled, Remaining, Record, LastAttempt
<1>14. ASSUME NEW p \in Pollers, Leave(p) PROVE FannedAtMostOnce'
  BY <1>14 DEF Leave, disk, history, FannedAtMostOnce, LeftUnsettled, Remaining
<1>15. CASE Crash
  BY <1>15 DEF Crash, disk, FannedAtMostOnce, LeftUnsettled, Remaining, Everywhere
<1>16. CASE UNCHANGED vars
  BY <1>16 DEF vars, disk, poller, history, FannedAtMostOnce, LeftUnsettled, Remaining
<1> QED
  BY <1>1, <1>2, <1>3, <1>4, <1>5, <1>6, <1>7, <1>8, <1>9, <1>10,
      <1>11, <1>12, <1>13, <1>14, <1>15, <1>16
  DEF Next, Poll

\* OpenDbs lists every unsettled row; a row leaves the list by an outcome or a
\* failure.
LEMMA PassedOverStep == IInv /\ [Next]_vars => PassedOver'
<1> SUFFICES ASSUME IInv, [Next]_vars PROVE PassedOver'
  OBVIOUS
<1> USE DeliveryAssumption DEF IInv, TypeOK, PCs
<1>1. ASSUME NEW r \in Rows, Write(r) PROVE PassedOver'
  <2> SUFFICES ASSUME NEW w \in Pollers, pc'[w] \notin {"timer", "loop", "opening"},
                      NEW q \in Written(cur[w])' \ left'[w], verdict'[q] = "none"
               PROVE  attempts'[q] > 0 \/ \A x \in left'[w] : stamp'[x] < stamp'[q]
    BY DEF PassedOver
  <2>1. UNCHANGED <<pc, cur, left, verdict, attempts>>
    BY <1>1 DEF Write, poller
  <2>2. \A x \in Rows : x # r => stamp'[x] = stamp[x]
    BY <1>1 DEF Write
  <2>3. \A x \in left[w] : x \in Rows /\ x # r /\ Owner[x] = cur[w]
    BY <1>1 DEF Write, LeftUnsettled, Remaining
  <2>4. CASE q = r
    <3>1. Owner[r] = cur[w]
      BY <2>1, <2>4 DEF Written
    <3>2. stamp'[r] = clock[Owner[r]] + 1
      BY <1>1 DEF Write
    <3>3. \A x \in left[w] : stamp[x] <= clock[cur[w]]
      BY <2>3 DEF StampsOrder
    <3> QED
      BY <2>1, <2>2, <2>3, <2>4, <3>1, <3>2, <3>3
  <2>5. CASE q # r
    <3>1. q \in Written(cur[w]) \ left[w] /\ verdict[q] = "none"
      BY <2>1, <2>2, <2>5 DEF Written
    <3> QED
      BY <2>1, <2>2, <2>3, <2>5, <3>1 DEF PassedOver, Written
  <2> QED
    BY <2>4, <2>5
<1>2. ASSUME NEW s \in Sessions, Close(s) PROVE PassedOver'
  BY <1>2 DEF Close, poller, history, PassedOver, Written, LeftUnsettled, Remaining, SessionsHeld, OneDrainPerSession
<1>3. ASSUME NEW p \in Pollers, Tick(p) PROVE PassedOver'
  BY <1>3 DEF Tick, disk, history, PassedOver, Written, LeftUnsettled, Remaining, SessionsHeld, OneDrainPerSession
<1>4. ASSUME NEW p \in Pollers, Rearm(p) PROVE PassedOver'
  BY <1>4 DEF Rearm, disk, history, PassedOver, Written, LeftUnsettled, Remaining, SessionsHeld, OneDrainPerSession
<1>5. ASSUME NEW p \in Pollers, NEW s \in Sessions, Enter(p, s) PROVE PassedOver'
  BY <1>5 DEF Enter, disk, history, PassedOver, Written, LeftUnsettled, Remaining, SessionsHeld, OneDrainPerSession
<1>6. ASSUME NEW p \in Pollers, NEW s \in Sessions, Skip(p, s) PROVE PassedOver'
  BY <1>6 DEF Skip, disk, history, PassedOver, Written, LeftUnsettled, Remaining, SessionsHeld, OneDrainPerSession
<1>7. ASSUME NEW p \in Pollers, OpenDbs(p) PROVE PassedOver'
  BY <1>7 DEF OpenDbs, disk, history, PassedOver, Written, LeftUnsettled, Remaining, SessionsHeld, OneDrainPerSession, Undelivered
<1>8. ASSUME NEW p \in Pollers, Begin(p) PROVE PassedOver'
  BY <1>8 DEF Begin, disk, history, PassedOver, Written, LeftUnsettled, Remaining, SessionsHeld, OneDrainPerSession
<1>9. ASSUME NEW p \in Pollers, Taken(p) PROVE PassedOver'
  BY <1>9 DEF Taken, disk, PassedOver, Written, LeftUnsettled, Remaining, SessionsHeld, OneDrainPerSession
<1>10. ASSUME NEW p \in Pollers, PassSilently(p) PROVE PassedOver'
  BY <1>10 DEF PassSilently, disk, history, PassedOver, Written, LeftUnsettled, Remaining, SessionsHeld, OneDrainPerSession
<1>11. ASSUME NEW p \in Pollers, MarkDelivered(p) PROVE PassedOver'
  BY <1>11 DEF MarkDelivered, PassedOver, Written, LeftUnsettled, Remaining, SessionsHeld, OneDrainPerSession, Record
<1>12. ASSUME NEW p \in Pollers, Fan(p) PROVE PassedOver'
  BY <1>12 DEF Fan, disk, PassedOver, Written, LeftUnsettled, Remaining, SessionsHeld, OneDrainPerSession
<1>13. ASSUME NEW p \in Pollers, Throw(p) PROVE PassedOver'
  BY <1>13 DEF Throw, PassedOver, Written, LeftUnsettled, Remaining, SessionsHeld, OneDrainPerSession, Record, LastAttempt
<1>14. ASSUME NEW p \in Pollers, Leave(p) PROVE PassedOver'
  BY <1>14 DEF Leave, disk, history, PassedOver, Written, LeftUnsettled, Remaining, SessionsHeld, OneDrainPerSession
<1>15. CASE Crash
  BY <1>15 DEF Crash, disk, PassedOver, Written, LeftUnsettled, Remaining, SessionsHeld, OneDrainPerSession, Everywhere
<1>16. CASE UNCHANGED vars
  BY <1>16 DEF vars, disk, poller, history, PassedOver, Written, LeftUnsettled, Remaining, SessionsHeld, OneDrainPerSession
<1> QED
  BY <1>1, <1>2, <1>3, <1>4, <1>5, <1>6, <1>7, <1>8, <1>9, <1>10,
      <1>11, <1>12, <1>13, <1>14, <1>15, <1>16
  DEF Next, Poll

\* What is announced is recorded, and what is recorded is read at OpenDbs.
LEMMA AnnouncedSeenStep == IInv /\ [Next]_vars => AnnouncedSeen'
<1> SUFFICES ASSUME IInv, [Next]_vars PROVE AnnouncedSeen'
  OBVIOUS
<1> USE DeliveryAssumption DEF IInv, TypeOK, PCs
<1>1. ASSUME NEW r \in Rows, Write(r) PROVE AnnouncedSeen'
  BY <1>1 DEF Write, poller, history, AnnouncedSeen, FirstDeliveryOnce, SessionsHeld, OneDrainPerSession, LeftUnsettled, Remaining
<1>2. ASSUME NEW s \in Sessions, Close(s) PROVE AnnouncedSeen'
  BY <1>2 DEF Close, poller, history, AnnouncedSeen, FirstDeliveryOnce, SessionsHeld, OneDrainPerSession, LeftUnsettled, Remaining
<1>3. ASSUME NEW p \in Pollers, Tick(p) PROVE AnnouncedSeen'
  BY <1>3 DEF Tick, disk, history, AnnouncedSeen, FirstDeliveryOnce, SessionsHeld, OneDrainPerSession, LeftUnsettled, Remaining
<1>4. ASSUME NEW p \in Pollers, Rearm(p) PROVE AnnouncedSeen'
  BY <1>4 DEF Rearm, disk, history, AnnouncedSeen, FirstDeliveryOnce, SessionsHeld, OneDrainPerSession, LeftUnsettled, Remaining
<1>5. ASSUME NEW p \in Pollers, NEW s \in Sessions, Enter(p, s) PROVE AnnouncedSeen'
  BY <1>5 DEF Enter, disk, history, AnnouncedSeen, FirstDeliveryOnce, SessionsHeld, OneDrainPerSession, LeftUnsettled, Remaining
<1>6. ASSUME NEW p \in Pollers, NEW s \in Sessions, Skip(p, s) PROVE AnnouncedSeen'
  BY <1>6 DEF Skip, disk, history, AnnouncedSeen, FirstDeliveryOnce, SessionsHeld, OneDrainPerSession, LeftUnsettled, Remaining
<1>7. ASSUME NEW p \in Pollers, OpenDbs(p) PROVE AnnouncedSeen'
  BY <1>7 DEF OpenDbs, disk, history, AnnouncedSeen, FirstDeliveryOnce, SessionsHeld, OneDrainPerSession, LeftUnsettled, Remaining, DeliveredIds, Written
<1>8. ASSUME NEW p \in Pollers, Begin(p) PROVE AnnouncedSeen'
  BY <1>8 DEF Begin, disk, history, AnnouncedSeen, FirstDeliveryOnce, SessionsHeld, OneDrainPerSession, LeftUnsettled, Remaining
<1>9. ASSUME NEW p \in Pollers, Taken(p) PROVE AnnouncedSeen'
  BY <1>9 DEF Taken, disk, AnnouncedSeen, FirstDeliveryOnce, SessionsHeld, OneDrainPerSession, LeftUnsettled, Remaining
<1>10. ASSUME NEW p \in Pollers, PassSilently(p) PROVE AnnouncedSeen'
  BY <1>10 DEF PassSilently, disk, history, AnnouncedSeen, FirstDeliveryOnce, SessionsHeld, OneDrainPerSession, LeftUnsettled, Remaining
<1>11. ASSUME NEW p \in Pollers, MarkDelivered(p) PROVE AnnouncedSeen'
  <2>1. PICK r \in left[p] :
       /\ verdict' = Record(r, "delivered")
       /\ seen' = [seen EXCEPT ![p] = @ \cup {r}]
       /\ flagged' = flagged \/ (seen[p] = {} /\ flagged' = flagged \cup {r})
       /\ pc' = [pc EXCEPT ![p] = "fanning"] \/ pc' = [pc EXCEPT ![p] = "next"]
    BY <1>11 DEF MarkDelivered
  <2>2. pc[p] = "taken" /\ UNCHANGED <<stamp, cur>>
    BY <1>11 DEF MarkDelivered
  <2>3. r \in Rows /\ verdict[r] = "none" /\ stamp[r] > 0 /\ Owner[r] = cur[p]
    BY <2>2 DEF LeftUnsettled, Remaining
  <2>4. verdict' = [verdict EXCEPT ![r] = "delivered"]
    BY <2>1, <2>3 DEF Record
  <2>5. \A x \in flagged' : verdict'[x] # "none" /\ stamp'[x] > 0
    BY <2>1, <2>2, <2>3, <2>4 DEF AnnouncedSeen
  <2>6. ASSUME NEW w \in Pollers, pc'[w] \notin {"timer", "loop", "opening"},
               NEW x \in flagged', Owner[x] = cur'[w]
        PROVE  x \in seen'[w]
    <3>1. CASE x = r
      <4>1. cur[w] = cur[p] /\ cur[p] # NoSession
        BY <2>2, <2>3, <2>6, <3>1
      <4>2. w = p
        BY <4>1 DEF SessionsHeld, OneDrainPerSession
      <4> QED
        BY <2>1, <3>1, <4>2
    <3>2. CASE x # r
      BY <2>1, <2>2, <2>6, <3>2 DEF AnnouncedSeen
    <3> QED
      BY <3>1, <3>2
  <2>7. seen[p] = {} => \A x \in flagged : Owner[x] # Owner[r]
    BY <2>2, <2>3 DEF AnnouncedSeen
  <2>8. FirstDeliveryOnce'
    BY <2>1, <2>3, <2>7 DEF AnnouncedSeen, FirstDeliveryOnce
  <2> QED
    BY <2>5, <2>6, <2>8 DEF AnnouncedSeen
<1>12. ASSUME NEW p \in Pollers, Fan(p) PROVE AnnouncedSeen'
  BY <1>12 DEF Fan, disk, AnnouncedSeen, FirstDeliveryOnce, SessionsHeld, OneDrainPerSession, LeftUnsettled, Remaining
<1>13. ASSUME NEW p \in Pollers, Throw(p) PROVE AnnouncedSeen'
  BY <1>13 DEF Throw, AnnouncedSeen, FirstDeliveryOnce, SessionsHeld, OneDrainPerSession, LeftUnsettled, Remaining, Record, LastAttempt
<1>14. ASSUME NEW p \in Pollers, Leave(p) PROVE AnnouncedSeen'
  BY <1>14 DEF Leave, disk, history, AnnouncedSeen, FirstDeliveryOnce, SessionsHeld, OneDrainPerSession, LeftUnsettled, Remaining
<1>15. CASE Crash
  BY <1>15 DEF Crash, disk, AnnouncedSeen, FirstDeliveryOnce, SessionsHeld, OneDrainPerSession, LeftUnsettled, Remaining, Everywhere
<1>16. CASE UNCHANGED vars
  BY <1>16 DEF vars, disk, poller, history, AnnouncedSeen, FirstDeliveryOnce, SessionsHeld, OneDrainPerSession, LeftUnsettled, Remaining
<1> QED
  BY <1>1, <1>2, <1>3, <1>4, <1>5, <1>6, <1>7, <1>8, <1>9, <1>10,
      <1>11, <1>12, <1>13, <1>14, <1>15, <1>16
  DEF Next, Poll

-----------------------------------------------------------------------------
\* Nothing is written, drained, counted or announced at the start.
LEMMA InitIInv == Init => IInv
<1> SUFFICES ASSUME Init PROVE IInv
  OBVIOUS
<1> USE DeliveryAssumption DEF Init, Everywhere
<1>1. TypeOK
  BY DEF TypeOK, PCs
<1>2. SessionsHeld /\ StampsOrder /\ LeftUnsettled
  BY DEF SessionsHeld, OneDrainPerSession, StampsOrder, LeftUnsettled
<1>3. EffectsExplained /\ MissesCounted /\ FannedAtMostOnce
  BY DEF EffectsExplained, InHand, MissesCounted, FannedAtMostOnce
<1>4. AnnouncedSeen /\ PassedOver
  BY DEF AnnouncedSeen, FirstDeliveryOnce, PassedOver
<1> QED
  BY <1>1, <1>2, <1>3, <1>4 DEF IInv

\* The invariant that relates the in-memory state of the two poll chains to the
\* databases holds in every reachable state.
THEOREM Inductive == Spec => []IInv
<1>1. IInv /\ [Next]_vars => IInv'
  BY TypeStep, SessionsHeldStep, StampsOrderStep, LeftUnsettledStep,
     EffectsExplainedStep, MissesCountedStep, FannedAtMostOnceStep,
     AnnouncedSeenStep, PassedOverStep
  DEF IInv
<1> QED
  BY InitIInv, <1>1, PTL DEF Spec

\* Type correctness: every database cell, in-memory map and program counter of
\* the delivery module stays in its domain through every step and crash.
THEOREM TypeCorrect == Spec => []TypeOK
<1>1. IInv => TypeOK
  BY DEF IInv
<1> QED
  BY Inductive, <1>1, PTL

\* The active and the sweep poll never drain one session at the same time,
\* however their timers, awaits and the host's crashes fall.
THEOREM NeverTwoDrains == Spec => []OneDrainPerSession
<1>1. IInv => OneDrainPerSession
  BY DEF IInv, SessionsHeld
<1> QED
  BY Inductive, <1>1, PTL

\* Without a crash, no row goes out more often than its attempts failed plus
\* one: the two polls alone never duplicate a message.
THEOREM NoDuplicates == Spec => []NoDuplicateWithoutFault
<1>1. IInv => NoDuplicateWithoutFault
  BY DEF IInv, EffectsExplained, NoDuplicateWithoutFault
<1> QED
  BY Inductive, <1>1, PTL

\* A row is tried at most MaxAttempts times in one life of the host and is
\* recorded as failed at the last of them.
THEOREM AttemptsBounded == Spec => []GivesUpAtTheLimit
<1>1. IInv => GivesUpAtTheLimit
  <2> SUFFICES ASSUME IInv, NEW r \in Rows
               PROVE  misses[r] <= MaxAttempts /\ (misses[r] = MaxAttempts => verdict[r] = "failed")
    BY DEF GivesUpAtTheLimit
  <2>1. misses[r] <= MaxAttempts
    BY DEF IInv, MissesCounted
  <2>2. verdict[r] = "none" => misses[r] < MaxAttempts
    BY DeliveryAssumption DEF IInv, TypeOK, MissesCounted
  <2>3. verdict[r] = "delivered" => misses[r] < MaxAttempts
    BY DEF IInv, MissesCounted
  <2>4. verdict[r] \in {"none", "delivered", "failed"} /\ misses[r] \in Nat /\ MaxAttempts \in Nat
    BY DeliveryAssumption DEF IInv, TypeOK
  <2> QED
    BY <2>1, <2>2, <2>3, <2>4
<1> QED
  BY Inductive, <1>1, PTL

\* Retries and crashes never fan a message into sibling sessions twice.
THEOREM FansBounded == Spec => []FannedAtMostOnce
<1>1. IInv => FannedAtMostOnce
  BY DEF IInv
<1> QED
  BY Inductive, <1>1, PTL

\* At most one row per session is ever announced as its first delivery.
THEOREM AnnouncedOnce == Spec => []FirstDeliveryOnce
<1>1. IInv => FirstDeliveryOnce
  BY DEF IInv, AnnouncedSeen
<1> QED
  BY Inductive, <1>1, PTL

\* A row goes out only when it is the oldest unsettled row of its session, but
\* for rows that failed and wait for their retry.
THEOREM Ordered == Spec => InOrder
<1> DEFINE A == \A r, q \in Rows :
                  /\ effects'[r] # effects[r]
                  /\ Owner[q] = Owner[r] /\ stamp[q] \in 1 .. stamp[r] - 1
                  => verdict[q] # "none" \/ attempts[q] > 0
<1>1. IInv /\ [Next]_vars => A
  <2> SUFFICES ASSUME IInv, [Next]_vars, NEW r \in Rows, NEW q \in Rows,
                      effects'[r] # effects[r], Owner[q] = Owner[r],
                      stamp[q] \in 1 .. stamp[r] - 1, verdict[q] = "none"
               PROVE  attempts[q] > 0
    OBVIOUS
  <2>1. PICK p \in Pollers : Taken(p)
    BY DEF Next, Poll, vars, disk, poller, history, Write, Close, Tick, Rearm, Enter, Skip,
           OpenDbs, Begin, PassSilently, MarkDelivered, Fan, Throw, Leave, Crash
  <2>2. r \in left[p] /\ IsHead(r, left[p]) /\ pc[p] = "sending"
    BY <2>1 DEF Taken, IInv, TypeOK
  <2>3. Owner[r] = cur[p] /\ stamp[r] \in Nat /\ stamp[q] \in Nat
    BY <2>2 DEF IInv, LeftUnsettled, Remaining, TypeOK
  <2>4. q \notin left[p]
    BY <2>2, <2>3 DEF IsHead
  <2>5. q \in Written(cur[p]) \ left[p]
    BY <2>3, <2>4 DEF Written
  <2>6. attempts[q] > 0 \/ \A x \in left[p] : stamp[x] < stamp[q]
    BY <2>2, <2>5 DEF IInv, PassedOver
  <2> QED
    BY <2>2, <2>3, <2>6
<1>2. [][A]_vars => InOrder
  BY DEF InOrder
<1> QED
  BY Inductive, <1>1, PTL DEF Spec, InOrder

-----------------------------------------------------------------------------
\* Every step of the delivery module is a step of the promise, or changes
\* nothing the promise speaks of.
LEMMA StepRefines == IInv /\ [Next]_vars => [Promise!Next]_(Promise!vars)
<1> SUFFICES ASSUME IInv, [Next]_vars PROVE [Promise!Next]_(Promise!vars)
  OBVIOUS
<1> USE DeliveryAssumption DEF IInv, TypeOK, PCs
<1> DEFINE Stays == UNCHANGED <<stamp, verdict, effects>>
<1>1. Stays => UNCHANGED Promise!vars
  BY DEF Promise!vars
<1>2. ASSUME NEW r \in Rows, Write(r) PROVE Promise!Write(r)
  <2>1. /\ stamp[r] = 0 /\ UNCHANGED <<verdict, effects>>
        /\ stamp' = [stamp EXCEPT ![r] = clock[Owner[r]] + 1]
    BY <1>2 DEF Write, history
  <2>2. {q \in Rows : stamp'[q] > 0} = {q \in Rows : stamp[q] > 0} \cup {r}
    BY <2>1
  <2> QED
    BY <2>1, <2>2 DEF Promise!Write
<1>3. ASSUME NEW p \in Pollers, Taken(p) PROVE \E r \in Rows : Promise!Take(r)
  <2>1. PICK r \in left[p] : effects' = [effects EXCEPT ![r] = @ + 1]
    BY <1>3 DEF Taken
  <2>2. r \in Rows /\ stamp[r] > 0 /\ verdict[r] = "none" /\ UNCHANGED <<stamp, verdict>>
    BY <1>3 DEF Taken, disk, LeftUnsettled, Remaining
  <2> QED
    BY <2>1, <2>2 DEF Promise!Take, Promise!Unsettled
<1>4. ASSUME NEW p \in Pollers, MarkDelivered(p) PROVE \E r \in Rows : Promise!Deliver(r)
  <2>1. PICK r \in left[p] : IsHead(r, left[p]) /\ verdict' = Record(r, "delivered")
    BY <1>4 DEF MarkDelivered
  <2>2. pc[p] = "taken" /\ UNCHANGED <<stamp, effects>>
    BY <1>4 DEF MarkDelivered
  <2>3. r \in Rows /\ stamp[r] > 0 /\ verdict[r] = "none"
    BY <2>2 DEF LeftUnsettled, Remaining
  <2>4. GoesOut(r) => effects[r] > 0
    BY <2>1, <2>2, <2>3 DEF EffectsExplained, InHand
  <2> QED
    BY <2>1, <2>2, <2>3, <2>4 DEF Promise!Deliver, Promise!Unsettled, Record
<1>5. ASSUME NEW p \in Pollers, Throw(p)
      PROVE  Stays \/ \E r \in Rows : Promise!GiveUp(r)
  <2>1. PICK r \in left[p] : verdict' = verdict \/ verdict' = Record(r, "failed")
    BY <1>5 DEF Throw
  <2>2. UNCHANGED <<stamp, effects>>
    BY <1>5 DEF Throw
  <2>3. r \in Rows /\ stamp[r] > 0 /\ verdict[r] = "none"
    BY <1>5 DEF Throw, LeftUnsettled, Remaining
  <2> QED
    BY <2>1, <2>2, <2>3 DEF Promise!GiveUp, Promise!Unsettled, Record
<1>6. ASSUME NEW p \in Pollers, Poll(p), ~Taken(p), ~MarkDelivered(p), ~Throw(p)
      PROVE  Stays
  BY <1>6 DEF Poll, disk, history, Tick, Rearm, Enter, Skip, OpenDbs, Begin,
              PassSilently, Fan, Leave
<1>7. ASSUME (\E s \in Sessions : Close(s)) \/ Crash \/ UNCHANGED vars PROVE Stays
  BY <1>7 DEF Close, Crash, vars, disk, history
<1> QED
  BY <1>1, <1>2, <1>3, <1>4, <1>5, <1>6, <1>7 DEF Next, Promise!Next

\* The delivery module keeps its promise to every row, for every instance.
THEOREM PromiseKept == Spec => KeepsPromise
<1>1. Init => Promise!Init
  BY DEF Init, Promise!Init
<1> QED
  BY <1>1, Inductive, StepRefines, PTL DEF Spec, KeepsPromise, Promise!Spec
=============================================================================
