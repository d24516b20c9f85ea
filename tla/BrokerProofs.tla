---------------------------- MODULE BrokerProofs ----------------------------
(***************************************************************************)
(* Machine-checked proofs about Broker, for every set of envelopes, keys   *)
(* and agents and every value of the policy constants.                     *)
(***************************************************************************)
EXTENDS Broker, FiniteSetTheorems, WellFoundedInduction, TLAPS

\* A non-empty set of natural numbers has a least element.
LEMMA LeastNumber ==
    ASSUME NEW T \in SUBSET Nat, T # {}
    PROVE  \E m \in T : \A n \in T : m <= n
<1> DEFINE R == OpToRel(<, Nat)
<1>1. IsWellFoundedOn(R, Nat)
  BY NatLessThanWellFounded
<1>2. ASSUME NEW m \in Nat, NEW n \in Nat, ~(<<n, m>> \in R) PROVE m <= n
  BY <1>2 DEF OpToRel
<1> HIDE DEF R
<1>3. PICK m \in T : \A n \in T : ~(<<n, m>> \in R)
  BY <1>1, WFMin
<1>4. ASSUME NEW n \in T PROVE m <= n
  <2>1. m \in Nat /\ n \in Nat /\ ~(<<n, m>> \in R)
    BY <1>3
  <2> QED BY <1>2, <2>1
<1> QED BY <1>4

-----------------------------------------------------------------------------
(* What the updates of a single row do *)

\* The literals the updates write are values of their columns.
LEMMA Literals ==
    /\ \A s \in {"none", "queued", "claimed", "acknowledged", "dead_letter"} : s \in State
    /\ NoLease \in Lease
    /\ \A x \in {"", "lease_expired", "max_attempts_after_lease_expiry",
                 "message_expired", "terminal_failed", "max_attempts",
                 "retryable_failed"} : x \in LastError
BY DEF State, Open, TERMINAL_STATES, Lease, NoLease, LastError

\* The absent row is well formed.
LEMMA NoRowType == NoRow \in Row
<1>1. 0 \in Int /\ 0 \in Nat
  OBVIOUS
<1> QED BY <1>1, Literals DEF NoRow, Row

\* What expiry may do to a row: it keeps its identity and attempts, never
\* touches a row that is not open, and leaves a claimed row only as it was.
ExpiryOf(row, new) ==
    /\ new \in Row
    /\ RowOK(new)
    /\ new.seq = row.seq
    /\ new.attempts = row.attempts
    /\ (new.state = "none") <=> (row.state = "none")
    /\ (new.state = "acknowledged") <=> (row.state = "acknowledged")
    /\ new.state \in Open => row.state \in Open
    /\ new.state = "claimed" => new = row
    /\ row.state \notin Open => new = row

\* A lapsed lease requeues the row only with budget left.
LEMMA LapseLeaseRow ==
    ASSUME NEW row \in Row, RowOK(row), NEW t \in Nat
    PROVE  ExpiryOf(row, LapseLease(row, t))
<1>1. CASE ~(row.state = "claimed" /\ row.leaseUntil <= t)
  BY <1>1 DEF LapseLease, ExpiryOf
<1>2. CASE row.state = "claimed" /\ row.leaseUntil <= t
  <2> DEFINE st == IF row.attempts >= MaxAttempts THEN "dead_letter" ELSE "queued"
             err == IF row.attempts >= MaxAttempts
                    THEN "max_attempts_after_lease_expiry" ELSE "lease_expired"
             new == [row EXCEPT !.state = st, !.available = t, !.lease = NoLease,
                                !.leaseUntil = 0, !.error = err, !.updated = t]
  <2>1. LapseLease(row, t) = new
    BY <1>2 DEF LapseLease
  <2>2. st \in State /\ err \in LastError /\ NoLease \in Lease
    BY Literals
  <2> t \in Int OBVIOUS
  <2>3. new \in Row
    <3> HIDE DEF st, err
    <3> QED BY <2>2 DEF Row
  <2>4. /\ new.state = st /\ new.seq = row.seq /\ new.attempts = row.attempts
        /\ new.lease = NoLease
    BY DEF Row
  <2>5. RowOK(new)
    <3> HIDE DEF new
    <3> QED BY <1>2, <2>4, PolicyAssumption DEF RowOK, Row
  <2> HIDE DEF new
  <2> QED
    BY <1>2, <2>1, <2>3, <2>4, <2>5 DEF ExpiryOf, Open
<1> QED BY <1>1, <1>2

\* An expired message dead-letters an open row.
LEMMA LapseMessageRow ==
    ASSUME NEW row \in Row, RowOK(row), NEW e, NEW t \in Nat
    PROVE  ExpiryOf(row, LapseMessage(row, e, t))
<1>1. CASE ~(row.state \in Open /\ ExpiresAt[e] <= t)
  BY <1>1 DEF LapseMessage, ExpiryOf
<1>2. CASE row.state \in Open /\ ExpiresAt[e] <= t
  <2> DEFINE new == [row EXCEPT !.state = "dead_letter", !.lease = NoLease,
                                !.leaseUntil = 0, !.error = "message_expired",
                                !.updated = t]
  <2>1. LapseMessage(row, e, t) = new
    BY <1>2 DEF LapseMessage
  <2>2. new \in Row
    BY Literals DEF Row
  <2>3. /\ new.state = "dead_letter" /\ new.seq = row.seq
        /\ new.attempts = row.attempts /\ new.lease = NoLease
    BY DEF Row
  <2> HIDE DEF new
  <2>4. RowOK(new)
    BY <1>2, <2>3 DEF RowOK, Row, Open
  <2> QED
    BY <1>2, <2>1, <2>2, <2>3, <2>4 DEF ExpiryOf, Open
<1> QED BY <1>1, <1>2

\* Both updates of _expire_leases_and_messages, one after the other.
LEMMA ExpireRow ==
    ASSUME NEW row \in Row, RowOK(row), NEW e, NEW t \in Nat
    PROVE  ExpiryOf(row, LapseMessage(LapseLease(row, t), e, t))
<1> DEFINE mid == LapseLease(row, t)
<1>1. ExpiryOf(row, mid)
  BY LapseLeaseRow
<1> HIDE DEF mid
<1>2. ExpiryOf(mid, LapseMessage(mid, e, t))
  BY <1>1, LapseMessageRow DEF ExpiryOf
<1>3. ExpiryOf(row, LapseMessage(mid, e, t))
  BY <1>1, <1>2 DEF ExpiryOf
<1> QED BY <1>3 DEF mid

\* A claim starts the next attempt of a queued row under a fresh lease.
LEMMA GrantRow ==
    ASSUME NEW row \in Row, RowOK(row), row.state = "queued",
           NEW leaseMs \in Nat, NEW t \in Nat
    PROVE  /\ Grant(row, leaseMs, t) \in Row
           /\ RowOK(Grant(row, leaseMs, t))
           /\ Grant(row, leaseMs, t).seq = row.seq
           /\ Grant(row, leaseMs, t).attempts = row.attempts + 1
           /\ Grant(row, leaseMs, t).state = "claimed"
<1> DEFINE new == Grant(row, leaseMs, t)
<1>1. row.attempts + 1 \in Nat /\ t + leaseMs \in Nat
  BY DEF Row
<1>2. NewLease(row) \in Lease
  BY <1>1 DEF NewLease, Lease, Row
<1>3. new \in Row
  BY <1>1, <1>2, Literals DEF Grant, Row
<1>4. /\ new.state = "claimed" /\ new.seq = row.seq
      /\ new.attempts = row.attempts + 1 /\ new.lease = NewLease(row)
  BY DEF Grant, Row
<1> HIDE DEF new
<1>5. RowOK(new)
  BY <1>4, PolicyAssumption DEF RowOK, Row, NewLease
<1> QED BY <1>3, <1>4, <1>5 DEF new

\* Retry delays are integers.
LEMMA BackoffType == ASSUME NEW n \in Nat PROVE Backoff(n) \in Int
<1>1. CASE n = 0
  BY <1>1, PolicyAssumption DEF Backoff
<1>2. CASE n # 0
  <2>1. n - 1 \in Nat
    BY <1>2
  <2>2. 2 ^ (n - 1) \in Int
    BY <2>1
  <2> QED
    BY <1>2, <2>2, PolicyAssumption DEF Backoff
<1> QED BY <1>1, <1>2

\* An accepted ack ends the attempt: acknowledged exactly for processed, and
\* back in the queue only with budget left.
LEMMA SettleRow ==
    ASSUME NEW row \in Row, RowOK(row), row.state = "claimed",
           NEW outcome \in Outcome, NEW t \in Nat
    PROVE  /\ Settle(row, outcome, t) \in Row
           /\ RowOK(Settle(row, outcome, t))
           /\ Settle(row, outcome, t).seq = row.seq
           /\ Settle(row, outcome, t).attempts = row.attempts
           /\ Settle(row, outcome, t).state \notin {"none", "claimed"}
           /\ (Settle(row, outcome, t).state = "acknowledged") <=> (outcome = "processed")
<1> DEFINE done == [row EXCEPT !.lease = NoLease, !.leaseUntil = 0,
                               !.available = t, !.updated = t]
<1>1. NoLease \in Lease
  BY Literals
<1> t \in Int OBVIOUS
<1>2. done \in Row
  BY <1>1 DEF Row
<1>3. done.seq = row.seq /\ done.attempts = row.attempts /\ done.lease = NoLease
  BY DEF Row
<1>4. Settle(row, outcome, t) =
        CASE outcome = "processed" ->
               [done EXCEPT !.state = "acknowledged", !.error = ""]
          [] outcome = "terminal_failed" ->
               [done EXCEPT !.state = "dead_letter", !.error = "terminal_failed"]
          [] outcome = "retryable_failed" /\ row.attempts >= MaxAttempts ->
               [done EXCEPT !.state = "dead_letter", !.error = "max_attempts"]
          [] outcome = "retryable_failed" /\ row.attempts < MaxAttempts ->
               [done EXCEPT !.state = "queued", !.error = "retryable_failed",
                            !.available = t + Backoff(row.attempts)]
  BY DEF Settle
<1> HIDE DEF done
<1>5. row.attempts \in Nat /\ row.seq \in Nat /\ row.seq >= 1
  BY DEF Row, RowOK
<1>6. ASSUME NEW st \in {"acknowledged", "dead_letter", "queued"}, NEW new \in Row,
             st = "queued" => row.attempts < MaxAttempts,
             new.state = st, new.seq = done.seq,
             new.attempts = done.attempts, new.lease = done.lease
      PROVE  RowOK(new)
  BY <1>3, <1>5, <1>6 DEF RowOK
<1>7. CASE outcome = "processed"
  <2> DEFINE new == [done EXCEPT !.state = "acknowledged", !.error = ""]
  <2>1. Settle(row, outcome, t) = new
    BY <1>4, <1>7
  <2>2. new \in Row
    BY <1>2, Literals DEF Row
  <2>3. /\ new.state = "acknowledged" /\ new.seq = done.seq
        /\ new.attempts = done.attempts /\ new.lease = done.lease
    BY <1>2 DEF Row
  <2> HIDE DEF new
  <2> QED BY <1>3, <1>6, <1>7, <2>1, <2>2, <2>3
<1>8. CASE outcome = "terminal_failed" \/ (outcome = "retryable_failed" /\ row.attempts >= MaxAttempts)
  <2> DEFINE err == IF outcome = "terminal_failed" THEN "terminal_failed" ELSE "max_attempts"
             new == [done EXCEPT !.state = "dead_letter", !.error = err]
  <2>1. Settle(row, outcome, t) = new
    <3>1. CASE outcome = "terminal_failed"
      BY <1>4, <3>1
    <3>2. CASE outcome = "retryable_failed" /\ row.attempts >= MaxAttempts
      BY <1>4, <1>5, <3>2, PolicyAssumption
    <3> QED BY <1>8, <3>1, <3>2
  <2>2. err \in LastError
    BY Literals
  <2> HIDE DEF err
  <2>3. new \in Row
    BY <1>2, <2>2, Literals DEF Row
  <2>4. /\ new.state = "dead_letter" /\ new.seq = done.seq
        /\ new.attempts = done.attempts /\ new.lease = done.lease
    BY <1>2 DEF Row
  <2> HIDE DEF new
  <2> QED BY <1>3, <1>6, <1>8, <2>1, <2>3, <2>4
<1>9. CASE outcome = "retryable_failed" /\ row.attempts < MaxAttempts
  <2> DEFINE av == t + Backoff(row.attempts)
             new == [done EXCEPT !.state = "queued", !.error = "retryable_failed",
                                 !.available = av]
  <2>1. Settle(row, outcome, t) = new
    BY <1>4, <1>9
  <2>2. av \in Int
    BY <1>5, BackoffType
  <2> HIDE DEF av
  <2>3. new \in Row
    BY <1>2, <2>2, Literals DEF Row
  <2>4. /\ new.state = "queued" /\ new.seq = done.seq
        /\ new.attempts = done.attempts /\ new.lease = done.lease
    BY <1>2 DEF Row
  <2> HIDE DEF new
  <2> QED BY <1>3, <1>6, <1>9, <2>1, <2>3, <2>4
<1> QED
  BY <1>5, <1>7, <1>8, <1>9, PolicyAssumption DEF Outcome

-----------------------------------------------------------------------------
(* Claim and maintenance move rows forward or purge whole messages *)

\* A row that expiry or a claim may have moved on: the same delivery, no
\* attempt taken back, and a lease that is either the old one or a new
\* attempt's.
Moved(row, new) ==
    /\ new \in Row
    /\ RowOK(new)
    /\ new.seq = row.seq
    /\ new.attempts >= row.attempts
    /\ (new.state = "none") <=> (row.state = "none")
    /\ (new.state = "acknowledged") <=> (row.state = "acknowledged")
    /\ new.state \in Open => row.state \in Open
    /\ new.state = "claimed" =>
          (row.state = "claimed" /\ new = row) \/ new.attempts > row.attempts

\* Expiry of the whole table, row by row.
LEMMA ExpiredTable ==
    ASSUME TypeOK, RowsInv, NEW t \in Nat
    PROVE  \A d \in DeliveryId :
              /\ deliveries[d] \in Row
              /\ ExpiryOf(deliveries[d], Expired(t)[d])
              /\ Moved(deliveries[d], Expired(t)[d])
<1> TAKE d \in DeliveryId
<1>1. deliveries[d] \in Row /\ RowOK(deliveries[d])
  BY DEF TypeOK, RowsInv
<1>2. Expired(t)[d] = LapseMessage(LapseLease(deliveries[d], t), messages[d[1]], t)
  BY DEF Expired
<1>3. ExpiryOf(deliveries[d], Expired(t)[d])
  BY <1>1, <1>2, ExpireRow
<1>4. Moved(deliveries[d], Expired(t)[d])
  BY <1>1, <1>3 DEF ExpiryOf, Moved, Row
<1> QED BY <1>1, <1>3, <1>4

\* The invariant survives any step that purges some messages, with their
\* deliveries and ack events, and moves the other rows forward.
LEMMA MoveOrPurge ==
    ASSUME IInv, NEW purged \in SUBSET Key,
           clock' \in Nat, UNCHANGED <<highWater, nextSeq, cursors>>,
           messages' = [k \in Key |-> IF k \in purged THEN NoMessage ELSE messages[k]],
           ackEvents' = {ev \in ackEvents : ev.ack.key \notin purged},
           deliveries' \in [DeliveryId -> Row],
           \A d \in DeliveryId : IF d[1] \in purged
                                 THEN deliveries'[d] = NoRow
                                 ELSE Moved(deliveries[d], deliveries'[d])
    PROVE  IInv'
<1>1. TypeOK'
  BY DEF IInv, TypeOK
<1>2. ASSUME NEW d \in DeliveryId
      PROVE  d[1] \in Key /\ d[2] \in Agent /\ d = <<d[1], d[2]>>
  BY DEF DeliveryId
<1>3. /\ NoRow.state = "none" /\ NoRow.seq = 0 /\ NoRow.lease = NoLease
      /\ RowOK(NoRow)
  BY DEF NoRow, RowOK
<1>4. \A d \in DeliveryId :
          deliveries[d] \in Row /\ RowOK(deliveries[d]) /\ deliveries[d].seq < nextSeq
  BY DEF IInv, TypeOK, RowsInv
<1>5. RowsInv'
  <2>1. \A d \in DeliveryId :
            /\ RowOK(deliveries'[d])
            /\ deliveries'[d].state # "none" =>
                  /\ messages'[d[1]] # NoMessage
                  /\ deliveries[d].state # "none"
                  /\ deliveries'[d].seq = deliveries[d].seq
            /\ deliveries'[d].seq < nextSeq
    <3> TAKE d \in DeliveryId
    <3>1. CASE d[1] \in purged
      BY <1>2, <1>3, <3>1 DEF IInv, TypeOK
    <3>2. CASE d[1] \notin purged
      BY <1>2, <1>4, <3>2 DEF IInv, RowsInv, Moved
    <3> QED BY <3>1, <3>2
  <2>2. \A c, d \in DeliveryId :
            deliveries'[c].state # "none" /\ deliveries'[c].seq = deliveries'[d].seq => c = d
    <3> SUFFICES ASSUME NEW c \in DeliveryId, NEW d \in DeliveryId,
                        deliveries'[c].state # "none",
                        deliveries'[c].seq = deliveries'[d].seq
                 PROVE  c = d
      OBVIOUS
    <3>1. deliveries'[c].seq >= 1
      BY <2>1 DEF RowOK
    <3>2. deliveries'[d].state # "none"
      BY <2>1, <3>1 DEF RowOK
    <3> QED BY <2>1, <3>2 DEF IInv, RowsInv
  <2> QED BY <2>1, <2>2 DEF RowsInv
<1>6. LedgerInv'
  <2>1. ASSUME NEW ev \in ackEvents'
        PROVE  /\ ev \in ackEvents
               /\ ev.ack.key \notin purged
               /\ ev.ack.key \in Key
               /\ <<ev.ack.key, ev.ack.receiver>> \in DeliveryId
               /\ ev.ack.lease[2] \in Nat
    BY DEF IInv, TypeOK, AckEvent, Ack, DeliveryId, Lease
  <2>2. ASSUME NEW ev \in ackEvents'
        PROVE  LET row == deliveries'[<<ev.ack.key, ev.ack.receiver>>]
               IN  /\ row.state # "none"
                   /\ ev.seq = row.seq
                   /\ ev.ack.lease[1] = row.seq
                   /\ ev.ack.lease[2] <= row.attempts
                   /\ row.state = "claimed" => ev.ack.lease[2] < row.attempts
                   /\ ev.ack.envelope = messages'[ev.ack.key]
                   /\ ev.ack.outcome = "processed" => row.state = "acknowledged"
    <3> DEFINE d == <<ev.ack.key, ev.ack.receiver>>
    <3>1. d \in DeliveryId /\ d[1] \notin purged
      BY <2>1
    <3>2. Moved(deliveries[d], deliveries'[d])
      BY <3>1
    <3>3. /\ deliveries[d].state # "none"
          /\ ev.seq = deliveries[d].seq
          /\ ev.ack.lease[1] = deliveries[d].seq
          /\ ev.ack.lease[2] <= deliveries[d].attempts
          /\ deliveries[d].state = "claimed" => ev.ack.lease[2] < deliveries[d].attempts
          /\ ev.ack.envelope = messages[ev.ack.key]
          /\ ev.ack.outcome = "processed" => deliveries[d].state = "acknowledged"
      BY <2>1 DEF IInv, LedgerInv
    <3>4. ev.ack.envelope = messages'[ev.ack.key]
      BY <2>1, <3>3
    <3>5. /\ deliveries[d].attempts \in Nat /\ deliveries'[d].attempts \in Nat
          /\ ev.ack.lease[2] \in Nat
      BY <1>4, <2>1, <3>1, <3>2 DEF Row, Moved
    <3> HIDE DEF d
    <3>6. /\ deliveries'[d].state # "none"
          /\ ev.seq = deliveries'[d].seq
          /\ ev.ack.lease[1] = deliveries'[d].seq
          /\ ev.ack.lease[2] <= deliveries'[d].attempts
          /\ deliveries'[d].state = "claimed" => ev.ack.lease[2] < deliveries'[d].attempts
          /\ ev.ack.outcome = "processed" => deliveries'[d].state = "acknowledged"
      <4> DEFINE n == ev.ack.lease[2]
                 old == deliveries[d]
                 new == deliveries'[d]
      <4>1. /\ n \in Nat /\ n <= old.attempts /\ Moved(old, new)
            /\ old.state = "claimed" => n < old.attempts
            /\ old.attempts \in Nat /\ new.attempts \in Nat
        BY <3>2, <3>3, <3>5
      <4>2. n <= new.attempts /\ (new.state = "claimed" => n < new.attempts)
        <5> HIDE DEF n, old, new
        <5> QED BY <4>1 DEF Moved
      <4> QED BY <3>2, <3>3, <4>2 DEF Moved
    <3> QED BY <3>4, <3>6 DEF d
  <2>3. \A ev, ev2 \in ackEvents' : ev.ack.lease = ev2.ack.lease => ev = ev2
    BY <2>1 DEF IInv, LedgerInv
  <2>4. ASSUME NEW d \in DeliveryId, deliveries'[d].state = "acknowledged"
        PROVE  \E ev \in ackEvents' : /\ ev.ack.key = d[1] /\ ev.ack.receiver = d[2]
                                      /\ ev.ack.outcome = "processed"
    <3>1. d[1] \notin purged
      BY <1>3, <2>4
    <3>2. deliveries[d].state = "acknowledged"
      BY <2>4, <3>1 DEF Moved
    <3> QED BY <3>1, <3>2 DEF IInv, LedgerInv
  <2> QED BY <2>2, <2>3, <2>4 DEF LedgerInv
<1>7. CursorOnTerminal'
  <2>1. \A d \in DeliveryId : deliveries'[d].state \in Open =>
            deliveries[d].state \in Open /\ deliveries'[d].seq = deliveries[d].seq
    BY <1>3 DEF Moved, Open
  <2> QED BY <2>1 DEF IInv, CursorOnTerminal
<1> QED BY <1>1, <1>5, <1>6, <1>7 DEF IInv

\* Every claim is a step of that kind that purges nothing.
LEMMA ClaimStep ==
    ASSUME IInv, NEW r \in Agent, NEW n, NEW l \in Nat, NEW t \in Nat, Claim(r, n, l, t)
    PROVE  IInv'
<1> DEFINE rows  == Expired(t)
           taken == FirstBySeq(Ready(rows, r, t), rows, r, n)
<1>1. /\ deliveries' = [d \in DeliveryId |-> IF d[2] = r /\ d[1] \in taken
                                             THEN Grant(rows[d], l, t)
                                             ELSE rows[d]]
      /\ UNCHANGED <<clock, highWater, messages, nextSeq, ackEvents, cursors>>
  BY DEF Claim
<1>2. ASSUME NEW k \in taken
      PROVE  rows[<<k, r>>].state = "queued"
  BY DEF FirstBySeq, Ready
<1>3. \A d \in DeliveryId : /\ deliveries[d] \in Row
                            /\ ExpiryOf(deliveries[d], rows[d])
                            /\ Moved(deliveries[d], rows[d])
  BY ExpiredTable DEF IInv
<1> HIDE DEF rows, taken
<1>4. l \in Nat
  OBVIOUS
<1>5. ASSUME NEW d \in DeliveryId
      PROVE  Moved(deliveries[d], deliveries'[d])
  <2>1. CASE d[2] = r /\ d[1] \in taken
    <3>1. d = <<d[1], r>>
      BY <2>1 DEF DeliveryId
    <3>2. rows[d].state = "queued" /\ rows[d] \in Row /\ RowOK(rows[d])
      BY <1>2, <1>3, <2>1, <3>1 DEF Moved
    <3> DEFINE new == Grant(rows[d], l, t)
    <3>3. /\ new \in Row /\ RowOK(new) /\ new.seq = rows[d].seq
          /\ new.attempts = rows[d].attempts + 1 /\ new.state = "claimed"
      BY <1>4, <3>2, GrantRow
    <3>4. deliveries'[d] = new
      BY <1>1, <2>1
    <3>5. /\ rows[d].seq = deliveries[d].seq
          /\ rows[d].attempts = deliveries[d].attempts
          /\ deliveries[d].state \in Open
          /\ deliveries[d].attempts \in Nat
      BY <1>3, <3>2 DEF ExpiryOf, Open, Row
    <3> HIDE DEF new
    <3> QED BY <3>3, <3>4, <3>5 DEF Moved, Open
  <2>2. CASE ~(d[2] = r /\ d[1] \in taken)
    BY <1>1, <1>3, <2>2
  <2> QED BY <2>1, <2>2
<1>6. deliveries' \in [DeliveryId -> Row]
  BY <1>1, <1>5 DEF Moved
<1> DEFINE purged == {x \in Key : FALSE}
<1>7. purged \in SUBSET Key /\ \A x : x \notin purged
  OBVIOUS
<1> HIDE DEF purged
<1>8. /\ messages' = [k \in Key |-> IF k \in purged THEN NoMessage ELSE messages[k]]
      /\ ackEvents' = {ev \in ackEvents : ev.ack.key \notin purged}
      /\ clock' \in Nat
  BY <1>1, <1>7 DEF IInv, TypeOK
<1>9. \A d \in DeliveryId : IF d[1] \in purged
                            THEN deliveries'[d] = NoRow
                            ELSE Moved(deliveries[d], deliveries'[d])
  BY <1>5, <1>7
<1> QED BY <1>1, <1>6, <1>7, <1>8, <1>9, MoveOrPurge

\* Maintenance purges messages after expiring the table.
LEMMA MaintenanceStep ==
    ASSUME IInv, NEW cutoff, NEW t \in Nat, Maintenance(cutoff, t)
    PROVE  IInv'
<1> DEFINE rows   == Expired(t)
           purged == {k \in Key : Purgeable(rows, k, cutoff)}
<1>1. /\ messages' = [k \in Key |-> IF k \in purged THEN NoMessage ELSE messages[k]]
      /\ deliveries' = [d \in DeliveryId |-> IF d[1] \in purged THEN NoRow ELSE rows[d]]
      /\ ackEvents' = {ev \in ackEvents : ev.ack.key \notin purged}
      /\ UNCHANGED <<clock, highWater, nextSeq, cursors>>
  BY DEF Maintenance
<1>2. purged \in SUBSET Key
  OBVIOUS
<1>3. \A d \in DeliveryId : Moved(deliveries[d], rows[d])
  BY ExpiredTable DEF IInv
<1> HIDE DEF rows, purged
<1>5. deliveries' \in [DeliveryId -> Row]
  BY <1>1, <1>3, NoRowType DEF Moved
<1>6. \A d \in DeliveryId : IF d[1] \in purged
                            THEN deliveries'[d] = NoRow
                            ELSE Moved(deliveries[d], deliveries'[d])
  BY <1>1, <1>3
<1>7. clock' \in Nat
  BY <1>1 DEF IInv, TypeOK
<1> QED BY <1>1, <1>2, <1>5, <1>6, <1>7, MoveOrPurge

-----------------------------------------------------------------------------
(* Admission hands out fresh sequence numbers *)

\* The deliveries of one message get distinct numbers from the counter on,
\* all below its next value.
LEMMA FreshNumbers ==
    ASSUME TypeOK, NEW e \in Envelope
    PROVE  /\ Len(To[e]) \in Nat
           /\ \A r \in Recipients(e) :
                 /\ r \in Agent
                 /\ NewSeq(e, r) \in Nat
                 /\ NewSeq(e, r) >= nextSeq
                 /\ NewSeq(e, r) < nextSeq + Len(To[e])
           /\ \A r, s \in Recipients(e) : NewSeq(e, r) = NewSeq(e, s) => r = s
<1>1. To[e] \in Seq(Agent)
  BY EnvelopeAssumption
<1>2. Len(To[e]) \in Nat /\ DOMAIN To[e] = 1..Len(To[e])
  BY <1>1
<1> DEFINE pos(r) == CHOOSE i \in DOMAIN To[e] : To[e][i] = r
<1>3. \A r \in Recipients(e) : pos(r) \in DOMAIN To[e] /\ To[e][pos(r)] = r
  BY DEF Recipients
<1>4. \A r : NewSeq(e, r) = nextSeq + pos(r) - 1
  BY DEF NewSeq
<1>5. \A r \in Recipients(e) : r \in Agent
  BY <1>1 DEF Recipients
<1> HIDE DEF pos
<1>6. nextSeq \in Nat
  BY DEF TypeOK
<1>7. \A r \in Recipients(e) : pos(r) \in 1..Len(To[e])
  BY <1>2, <1>3
<1>8. \A r \in Recipients(e) : /\ NewSeq(e, r) \in Nat
                               /\ NewSeq(e, r) >= nextSeq
                               /\ NewSeq(e, r) < nextSeq + Len(To[e])
  BY <1>2, <1>4, <1>6, <1>7
<1>9. ASSUME NEW r \in Recipients(e), NEW s \in Recipients(e),
             NewSeq(e, r) = NewSeq(e, s)
      PROVE  r = s
  <2>1. pos(r) = pos(s)
    BY <1>2, <1>4, <1>6, <1>7, <1>9
  <2> QED BY <1>3, <2>1
<1> QED BY <1>2, <1>5, <1>8, <1>9

\* Admission preserves the invariant: fresh rows under a key that had none.
LEMMA EnqueueStep ==
    ASSUME IInv, NEW e \in Envelope, NEW t \in Nat, Enqueue(e, t)
    PROVE  IInv'
<1> DEFINE k == KeyOf[e]
<1>1. k \in Key
  BY EnvelopeAssumption
<1>2. UNCHANGED <<clock, ackEvents, cursors>> /\ highWater' \in Nat
  BY DEF Enqueue, ObserveTrustedTime
<1>3. CASE UNCHANGED <<messages, deliveries, nextSeq>>
  BY <1>2, <1>3 DEF IInv, TypeOK, RowsInv, LedgerInv, CursorOnTerminal
<1>4. CASE messages[k] = NoMessage /\ InsertMessage(e, t)
  <2>1. /\ messages' = [messages EXCEPT ![k] = e]
        /\ deliveries' = [d \in DeliveryId |-> IF d[1] = k /\ d[2] \in Recipients(e)
                                               THEN NewRow(e, d[2], t)
                                               ELSE deliveries[d]]
        /\ nextSeq' = nextSeq + Len(To[e])
    BY <1>4 DEF InsertMessage
  <2>2. TypeOK /\ RowsInv /\ LedgerInv /\ CursorOnTerminal
    BY DEF IInv
  <2>3. nextSeq' \in Nat \ {0} /\ nextSeq' >= nextSeq /\ nextSeq \in Nat /\ nextSeq >= 1
    BY <2>1, <2>2, FreshNumbers DEF TypeOK
  <2>4. \A r \in Recipients(e) :
            /\ NewRow(e, r, t) \in Row /\ RowOK(NewRow(e, r, t))
            /\ NewRow(e, r, t).state = "queued"
            /\ NewRow(e, r, t).seq = NewSeq(e, r)
    <3> TAKE r \in Recipients(e)
    <3> DEFINE new == NewRow(e, r, t)
    <3>1. NewSeq(e, r) \in Nat /\ NewSeq(e, r) >= 1
      BY <2>2, <2>3, FreshNumbers
    <3>2. t \in Int /\ 0 \in Nat
      OBVIOUS
    <3>3. new \in Row
      BY <3>1, <3>2, NoRowType, Literals DEF NewRow, Row
    <3>4. /\ new.state = "queued" /\ new.seq = NewSeq(e, r)
          /\ new.attempts = NoRow.attempts /\ new.lease = NoRow.lease
      BY NoRowType DEF NewRow, Row
    <3> HIDE DEF new
    <3>5. NoRow.attempts = 0 /\ NoRow.lease = NoLease
      BY DEF NoRow
    <3>6. RowOK(new)
      BY <3>1, <3>4, <3>5, PolicyAssumption DEF RowOK
    <3> QED BY <3>3, <3>4, <3>6 DEF new
  <2>5. \A d \in DeliveryId : d[1] = k => deliveries[d].state = "none"
    BY <1>4, <2>2 DEF RowsInv
  <2> DEFINE New(d) == d[1] = k /\ d[2] \in Recipients(e)
  <2>6. \A d \in DeliveryId : New(d) =>
            /\ deliveries'[d] \in Row /\ RowOK(deliveries'[d])
            /\ deliveries'[d].state = "queued"
            /\ deliveries'[d].seq = NewSeq(e, d[2])
            /\ deliveries'[d].seq \in Nat
            /\ deliveries'[d].seq >= nextSeq
            /\ deliveries'[d].seq < nextSeq'
    BY <2>1, <2>2, <2>4, FreshNumbers
  <2>7. \A d \in DeliveryId : ~New(d) => deliveries'[d] = deliveries[d]
    BY <2>1
  <2>8. \A d \in DeliveryId : /\ deliveries[d] \in Row /\ deliveries[d].seq \in Nat
                              /\ RowOK(deliveries[d]) /\ deliveries[d].seq < nextSeq
                              /\ d[1] \in Key
    BY <2>2 DEF TypeOK, RowsInv, Row, DeliveryId
  <2>9. TypeOK'
    <3>1. deliveries' \in [DeliveryId -> Row]
      BY <2>1, <2>6, <2>7, <2>8
    <3>2. messages' \in [Key -> Envelope \cup {NoMessage}]
      BY <1>1, <2>1, <2>2 DEF TypeOK
    <3> QED BY <1>2, <2>2, <2>3, <3>1, <3>2 DEF TypeOK
  <2>10. RowsInv'
    <3>1. ASSUME NEW d \in DeliveryId
          PROVE  /\ RowOK(deliveries'[d])
                 /\ deliveries'[d].state # "none" => messages'[d[1]] # NoMessage
                 /\ deliveries'[d].seq < nextSeq'
      <4>1. CASE New(d)
        BY <1>1, <2>1, <2>2, <2>6, <4>1, EnvelopeAssumption DEF TypeOK
      <4>2. CASE ~New(d)
        <5>1. deliveries'[d] = deliveries[d]
          BY <2>7, <4>2
        <5>2. deliveries[d].seq < nextSeq'
          BY <2>3, <2>8
        <5>3. deliveries[d].state # "none" => messages'[d[1]] # NoMessage
          BY <2>1, <2>2, <2>5, <2>8 DEF RowsInv, TypeOK
        <5> QED BY <2>8, <5>1, <5>2, <5>3
      <4> QED BY <4>1, <4>2
    <3>2. ASSUME NEW c \in DeliveryId, NEW d \in DeliveryId,
                 deliveries'[c].state # "none",
                 deliveries'[c].seq = deliveries'[d].seq
          PROVE  c = d
      <4>1. c = <<c[1], c[2]>> /\ d = <<d[1], d[2]>>
        BY DEF DeliveryId
      <4>2. CASE New(c) /\ New(d)
        BY <2>2, <2>6, <3>2, <4>1, <4>2, FreshNumbers
      <4>3. CASE New(c) /\ ~New(d)
        BY <2>3, <2>6, <2>7, <2>8, <3>2, <4>3
      <4>4. CASE ~New(c) /\ New(d)
        BY <2>3, <2>6, <2>7, <2>8, <3>2, <4>4
      <4>5. CASE ~New(c) /\ ~New(d)
        BY <2>2, <2>7, <3>2, <4>5 DEF RowsInv
      <4> QED BY <4>2, <4>3, <4>4, <4>5
    <3> QED BY <3>1, <3>2 DEF RowsInv
  <2>11. LedgerInv'
    <3>1. ASSUME NEW ev \in ackEvents
          PROVE  /\ <<ev.ack.key, ev.ack.receiver>> \in DeliveryId
                 /\ ev.ack.key # k
                 /\ deliveries'[<<ev.ack.key, ev.ack.receiver>>]
                       = deliveries[<<ev.ack.key, ev.ack.receiver>>]
                 /\ messages'[ev.ack.key] = messages[ev.ack.key]
      <4>1. ev.ack.key \in Key /\ <<ev.ack.key, ev.ack.receiver>> \in DeliveryId
        BY <2>2 DEF TypeOK, AckEvent, Ack, DeliveryId
      <4>2. ev.ack.key # k
        BY <2>2, <2>5, <4>1 DEF LedgerInv
      <4> QED BY <2>1, <2>2, <2>7, <4>1, <4>2 DEF TypeOK
    <3>2. \A d \in DeliveryId : deliveries'[d].state = "acknowledged" =>
              deliveries[d].state = "acknowledged"
      BY <2>6, <2>7
    <3> QED BY <1>2, <2>2, <3>1, <3>2 DEF LedgerInv
  <2>12. CursorOnTerminal'
    <3>1. ASSUME NEW r \in Agent, NEW c \in Consumer
          PROVE  /\ cursors'[<<r, c>>] < nextSeq'
                 /\ \A d \in DeliveryId : deliveries'[d].state \in Open =>
                        deliveries'[d].seq # cursors'[<<r, c>>]
      <4>1. cursors'[<<r, c>>] \in Nat /\ cursors'[<<r, c>>] < nextSeq
        BY <1>2, <2>2 DEF CursorOnTerminal, TypeOK
      <4>2. cursors'[<<r, c>>] < nextSeq'
        BY <2>3, <4>1
      <4>3. \A d \in DeliveryId : New(d) => deliveries'[d].seq # cursors'[<<r, c>>]
        BY <2>3, <2>6, <4>1
      <4> QED BY <1>2, <2>2, <2>7, <4>2, <4>3 DEF CursorOnTerminal
    <3> QED BY <3>1 DEF CursorOnTerminal
  <2> QED BY <2>9, <2>10, <2>11, <2>12 DEF IInv
<1> QED BY <1>3, <1>4 DEF Enqueue

-----------------------------------------------------------------------------
(* Acknowledgements and cursors *)

\* The acks that lease holders may sign are well formed.
LEMMA GrantedAcksType == TypeOK => \A t \in Nat : GrantedAcks(t) \subseteq Ack
<1> SUFFICES ASSUME TypeOK, NEW t \in Nat, NEW a \in GrantedAcks(t)
             PROVE  a \in Ack
  OBVIOUS
<1>1. SignerTimes(t) \subseteq Nat
  BY PolicyAssumption DEF SignerTimes
<1>2. (1..nextSeq) \X (1..MaxAttempts) \subseteq Lease
  BY PolicyAssumption DEF Lease, TypeOK
<1>3. {messages[k] : k \in Key} \ {NoMessage} \subseteq Envelope
  BY DEF TypeOK
<1> QED
  BY <1>1, <1>2, <1>3 DEF GrantedAcks, Ack

\* An accepted ack preserves the invariant: the attempt it answers is the
\* running one, which no earlier ack has answered.
LEMMA AcknowledgeStep ==
    ASSUME IInv, NEW a \in Ack, NEW t \in Nat, Acknowledge(a, t)
    PROVE  IInv'
<1> DEFINE d   == <<a.key, a.receiver>>
           row == deliveries[d]
           new == Settle(row, a.outcome, t)
           own == [ack |-> a, seq |-> row.seq]
<1>1. TypeOK /\ RowsInv /\ LedgerInv /\ CursorOnTerminal
  BY DEF IInv
<1>2. /\ row.state = "claimed" /\ row.lease = a.lease /\ messages[a.key] = a.envelope
      /\ ackEvents' = ackEvents \cup {own}
      /\ deliveries' = [deliveries EXCEPT ![d] = new]
      /\ UNCHANGED <<clock, highWater, messages, nextSeq, cursors>>
  BY DEF Acknowledge, HoldsLease
<1>3. /\ d \in DeliveryId /\ d[1] = a.key /\ d[2] = a.receiver
      /\ a.outcome \in Outcome /\ a.envelope \in Envelope
  BY DEF Ack, DeliveryId
<1>4. row \in Row /\ RowOK(row) /\ row.seq < nextSeq
  BY <1>1, <1>3 DEF TypeOK, RowsInv
<1>5. /\ new \in Row /\ RowOK(new) /\ new.seq = row.seq /\ new.attempts = row.attempts
      /\ new.state \notin {"none", "claimed"}
      /\ (new.state = "acknowledged") <=> (a.outcome = "processed")
  BY <1>2, <1>3, <1>4, SettleRow
<1>6. /\ a.lease[1] = row.seq /\ a.lease[2] = row.attempts
      /\ row.attempts \in Nat /\ row.seq \in Nat
  BY <1>2, <1>4 DEF RowOK, Row
<1> HIDE DEF new
<1>7. /\ deliveries'[d] = new
      /\ \A c \in DeliveryId : c # d => deliveries'[c] = deliveries[c]
  BY <1>1, <1>2, <1>3 DEF TypeOK
<1>8. TypeOK'
  <2>1. own \in AckEvent
    BY <1>6 DEF AckEvent
  <2>2. deliveries' \in [DeliveryId -> Row]
    BY <1>1, <1>2, <1>5 DEF TypeOK
  <2> QED BY <1>1, <1>2, <2>1, <2>2 DEF TypeOK
<1>9. RowsInv'
  <2>1. \A c \in DeliveryId : /\ RowOK(deliveries'[c])
                              /\ deliveries'[c].seq = deliveries[c].seq
                              /\ (deliveries'[c].state = "none") <=> (deliveries[c].state = "none")
    BY <1>1, <1>2, <1>5, <1>7 DEF RowsInv
  <2> QED BY <1>1, <1>2, <2>1 DEF RowsInv
<1>10. LedgerInv'
  <2>1. \A ev \in ackEvents : /\ <<ev.ack.key, ev.ack.receiver>> \in DeliveryId
                              /\ ev.ack.lease[2] \in Nat
    BY <1>1 DEF TypeOK, AckEvent, Ack, DeliveryId, Lease
  <2>2. \A ev \in ackEvents : ev.ack.lease # a.lease
    <3> SUFFICES ASSUME NEW ev \in ackEvents, ev.ack.lease = a.lease
                 PROVE  FALSE
      OBVIOUS
    <3> DEFINE c == <<ev.ack.key, ev.ack.receiver>>
    <3>1. /\ deliveries[c].state # "none" /\ deliveries[c].seq = row.seq
          /\ deliveries[c].state = "claimed" => row.attempts < deliveries[c].attempts
      BY <1>1, <1>6 DEF LedgerInv
    <3>2. c = d
      BY <1>1, <1>3, <2>1, <3>1 DEF RowsInv
    <3>3. row.attempts < row.attempts
      BY <1>2, <3>1, <3>2
    <3> QED BY <1>6, <3>3
  <2>3. ASSUME NEW ev \in ackEvents'
        PROVE  LET r2 == deliveries'[<<ev.ack.key, ev.ack.receiver>>]
               IN  /\ r2.state # "none"
                   /\ ev.seq = r2.seq
                   /\ ev.ack.lease[1] = r2.seq
                   /\ ev.ack.lease[2] <= r2.attempts
                   /\ r2.state = "claimed" => ev.ack.lease[2] < r2.attempts
                   /\ ev.ack.envelope = messages'[ev.ack.key]
                   /\ ev.ack.outcome = "processed" => r2.state = "acknowledged"
    <3>1. CASE ev = own
      <4>1. own.ack = a /\ own.seq = row.seq
        OBVIOUS
      <4>2. /\ ev.ack = a /\ ev.seq = row.seq
            /\ deliveries'[<<ev.ack.key, ev.ack.receiver>>] = new
        BY <1>7, <3>1, <4>1
      <4>3. a.lease[2] <= new.attempts
        BY <1>5, <1>6
      <4> QED BY <1>2, <1>5, <1>6, <4>2, <4>3
    <3>2. CASE ev \in ackEvents /\ <<ev.ack.key, ev.ack.receiver>> = d
      <4>1. /\ ev.seq = row.seq /\ ev.ack.lease[1] = row.seq
            /\ ev.ack.lease[2] <= row.attempts
            /\ ev.ack.envelope = messages[ev.ack.key]
            /\ ev.ack.outcome # "processed"
        BY <1>1, <1>2, <3>2 DEF LedgerInv
      <4> QED BY <1>2, <1>5, <1>7, <3>2, <4>1
    <3>3. CASE ev \in ackEvents /\ <<ev.ack.key, ev.ack.receiver>> # d
      <4>1. deliveries'[<<ev.ack.key, ev.ack.receiver>>]
              = deliveries[<<ev.ack.key, ev.ack.receiver>>]
        BY <1>7, <2>1, <3>3
      <4> QED BY <1>1, <1>2, <3>3, <4>1 DEF LedgerInv
    <3> QED BY <1>2, <3>1, <3>2, <3>3
  <2>4. \A ev, ev2 \in ackEvents' : ev.ack.lease = ev2.ack.lease => ev = ev2
    <3>1. own.ack = a
      OBVIOUS
    <3> HIDE DEF own
    <3> QED BY <1>1, <1>2, <2>2, <3>1 DEF LedgerInv
  <2>5. ASSUME NEW c \in DeliveryId, deliveries'[c].state = "acknowledged"
        PROVE  \E ev \in ackEvents' : /\ ev.ack.key = c[1] /\ ev.ack.receiver = c[2]
                                      /\ ev.ack.outcome = "processed"
    <3>1. CASE c = d
      <4>1. a.outcome = "processed"
        BY <1>5, <1>7, <2>5, <3>1
      <4>2. own \in ackEvents' /\ own.ack = a
        BY <1>2
      <4> QED BY <1>3, <3>1, <4>1, <4>2
    <3>2. CASE c # d
      BY <1>1, <1>2, <1>7, <2>5, <3>2 DEF LedgerInv
    <3> QED BY <3>1, <3>2
  <2> QED BY <2>3, <2>4, <2>5 DEF LedgerInv
<1>11. CursorOnTerminal'
  <2>1. \A c \in DeliveryId : deliveries'[c].state \in Open =>
            deliveries[c].state \in Open /\ deliveries'[c].seq = deliveries[c].seq
    BY <1>2, <1>5, <1>7 DEF Open
  <2> QED BY <1>1, <1>2, <2>1 DEF CursorOnTerminal
<1> QED BY <1>8, <1>9, <1>10, <1>11 DEF IInv

\* A cursor moves only onto a terminal delivery of its reader.
LEMMA AdvanceCursorStep ==
    ASSUME IInv, NEW r \in Agent, NEW c \in Consumer, NEW n \in Nat,
           AdvanceCursor(r, c, n)
    PROVE  IInv'
<1>1. /\ cursors' = [cursors EXCEPT ![<<r, c>>] = n]
      /\ UNCHANGED <<clock, highWater, messages, deliveries, nextSeq, ackEvents>>
  BY DEF AdvanceCursor
<1>2. TypeOK' /\ RowsInv' /\ LedgerInv'
  BY <1>1 DEF IInv, TypeOK, RowsInv, LedgerInv
<1>3. n < nextSeq /\ \A d \in DeliveryId : deliveries[d].state \in Open =>
                                            deliveries[d].seq # n
  <2>1. \A d \in DeliveryId : deliveries[d].state \in Open => deliveries[d].seq >= 1
    BY DEF IInv, RowsInv, RowOK, Open
  <2>2. CASE n = 0
    BY <2>1, <2>2 DEF IInv, TypeOK
  <2>3. CASE \E k \in Key : /\ deliveries[<<k, r>>].seq = n
                            /\ deliveries[<<k, r>>].state \in TERMINAL_STATES
    <3>1. PICK k \in Key : /\ deliveries[<<k, r>>].seq = n
                           /\ deliveries[<<k, r>>].state \in TERMINAL_STATES
      BY <2>3
    <3>2. <<k, r>> \in DeliveryId
      BY DEF DeliveryId
    <3>3. n < nextSeq
      BY <3>1, <3>2 DEF IInv, RowsInv
    <3>4. \A d \in DeliveryId : deliveries[d].seq = n => d = <<k, r>>
      BY <3>1, <3>2 DEF IInv, RowsInv, TERMINAL_STATES
    <3> QED BY <3>1, <3>3, <3>4 DEF Open, TERMINAL_STATES
  <2> QED BY <2>2, <2>3 DEF AdvanceCursor
<1>4. CursorOnTerminal'
  BY <1>1, <1>3 DEF IInv, TypeOK, CursorOnTerminal
<1> QED BY <1>2, <1>4 DEF IInv

-----------------------------------------------------------------------------
(* The theorems *)

\* The empty database satisfies the invariant.
LEMMA InitIInv == Init => IInv
<1> SUFFICES ASSUME Init PROVE IInv
  OBVIOUS
<1>1. /\ NoRow.state = "none" /\ NoRow.seq = 0 /\ RowOK(NoRow)
  BY DEF NoRow, RowOK
<1>2. TypeOK
  BY NoRowType DEF Init, TypeOK
<1>3. RowsInv
  BY <1>1 DEF Init, RowsInv
<1>4. LedgerInv
  BY <1>1 DEF Init, LedgerInv
<1>5. CursorOnTerminal
  BY <1>1 DEF Init, CursorOnTerminal, Open
<1> QED BY <1>2, <1>3, <1>4, <1>5 DEF IInv

\* Every operation of the broker preserves the invariant.
LEMMA NextIInv == IInv /\ [Next]_vars => IInv'
<1> SUFFICES ASSUME IInv, [Next]_vars PROVE IInv'
  OBVIOUS
<1>1. CallerTimes \subseteq Nat
  BY DEF IInv, TypeOK, CallerTimes
<1>2. CASE Tick
  BY <1>2 DEF Tick, IInv, TypeOK, RowsInv, LedgerInv, CursorOnTerminal
<1>3. CASE \E t \in CallerTimes : EnqueueAny(t)
  BY <1>1, <1>3, EnqueueStep DEF EnqueueAny
<1>4. CASE \E t \in CallerTimes : ClaimAny(t)
  BY <1>1, <1>4, ClaimStep, PolicyAssumption DEF ClaimAny
<1>5. CASE \E t \in CallerTimes : AcknowledgeAny(t)
  BY <1>1, <1>5, AcknowledgeStep, GrantedAcksType DEF AcknowledgeAny, IInv
<1>6. CASE \E t \in CallerTimes : MaintenanceAny(t)
  BY <1>1, <1>6, MaintenanceStep DEF MaintenanceAny
<1>7. CASE AdvanceCursorAny
  <2>1. 0..nextSeq \subseteq Nat
    BY DEF IInv, TypeOK
  <2> QED BY <1>7, <2>1, AdvanceCursorStep DEF AdvanceCursorAny
<1>8. CASE UNCHANGED vars
  BY <1>8 DEF vars, IInv, TypeOK, RowsInv, LedgerInv, CursorOnTerminal
<1> QED
  BY <1>2, <1>3, <1>4, <1>5, <1>6, <1>7, <1>8 DEF Next

\* The strengthened invariant holds in every reachable state of the broker.
THEOREM Invariance == Spec => []IInv
BY InitIInv, NextIInv, PTL DEF Spec

\* What the invariant says of the individual properties.
LEMMA IInvImplies ==
    IInv => TypeOK /\ AttemptCap /\ LeaseSpentOnce /\ AcknowledgedHasProof
            /\ CursorOnTerminal
<1> SUFFICES ASSUME IInv
             PROVE  TypeOK /\ AttemptCap /\ LeaseSpentOnce /\ AcknowledgedHasProof
                    /\ CursorOnTerminal
  OBVIOUS
<1>1. TypeOK /\ RowsInv /\ LedgerInv /\ CursorOnTerminal
  BY DEF IInv
<1>2. AttemptCap
  BY <1>1 DEF RowsInv, RowOK, AttemptCap
<1>3. \A ev \in ackEvents : /\ <<ev.ack.key, ev.ack.receiver>> \in DeliveryId
                            /\ ev.ack.lease \in Lease
                            /\ ev.ack.key \in Key /\ ev.ack.receiver \in Agent
  BY <1>1 DEF TypeOK, AckEvent, Ack, DeliveryId
<1>4. LeaseSpentOnce
  <2>1. ASSUME NEW ev \in ackEvents
        PROVE  deliveries[<<ev.ack.key, ev.ack.receiver>>].lease # ev.ack.lease
    <3> DEFINE row == deliveries[<<ev.ack.key, ev.ack.receiver>>]
    <3>1. RowOK(row) /\ row \in Row
      BY <1>1, <1>3 DEF RowsInv, TypeOK
    <3>2. /\ row.state # "none" /\ ev.ack.lease[1] = row.seq
          /\ row.state = "claimed" => ev.ack.lease[2] < row.attempts
      BY <1>1 DEF LedgerInv
    <3>3. row.seq >= 1 /\ row.attempts \in Nat /\ row.seq \in Nat
      BY <3>1, <3>2 DEF RowOK, Row
    <3> HIDE DEF row
    <3>4. CASE row.state = "claimed"
      <4>1. row.lease[2] = row.attempts
        BY <3>1, <3>4 DEF RowOK
      <4>2. row.lease[2] # ev.ack.lease[2]
        BY <3>2, <3>3, <3>4, <4>1
      <4> QED BY <4>2 DEF row
    <3>5. CASE row.state # "claimed"
      <4>1. row.lease[1] = 0
        BY <3>1, <3>5 DEF RowOK, NoLease
      <4>2. row.lease[1] # ev.ack.lease[1]
        BY <3>2, <3>3, <4>1
      <4> QED BY <4>2 DEF row
    <3> QED BY <3>4, <3>5
  <2> QED BY <1>1, <2>1 DEF LedgerInv, LeaseSpentOnce
<1>5. AcknowledgedHasProof
  <2>1. ASSUME NEW d \in DeliveryId, deliveries[d].state = "acknowledged"
        PROVE  \E ev \in ackEvents :
                  /\ ev.ack.key = d[1] /\ ev.ack.receiver = d[2]
                  /\ ev.seq = deliveries[d].seq
                  /\ ev.ack.envelope = messages[d[1]]
                  /\ ev.ack.outcome = "processed"
    <3>1. PICK ev \in ackEvents : /\ ev.ack.key = d[1] /\ ev.ack.receiver = d[2]
                                  /\ ev.ack.outcome = "processed"
      BY <1>1, <2>1 DEF LedgerInv
    <3>2. <<ev.ack.key, ev.ack.receiver>> = d
      BY <3>1 DEF DeliveryId
    <3> QED BY <1>1, <3>1, <3>2 DEF LedgerInv
  <2>2. ASSUME NEW d \in DeliveryId, NEW ev \in ackEvents,
               ev.ack.key = d[1], ev.ack.receiver = d[2],
               ev.ack.outcome = "processed"
        PROVE  deliveries[d].state = "acknowledged"
    <3>1. <<ev.ack.key, ev.ack.receiver>> = d
      BY <2>2 DEF DeliveryId
    <3> QED BY <1>1, <2>2, <3>1 DEF LedgerInv
  <2> QED BY <2>1, <2>2 DEF AcknowledgedHasProof
<1> QED BY <1>1, <1>2, <1>4, <1>5

\* Every table of the broker holds well-formed rows at all times.
THEOREM TypeCorrect == Spec => []TypeOK
BY Invariance, IInvImplies, PTL

\* No delivery is offered more often than max_attempts, however its attempts
\* end.
THEOREM AttemptsBounded == Spec => []AttemptCap
BY Invariance, IInvImplies, PTL

\* Each lease is answered by at most one accepted ack.
THEOREM LeasesSpentOnce == Spec => []LeaseSpentOnce
BY Invariance, IInvImplies, PTL

\* acknowledge is the only way to the acknowledged state, and the ledger keeps
\* its proof for as long as the delivery exists.
THEOREM AcknowledgementProved == Spec => []AcknowledgedHasProof
BY Invariance, IInvImplies, PTL

\* Read cursors rest on finished deliveries and sequence numbers are never
\* reused under them.
THEOREM CursorsOnTerminal == Spec => []CursorOnTerminal
BY Invariance, IInvImplies, PTL
-----------------------------------------------------------------------------
(* What a step does to one row *)

\* Expiry changes only open rows, stamps them with its time, and has a reason.
LEMMA ExpiryReason ==
    ASSUME NEW row \in Row, RowOK(row), NEW e, NEW t \in Nat
    PROVE  LET new == LapseMessage(LapseLease(row, t), e, t)
           IN  /\ new = row \/ (row.state \in Open /\ new.updated = t)
               /\ row.state = "claimed" /\ new # row =>
                     row.leaseUntil <= t \/ ExpiresAt[e] <= t
               /\ row.state = "queued" /\ ~(ExpiresAt[e] <= t) => new = row
               /\ row.state = "queued" /\ ExpiresAt[e] <= t => new.state = "dead_letter"
               /\ row.state \in Open => new.state \in Open \cup {"dead_letter"}
<1> DEFINE mid == LapseLease(row, t)
           new == LapseMessage(mid, e, t)
<1>1. ExpiryOf(row, mid)
  BY LapseLeaseRow
<1>2. mid = row \/ (/\ row.state = "claimed" /\ row.leaseUntil <= t /\ mid.updated = t
                   /\ mid.state \in {"queued", "dead_letter"})
  BY DEF LapseLease, Row
<1> HIDE DEF mid
<1>3. mid \in Row
  BY <1>1 DEF ExpiryOf
<1>4. new = mid \/ (/\ mid.state \in Open /\ ExpiresAt[e] <= t /\ new.updated = t
                   /\ new.state = "dead_letter")
  BY <1>3 DEF LapseMessage, Row
<1>5. mid.state = "queued" /\ ExpiresAt[e] <= t => new.state = "dead_letter"
  BY <1>3 DEF LapseMessage, Row, Open
<1> HIDE DEF new
<1>6. /\ new = row \/ (row.state \in Open /\ new.updated = t)
      /\ row.state = "claimed" /\ new # row => row.leaseUntil <= t \/ ExpiresAt[e] <= t
      /\ row.state = "queued" /\ ~(ExpiresAt[e] <= t) => new = row
      /\ row.state = "queued" /\ ExpiresAt[e] <= t => new.state = "dead_letter"
      /\ row.state \in Open => new.state \in Open \cup {"dead_letter"}
  BY <1>2, <1>4, <1>5 DEF Open
<1> QED BY <1>6 DEF new, mid

\* What expiry at time t may do to a row, with its reason.
Lapsed(row, new, e, t) ==
    /\ new \in Row
    /\ new.seq = row.seq
    /\ (new.state = "none") <=> (row.state = "none")
    /\ new = row \/ (row.state \in Open /\ new.updated = t)
    /\ new.state = "claimed" => new = row
    /\ row.state = "claimed" /\ new # row => row.leaseUntil <= t \/ ExpiresAt[e] <= t
    /\ row.state = "queued" /\ ~(ExpiresAt[e] <= t) => new = row
    /\ row.state = "queued" /\ ExpiresAt[e] <= t => new.state = "dead_letter"
    /\ row.state \in Open => new.state \in Open \cup {"dead_letter"}

\* The same for the table that claim and maintenance work on.
LEMMA LapsedTable ==
    ASSUME IInv, NEW t \in Nat
    PROVE  \A d \in DeliveryId : Lapsed(deliveries[d], Expired(t)[d], messages[d[1]], t)
<1> TAKE d \in DeliveryId
<1> DEFINE row == deliveries[d]
           new == Expired(t)[d]
           e   == messages[d[1]]
<1>1. row \in Row /\ RowOK(row)
  BY DEF IInv, TypeOK, RowsInv
<1>2. new = LapseMessage(LapseLease(row, t), e, t)
  BY DEF Expired
<1>3. ExpiryOf(row, new)
  BY ExpiredTable DEF IInv
<1> HIDE DEF row, new, e
<1>4. /\ new = row \/ (row.state \in Open /\ new.updated = t)
      /\ row.state = "claimed" /\ new # row => row.leaseUntil <= t \/ ExpiresAt[e] <= t
      /\ row.state = "queued" /\ ~(ExpiresAt[e] <= t) => new = row
      /\ row.state = "queued" /\ ExpiresAt[e] <= t => new.state = "dead_letter"
      /\ row.state \in Open => new.state \in Open \cup {"dead_letter"}
  BY <1>1, <1>2, ExpiryReason
<1>5. Lapsed(row, new, e, t)
  BY <1>3, <1>4 DEF ExpiryOf, Lapsed
<1> QED BY <1>5 DEF row, new, e

\* A claim leaves every row as expiry left it, or leases it to the caller.
LEMMA ClaimRows ==
    ASSUME IInv, NEW r \in Agent, NEW n, NEW l \in Nat, NEW t \in Nat, Claim(r, n, l, t)
    PROVE  \A d \in DeliveryId :
              LET rows == Expired(t)
              IN  \/ deliveries'[d] = rows[d]
                  \/ /\ d[2] = r
                     /\ d[1] \in FirstBySeq(Ready(rows, r, t), rows, r, n)
                     /\ rows[d].state = "queued"
                     /\ deliveries'[d] = Grant(rows[d], l, t)
                     /\ deliveries'[d].state = "claimed"
                     /\ deliveries'[d].updated = t
                     /\ deliveries'[d].seq = rows[d].seq
<1> TAKE d \in DeliveryId
<1> DEFINE rows == Expired(t)
           taken == FirstBySeq(Ready(rows, r, t), rows, r, n)
<1>1. deliveries'[d] = IF d[2] = r /\ d[1] \in taken THEN Grant(rows[d], l, t) ELSE rows[d]
  BY DEF Claim
<1>2. rows[d] \in Row
  BY LapsedTable DEF Lapsed
<1>3. ASSUME d[2] = r, d[1] \in taken
      PROVE  rows[d].state = "queued"
  <2>1. d = <<d[1], r>>
    BY <1>3 DEF DeliveryId
  <2> QED BY <1>3, <2>1 DEF FirstBySeq, Ready
<1> HIDE DEF rows, taken
<1>4. /\ Grant(rows[d], l, t).state = "claimed" /\ Grant(rows[d], l, t).updated = t
      /\ Grant(rows[d], l, t).seq = rows[d].seq
  BY <1>2 DEF Grant, Row
<1> QED BY <1>1, <1>3, <1>4 DEF rows, taken

\* Retention removes no delivery that was open before the step: its cutoff is
\* not later than the time expiry stamps.
LEMMA MaintenanceRows ==
    ASSUME IInv, NEW retain \in Nat, NEW t \in Nat, Maintenance(t - retain, t)
    PROVE  LET purged == {k \in Key : Purgeable(Expired(t), k, t - retain)}
           IN  \A d \in DeliveryId :
                  /\ d[1] \in purged => deliveries'[d] = NoRow /\ deliveries[d].state \notin Open
                  /\ d[1] \notin purged => deliveries'[d] = Expired(t)[d]
<1> DEFINE rows   == Expired(t)
           purged == {k \in Key : Purgeable(rows, k, t - retain)}
<1> SUFFICES ASSUME NEW d \in DeliveryId
             PROVE  /\ d[1] \in purged => deliveries'[d] = NoRow /\ deliveries[d].state \notin Open
                    /\ d[1] \notin purged => deliveries'[d] = rows[d]
  OBVIOUS
<1>1. deliveries'[d] = IF d[1] \in purged THEN NoRow ELSE rows[d]
  BY DEF Maintenance
<1>2. ASSUME d[1] \in purged, deliveries[d].state \in Open
      PROVE  FALSE
  <2>1. Lapsed(deliveries[d], rows[d], messages[d[1]], t)
    BY LapsedTable
  <2>2. d = <<d[1], d[2]>> /\ d[2] \in Agent
    BY DEF DeliveryId
  <2>3. rows[d].state # "none" => /\ rows[d].state \in TERMINAL_STATES
                                  /\ rows[d].updated < t - retain
    BY <1>2, <2>2 DEF Purgeable
  <2> HIDE DEF rows
  <2>4. rows[d].state # "none" /\ rows[d].updated = t
    BY <1>2, <2>1, <2>3 DEF Lapsed, Open, TERMINAL_STATES
  <2> QED BY <2>3, <2>4
<1> QED BY <1>1, <1>2
\* An admission adds queued rows under a key that had no rows at all.
LEMMA EnqueueRows ==
    ASSUME IInv, NEW e \in Envelope, NEW t \in Nat, Enqueue(e, t),
           ~UNCHANGED deliveries
    PROVE  \A d \in DeliveryId :
              /\ d[1] = KeyOf[e] => deliveries[d].state = "none"
              /\ d[1] = KeyOf[e] /\ d[2] \in Recipients(e) => deliveries'[d].state = "queued"
              /\ ~(d[1] = KeyOf[e] /\ d[2] \in Recipients(e)) => deliveries'[d] = deliveries[d]
<1> TAKE d \in DeliveryId
<1>1. messages[KeyOf[e]] = NoMessage /\ InsertMessage(e, t)
  BY DEF Enqueue
<1>2. d[1] = KeyOf[e] => deliveries[d].state = "none"
  BY <1>1 DEF IInv, RowsInv
<1>3. NewRow(e, d[2], t).state = "queued"
  BY DEF NewRow, NoRow
<1> QED BY <1>1, <1>2, <1>3 DEF InsertMessage

\* An accepted ack changes one row, which it leaves unclaimed, and enters the
\* ledger under the lease of that row.
LEMMA AcknowledgeRows ==
    ASSUME IInv, NEW a \in Ack, NEW t \in Nat, Acknowledge(a, t)
    PROVE  LET d == <<a.key, a.receiver>>
           IN  /\ d \in DeliveryId /\ deliveries[d].state = "claimed"
               /\ \E ev \in ackEvents' : ev.ack.lease = deliveries[d].lease
               /\ deliveries'[d].state \in {"queued", "acknowledged", "dead_letter"}
               /\ \A c \in DeliveryId : c # d => deliveries'[c] = deliveries[c]
<1> DEFINE d   == <<a.key, a.receiver>>
           row == deliveries[d]
<1>1. d \in DeliveryId /\ a.outcome \in Outcome
  BY DEF Ack, DeliveryId
<1>2. row \in Row /\ RowOK(row) /\ row.state = "claimed" /\ row.lease = a.lease
  BY <1>1 DEF IInv, TypeOK, RowsInv, Acknowledge, HoldsLease
<1>3. /\ deliveries' = [deliveries EXCEPT ![d] = Settle(row, a.outcome, t)]
      /\ ackEvents' = ackEvents \cup {[ack |-> a, seq |-> row.seq]}
      /\ deliveries \in [DeliveryId -> Row]
  BY DEF Acknowledge, IInv, TypeOK
<1> HIDE DEF row
<1>4. /\ Settle(row, a.outcome, t) \in Row
      /\ Settle(row, a.outcome, t).state \notin {"none", "claimed"}
  BY <1>1, <1>2, SettleRow
<1>5. Settle(row, a.outcome, t).state \in {"queued", "acknowledged", "dead_letter"}
  BY <1>4 DEF Row, State, Open, TERMINAL_STATES
<1>6. /\ deliveries'[d] = Settle(row, a.outcome, t)
      /\ \A c \in DeliveryId : c # d => deliveries'[c] = deliveries[c]
  BY <1>1, <1>3
<1>7. \E ev \in ackEvents' : ev.ack.lease = row.lease
  <2>1. [ack |-> a, seq |-> row.seq] \in ackEvents'
    BY <1>3
  <2> QED BY <1>2, <2>1
<1> QED BY <1>1, <1>2, <1>5, <1>6, <1>7 DEF row

\* An operation on the deliveries at some time, whoever calls it.
Operation ==
    \/ UNCHANGED deliveries
    \/ \E t \in Nat, e \in Envelope : Enqueue(e, t)
    \/ \E t \in Nat, r \in Agent, n \in ClaimLimits, l \in Nat : Claim(r, n, l, t)
    \/ \E t \in Nat, a \in Ack : Acknowledge(a, t)
    \/ \E t \in Nat, retain \in Nat : Maintenance(t - retain, t)

\* Every step of the broker is one.
LEMMA BrokerStep == ASSUME IInv, [Next]_vars PROVE Operation
<1>1. CallerTimes \subseteq Nat
  BY DEF IInv, TypeOK, CallerTimes
<1>2. CASE Tick \/ AdvanceCursorAny \/ UNCHANGED vars
  BY <1>2 DEF Tick, AdvanceCursorAny, AdvanceCursor, vars, Operation
<1>3. CASE \E t \in CallerTimes : EnqueueAny(t)
  BY <1>1, <1>3 DEF EnqueueAny, Operation
<1>4. CASE \E t \in CallerTimes : ClaimAny(t)
  BY <1>1, <1>4, PolicyAssumption DEF ClaimAny, Operation
<1>5. CASE \E t \in CallerTimes : AcknowledgeAny(t)
  BY <1>1, <1>5, GrantedAcksType DEF AcknowledgeAny, IInv, Operation
<1>6. CASE \E t \in CallerTimes : MaintenanceAny(t)
  BY <1>1, <1>6, PolicyAssumption DEF MaintenanceAny, Operation
<1> QED BY <1>2, <1>3, <1>4, <1>5, <1>6 DEF Next, Operation

-----------------------------------------------------------------------------
(* Action properties *)

\* A running lease is lost only to an ack that names it, or once the lease or
\* the message has run out: not to another claim, to retention or to an ack
\* of an earlier attempt.
THEOREM RunningLeasesKept == Spec => LiveLeaseKept
<1> DEFINE Kept == \A d \in DeliveryId :
                      deliveries[d].state = "claimed" /\ deliveries'[d] # deliveries[d] =>
                         \/ \E ev \in ackEvents' : ev.ack.lease = deliveries[d].lease
                         \/ deliveries'[d].updated >= deliveries[d].leaseUntil
                         \/ deliveries'[d].updated >= ExpiresAt[messages[d[1]]]
<1>1. IInv /\ [Next]_vars => Kept
  <2> SUFFICES ASSUME IInv, [Next]_vars, NEW d \in DeliveryId,
                      deliveries[d].state = "claimed", deliveries'[d] # deliveries[d]
               PROVE  \/ \E ev \in ackEvents' : ev.ack.lease = deliveries[d].lease
                      \/ deliveries'[d].updated >= deliveries[d].leaseUntil
                      \/ deliveries'[d].updated >= ExpiresAt[messages[d[1]]]
    OBVIOUS
  <2>1. deliveries[d].leaseUntil \in Nat /\ ExpiresAt[messages[d[1]]] \in Nat
    <3>1. messages[d[1]] \in Envelope
      BY DEF IInv, TypeOK, RowsInv, DeliveryId
    <3> QED BY <3>1, EnvelopeAssumption DEF IInv, TypeOK, Row
  <2>2. ASSUME NEW t \in Nat, Expired(t)[d] # deliveries[d]
        PROVE  /\ Expired(t)[d].updated = t
               /\ t >= deliveries[d].leaseUntil \/ t >= ExpiresAt[messages[d[1]]]
    <3>1. Lapsed(deliveries[d], Expired(t)[d], messages[d[1]], t)
      BY LapsedTable
    <3> QED BY <2>1, <2>2, <3>1 DEF Lapsed
  <2>3. ASSUME NEW t \in Nat, NEW e \in Envelope, Enqueue(e, t) PROVE FALSE
    BY <2>3, EnqueueRows
  <2>4. ASSUME NEW t \in Nat, NEW r \in Agent, NEW n \in ClaimLimits, NEW l \in Nat,
               Claim(r, n, l, t)
        PROVE  \/ deliveries'[d].updated >= deliveries[d].leaseUntil
               \/ deliveries'[d].updated >= ExpiresAt[messages[d[1]]]
    <3>1. \/ deliveries'[d] = Expired(t)[d]
          \/ Expired(t)[d].state = "queued" /\ deliveries'[d].updated = t
      BY <2>4, ClaimRows
    <3> QED BY <2>2, <3>1
  <2>5. ASSUME NEW t \in Nat, NEW a \in Ack, Acknowledge(a, t)
        PROVE  \E ev \in ackEvents' : ev.ack.lease = deliveries[d].lease
    BY <2>5, AcknowledgeRows
  <2>6. ASSUME NEW t \in Nat, NEW retain \in Nat, Maintenance(t - retain, t)
        PROVE  \/ deliveries'[d].updated >= deliveries[d].leaseUntil
               \/ deliveries'[d].updated >= ExpiresAt[messages[d[1]]]
    <3>1. deliveries'[d] = Expired(t)[d]
      BY <2>6, MaintenanceRows DEF Open
    <3> QED BY <2>2, <3>1
  <2> QED BY <2>3, <2>4, <2>5, <2>6, BrokerStep DEF Operation
<1> QED BY <1>1, Invariance, PTL DEF Spec, LiveLeaseKept

\* At any time finitely many messages are stored.
StoredFinite == IsFiniteSet({k \in Key : messages[k] # NoMessage})

\* Admission adds one message, retention removes some.
LEMMA FiniteInvariance == Spec => []StoredFinite
<1>1. Init => StoredFinite
  <2> SUFFICES ASSUME Init PROVE StoredFinite
    OBVIOUS
  <2>1. {k \in Key : messages[k] # NoMessage} = {}
    BY DEF Init
  <2> QED BY <2>1, FS_EmptySet DEF StoredFinite
<1>2. IInv /\ StoredFinite /\ [Next]_vars => StoredFinite'
  <2> SUFFICES ASSUME IInv, StoredFinite, [Next]_vars PROVE StoredFinite'
    OBVIOUS
  <2> DEFINE S == {k \in Key : messages[k] # NoMessage}
             T == {k \in Key : messages'[k] # NoMessage}
  <2>1. PICK x : T \subseteq S \cup {x}
    <3>1. ASSUME NEW e \in Envelope, NEW t, Enqueue(e, t)
          PROVE  T \subseteq S \cup {KeyOf[e]}
      BY <3>1 DEF Enqueue, InsertMessage, IInv, TypeOK
    <3>2. ASSUME NEW cutoff, NEW t, Maintenance(cutoff, t) PROVE T \subseteq S
      BY <3>2 DEF Maintenance
    <3>3. ASSUME UNCHANGED messages PROVE T \subseteq S
      BY <3>3
    <3>4. \/ UNCHANGED messages
          \/ \E e \in Envelope, t \in CallerTimes : Enqueue(e, t)
          \/ \E t \in CallerTimes, retain \in RetainTimes : Maintenance(t - retain, t)
      BY DEF Next, vars, Tick, EnqueueAny, ClaimAny, Claim, AcknowledgeAny, Acknowledge,
             MaintenanceAny, AdvanceCursorAny, AdvanceCursor
    <3> QED BY <3>1, <3>2, <3>3, <3>4
  <2>2. IsFiniteSet(S \cup {x})
    BY FS_AddElement DEF StoredFinite
  <2>3. IsFiniteSet(T)
    BY <2>1, <2>2, FS_Subset
  <2> QED BY <2>3 DEF StoredFinite
<1> QED BY <1>1, <1>2, Invariance, PTL DEF Spec

\* A claim takes the oldest available deliveries of its recipient: if it takes
\* one, it also takes every older one that was ready, or gives it up as expired.
THEOREM ServedOldestFirst == Spec => OldestFirst
<1> DEFINE Fair == \A r \in Agent, k, j \in Key :
          LET old == deliveries[<<j, r>>]
              got == deliveries'[<<k, r>>]
          IN  /\ got.state = "claimed" /\ deliveries[<<k, r>>].lease # got.lease
              /\ old.state = "queued" /\ old.available <= got.updated
              /\ old.seq < got.seq
              => deliveries'[<<j, r>>].state # "queued"
<1>1. IInv /\ StoredFinite /\ [Next]_vars => Fair
  <2> SUFFICES ASSUME IInv, StoredFinite, [Next]_vars, NEW s \in Agent, NEW k \in Key, NEW j \in Key,
                      deliveries'[<<k, s>>].state = "claimed",
                      deliveries[<<k, s>>].lease # deliveries'[<<k, s>>].lease,
                      deliveries[<<j, s>>].state = "queued",
                      deliveries[<<j, s>>].available <= deliveries'[<<k, s>>].updated,
                      deliveries[<<j, s>>].seq < deliveries'[<<k, s>>].seq,
                      deliveries'[<<j, s>>].state = "queued"
               PROVE  FALSE
    BY DEF Fair
  <2>1. <<k, s>> \in DeliveryId /\ <<j, s>> \in DeliveryId
    BY DEF DeliveryId
  <2>2. ASSUME NEW t \in Nat PROVE Expired(t)[<<k, s>>].state = "claimed" =>
                                       Expired(t)[<<k, s>>] = deliveries[<<k, s>>]
    BY <2>1, LapsedTable DEF Lapsed
  <2>3. PICK t \in Nat, r \in Agent, n \in ClaimLimits, l \in Nat : Claim(r, n, l, t)
    <3>1. ASSUME NEW t \in Nat, NEW e \in Envelope, Enqueue(e, t) PROVE FALSE
      BY <2>1, <3>1, EnqueueRows
    <3>2. ASSUME NEW t \in Nat, NEW a \in Ack, Acknowledge(a, t) PROVE FALSE
      BY <2>1, <3>2, AcknowledgeRows
    <3>3. ASSUME NEW t \in Nat, NEW retain \in Nat, Maintenance(t - retain, t) PROVE FALSE
      <4>1. NoRow.state = "none"
        BY DEF NoRow
      <4>2. deliveries'[<<k, s>>] \in {NoRow, Expired(t)[<<k, s>>]}
        BY <2>1, <3>3, MaintenanceRows
      <4> QED BY <2>2, <4>1, <4>2
    <3> QED BY <3>1, <3>2, <3>3, BrokerStep DEF Operation
  <2> DEFINE rows  == Expired(t)
             ready == Ready(rows, s, t)
             Older(x) == {i \in ready : rows[<<i, s>>].seq < rows[<<x, s>>].seq}
  <2>4. /\ s = r /\ k \in FirstBySeq(ready, rows, s, n)
        /\ deliveries'[<<k, s>>].updated = t
        /\ deliveries'[<<k, s>>].seq = rows[<<k, s>>].seq
    <3> DEFINE d == <<k, s>>
    <3>1. d[1] = k /\ d[2] = s /\ d \in DeliveryId
      BY <2>1
    <3>2. deliveries'[d] # rows[d]
      BY <2>2
    <3> HIDE DEF d
    <3>3. /\ d[2] = r /\ d[1] \in FirstBySeq(Ready(rows, r, t), rows, r, n)
          /\ deliveries'[d].updated = t /\ deliveries'[d].seq = rows[d].seq
      BY <2>3, <3>1, <3>2, ClaimRows
    <3> QED BY <3>1, <3>3 DEF d
  <2>5. rows[<<j, s>>] = deliveries[<<j, s>>] /\ ~(ExpiresAt[messages[j]] <= t)
    <3>1. deliveries'[<<j, s>>] = rows[<<j, s>>]
      BY <2>1, <2>3, ClaimRows
    <3> QED BY <2>1, <3>1, LapsedTable DEF Lapsed
  <2>6. j \in ready
    <3>1. ExpiresAt[messages[j]] > t
      <4>1. messages[j] \in Envelope
        BY <2>1 DEF IInv, TypeOK, RowsInv
      <4> QED BY <2>5, <4>1, EnvelopeAssumption
    <3> QED BY <2>4, <2>5, <3>1 DEF Ready
  <2>7. \A i \in ready : i \in Key /\ messages[i] # NoMessage /\ rows[<<i, s>>].seq \in Nat
    <3> TAKE i \in ready
    <3>1. i \in Key /\ rows[<<i, s>>].state = "queued" /\ <<i, s>> \in DeliveryId
      BY DEF Ready, DeliveryId
    <3>2. Lapsed(deliveries[<<i, s>>], rows[<<i, s>>], messages[i], t)
      BY <3>1, LapsedTable
    <3>3. deliveries[<<i, s>>].state # "none" /\ rows[<<i, s>>].seq \in Nat
      BY <3>1, <3>2 DEF Lapsed, Row
    <3> QED BY <3>1, <3>3 DEF IInv, RowsInv
  <2>8. rows[<<j, s>>].seq < rows[<<k, s>>].seq
    BY <2>4, <2>5
  <2>9. k \in ready /\ Cardinality(Older(k)) < n
    BY <2>4 DEF FirstBySeq
  <2> HIDE DEF rows, ready
  <2>10. Older(j) \subseteq Older(k)
    <3>1. \A i \in ready : /\ rows[<<i, s>>].seq \in Nat
                            /\ rows[<<j, s>>].seq \in Nat /\ rows[<<k, s>>].seq \in Nat
      BY <2>6, <2>7, <2>9
    <3> QED BY <2>8, <3>1
  <2>11. IsFiniteSet(Older(k))
    <3>1. Older(k) \subseteq {i \in Key : messages[i] # NoMessage}
      BY <2>7
    <3> QED BY <3>1, FS_Subset DEF StoredFinite
  <2>12. Cardinality(Older(j)) <= Cardinality(Older(k))
    BY <2>10, <2>11, FS_Subset
  <2>13. /\ Cardinality(Older(j)) \in Nat /\ Cardinality(Older(k)) \in Nat /\ n \in Nat
    BY <2>10, <2>11, FS_Subset, FS_CardinalityType, PolicyAssumption
  <2>14. Cardinality(Older(j)) < n
    <3> HIDE DEF Older
    <3> QED BY <2>9, <2>12, <2>13
  <2>15. j \in FirstBySeq(Ready(Expired(t), s, t), Expired(t), s, n)
    BY <2>6, <2>14 DEF FirstBySeq, ready, rows
  <2>16. deliveries'[<<j, s>>].state = "claimed"
    <3>1. deliveries'[<<j, s>>] = Grant(rows[<<j, s>>], l, t)
      BY <2>1, <2>3, <2>4, <2>15 DEF Claim, rows
    <3>2. rows[<<j, s>>] \in Row
      BY <2>1, <2>5 DEF IInv, TypeOK
    <3> QED BY <3>1, <3>2 DEF Grant, Row
  <2> QED BY <2>16
<1> QED BY <1>1, Invariance, FiniteInvariance, PTL DEF Spec, OldestFirst
-----------------------------------------------------------------------------
(* The broker implements the delivery contract *)

statusBar == [d \in DeliveryId |-> StatusOf(deliveries[d])]

\* The status of a row, case by case.
LEMMA StatusCases ==
    ASSUME NEW row
    PROVE  /\ row.state = "none" => StatusOf(row) = "absent"
           /\ row.state \in Open => StatusOf(row) = "pending"
           /\ row.state \in TERMINAL_STATES => StatusOf(row) = row.state
BY DEF StatusOf, Open, TERMINAL_STATES

\* Admission is the contract's Admit.
LEMMA EnqueueContract ==
    ASSUME IInv, NEW e \in Envelope, NEW t \in Nat, Enqueue(e, t), ~UNCHANGED deliveries
    PROVE  Contract!Admit(KeyOf[e], Recipients(e)) /\ KeyOf[e] \in Key
              /\ Recipients(e) \in SUBSET Agent
<1>1. KeyOf[e] \in Key
  BY EnvelopeAssumption
<1>2. Recipients(e) \in SUBSET Agent
  BY FreshNumbers DEF IInv
<1>3. \A d \in DeliveryId :
         /\ d[1] = KeyOf[e] => statusBar[d] = "absent"
         /\ statusBar'[d] = IF d[1] = KeyOf[e] /\ d[2] \in Recipients(e)
                            THEN "pending" ELSE statusBar[d]
  BY EnqueueRows, StatusCases DEF statusBar, Open
<1>4. statusBar' = [d \in DeliveryId |-> IF d[1] = KeyOf[e] /\ d[2] \in Recipients(e)
                                         THEN "pending" ELSE statusBar[d]]
  BY <1>3 DEF statusBar
<1>5. \A r \in Agent : <<KeyOf[e], r>> \in DeliveryId
  BY <1>1 DEF DeliveryId
<1>6. \A r \in Agent : statusBar[<<KeyOf[e], r>>] = "absent"
  BY <1>3, <1>5
<1> QED BY <1>1, <1>2, <1>4, <1>6 DEF Contract!Admit, Contract!DeliveryId, DeliveryId, statusBar

\* Expiry, with or without a purge of messages whose deliveries all had a
\* verdict, is the contract's Housekeep.
LEMMA HousekeepContract ==
    ASSUME NEW purged \in SUBSET Key,
           \A d \in DeliveryId :
              IF d[1] \in purged
              THEN statusBar[d] # "pending" /\ statusBar'[d] = "absent"
              ELSE \/ statusBar'[d] = statusBar[d]
                   \/ statusBar[d] = "pending" /\ statusBar'[d] = "dead_letter"
    PROVE  \E D \in SUBSET DeliveryId, K \in SUBSET Key : Contract!Housekeep(D, K)
<1> DEFINE D == {d \in DeliveryId : statusBar[d] = "pending" /\ statusBar'[d] = "dead_letter"}
<1>1. \A d \in DeliveryId : statusBar'[d] = IF d[1] \in purged THEN "absent"
                                            ELSE IF d \in D THEN "dead_letter" ELSE statusBar[d]
  OBVIOUS
<1>2. \A k \in purged, r \in Agent : statusBar[<<k, r>>] # "pending"
  BY DEF DeliveryId
<1>3. statusBar' = [d \in DeliveryId |-> IF d[1] \in purged THEN "absent"
                                         ELSE IF d \in D THEN "dead_letter" ELSE statusBar[d]]
  BY <1>1 DEF statusBar
<1>4. Contract!Housekeep(D, purged)
  BY <1>2, <1>3 DEF Contract!Housekeep, Contract!DeliveryId, DeliveryId, statusBar
<1> QED BY <1>4

\* Expiry alone, which purges nothing, is a Housekeep too.
LEMMA ExpiryContract ==
    ASSUME \A d \in DeliveryId : \/ statusBar'[d] = statusBar[d]
                                 \/ statusBar[d] = "pending" /\ statusBar'[d] = "dead_letter"
    PROVE  \E D \in SUBSET DeliveryId, K \in SUBSET Key : Contract!Housekeep(D, K)
<1> DEFINE purged == {k \in Key : FALSE}
<1>1. purged \in SUBSET Key
  OBVIOUS
<1>2. \A d \in DeliveryId :
         IF d[1] \in purged
         THEN statusBar[d] # "pending" /\ statusBar'[d] = "absent"
         ELSE \/ statusBar'[d] = statusBar[d]
              \/ statusBar[d] = "pending" /\ statusBar'[d] = "dead_letter"
  OBVIOUS
<1> HIDE DEF purged
<1> QED BY <1>1, <1>2, HousekeepContract

\* Every operation is a step of the contract or changes no status.
LEMMA ContractStep == IInv /\ Operation => [Contract!Next]_statusBar
<1> SUFFICES ASSUME IInv, Operation, ~UNCHANGED deliveries
             PROVE  Contract!Next \/ statusBar' = statusBar
  BY DEF statusBar
<1>0. \A d \in DeliveryId : statusBar[d] = StatusOf(deliveries[d])
                             /\ statusBar'[d] = StatusOf(deliveries'[d])
  BY DEF statusBar
<1>1. ASSUME NEW t \in Nat, NEW e \in Envelope, Enqueue(e, t) PROVE Contract!Next
  BY <1>1, EnqueueContract DEF Contract!Next
<1>2. ASSUME NEW t \in Nat, NEW d \in DeliveryId
      PROVE  LET new == StatusOf(Expired(t)[d])
             IN  new = statusBar[d] \/ (statusBar[d] = "pending" /\ new = "dead_letter")
  <2>1. Lapsed(deliveries[d], Expired(t)[d], messages[d[1]], t)
    BY LapsedTable
  <2>2. CASE deliveries[d].state \in Open
    BY <1>0, <2>1, <2>2, StatusCases DEF Lapsed, Open, TERMINAL_STATES
  <2>3. CASE deliveries[d].state \notin Open
    BY <1>0, <2>1, <2>3 DEF Lapsed
  <2> QED BY <2>2, <2>3
<1>3. ASSUME NEW t \in Nat, NEW r \in Agent, NEW n \in ClaimLimits, NEW l \in Nat,
             Claim(r, n, l, t)
      PROVE  Contract!Next
  <2>1. ASSUME NEW d \in DeliveryId
        PROVE  \/ statusBar'[d] = statusBar[d]
               \/ statusBar[d] = "pending" /\ statusBar'[d] = "dead_letter"
    <3>1. \/ deliveries'[d] = Expired(t)[d]
          \/ Expired(t)[d].state = "queued" /\ deliveries'[d].state = "claimed"
      BY <1>3, ClaimRows
    <3>2. StatusOf(deliveries'[d]) = StatusOf(Expired(t)[d])
      BY <3>1, StatusCases DEF Open
    <3> QED BY <1>0, <1>2, <3>2
  <2>2. \E D \in SUBSET DeliveryId, K \in SUBSET Key : Contract!Housekeep(D, K)
    BY <2>1, ExpiryContract
  <2> QED BY <2>2 DEF Contract!Next, Contract!DeliveryId, DeliveryId
<1>4. ASSUME NEW t \in Nat, NEW retain \in Nat, Maintenance(t - retain, t)
      PROVE  Contract!Next
  <2> DEFINE purged == {k \in Key : Purgeable(Expired(t), k, t - retain)}
  <2>1. NoRow.state = "none"
    BY DEF NoRow
  <2>2. ASSUME NEW d \in DeliveryId
        PROVE  IF d[1] \in purged
               THEN statusBar[d] # "pending" /\ statusBar'[d] = "absent"
               ELSE \/ statusBar'[d] = statusBar[d]
                    \/ statusBar[d] = "pending" /\ statusBar'[d] = "dead_letter"
    <3>1. CASE d[1] \in purged
      <4>1. deliveries'[d] = NoRow /\ deliveries[d].state \notin Open
        BY <1>4, <3>1, MaintenanceRows
      <4>2. statusBar'[d] = "absent"
        BY <1>0, <2>1, <4>1, StatusCases
      <4>3. deliveries[d].state \in {"none"} \cup TERMINAL_STATES
        BY <4>1 DEF IInv, TypeOK, Row, State
      <4>4. statusBar[d] # "pending"
        BY <1>0, <4>3, StatusCases DEF TERMINAL_STATES
      <4> QED BY <3>1, <4>2, <4>4
    <3>2. CASE d[1] \notin purged
      <4>1. deliveries'[d] = Expired(t)[d]
        BY <1>4, <3>2, MaintenanceRows
      <4> QED BY <1>0, <1>2, <3>2, <4>1
    <3> QED BY <3>1, <3>2
  <2>3. \E D \in SUBSET DeliveryId, K \in SUBSET Key : Contract!Housekeep(D, K)
    <3>1. purged \in SUBSET Key
      OBVIOUS
    <3> HIDE DEF purged
    <3> QED BY <2>2, <3>1, HousekeepContract
  <2> QED BY <2>3 DEF Contract!Next, Contract!DeliveryId, DeliveryId
<1>5. ASSUME NEW t \in Nat, NEW a \in Ack, Acknowledge(a, t)
      PROVE  Contract!Next \/ statusBar' = statusBar
  <2> DEFINE d == <<a.key, a.receiver>>
  <2>1. /\ d \in DeliveryId /\ deliveries[d].state = "claimed"
        /\ deliveries'[d].state \in {"queued", "acknowledged", "dead_letter"}
        /\ \A c \in DeliveryId : c # d => deliveries'[c] = deliveries[c]
    BY <1>5, AcknowledgeRows
  <2> HIDE DEF d
  <2>2. /\ statusBar[d] = "pending"
        /\ deliveries'[d].state = "queued" => statusBar'[d] = "pending"
        /\ deliveries'[d].state # "queued" => statusBar'[d] = deliveries'[d].state
        /\ \A c \in DeliveryId : c # d => statusBar'[c] = statusBar[c]
    BY <1>0, <2>1, StatusCases DEF Open, TERMINAL_STATES
  <2>3. CASE deliveries'[d].state = "queued"
    <3>1. \A c \in DeliveryId : statusBar'[c] = statusBar[c]
      BY <2>2, <2>3
    <3> QED BY <3>1 DEF statusBar
  <2>4. CASE deliveries'[d].state = "acknowledged"
    <3>1. statusBar' = [statusBar EXCEPT ![d] = "acknowledged"]
      BY <2>1, <2>2, <2>4 DEF statusBar
    <3>2. Contract!Acknowledge(d)
      BY <2>2, <3>1 DEF Contract!Acknowledge, statusBar
    <3> QED BY <2>1, <3>2 DEF Contract!Next, Contract!DeliveryId, DeliveryId
  <2>5. CASE deliveries'[d].state = "dead_letter"
    <3>1. \A c \in DeliveryId : \/ statusBar'[c] = statusBar[c]
                                \/ statusBar[c] = "pending" /\ statusBar'[c] = "dead_letter"
      BY <2>2, <2>5
    <3>2. \E D \in SUBSET DeliveryId, K \in SUBSET Key : Contract!Housekeep(D, K)
      BY <3>1, ExpiryContract
    <3> QED BY <3>2 DEF Contract!Next, Contract!DeliveryId, DeliveryId
  <2> QED BY <2>1, <2>3, <2>4, <2>5
<1> QED BY <1>1, <1>3, <1>4, <1>5 DEF Operation

\* The empty database has no delivery.
LEMMA ContractInit == Init => Contract!Init
<1> SUFFICES ASSUME Init PROVE Contract!Init
  OBVIOUS
<1>1. NoRow.state = "none"
  BY DEF NoRow
<1>2. \A d \in DeliveryId : StatusOf(deliveries[d]) = "absent"
  BY <1>1, StatusCases DEF Init
<1> QED BY <1>2 DEF Contract!Init, Contract!DeliveryId, DeliveryId

\* The broker implements DeliveryContract: recipients are admitted together,
\* verdicts are final, and a message is forgotten as a whole and only when
\* every recipient has a verdict.
THEOREM ImplementsContract == Spec => RefinesContract
<1>1. IInv /\ [Next]_vars => [Contract!Next]_statusBar
  BY BrokerStep, ContractStep
<1> QED BY <1>1, ContractInit, Invariance, PTL DEF Spec, RefinesContract, Contract!Spec, statusBar
=============================================================================
