------------------------------- MODULE Broker -------------------------------
(***************************************************************************)
(* The hub's durable delivery engine: the messages, deliveries, ack_events *)
(* and consumer_cursors tables of SQLiteBroker (tribe_broker_v1.py) and    *)
(* its trusted-time high-water mark.                                       *)
(*                                                                         *)
(* Every public method of SQLiteBroker is one BEGIN IMMEDIATE transaction  *)
(* that commits as a whole or is rolled back, so it is one action here; a  *)
(* call that raises changes nothing and is a disabled action.  Each method *)
(* takes its notion of "now" from the caller, who read the wall clock      *)
(* before the transaction began; the actions therefore take a time t that  *)
(* may lag the clock.                                                      *)
(***************************************************************************)
EXTENDS Integers, Sequences, FiniteSets

CONSTANTS
    Envelope,       \* signed envelopes (an envelope is its canonical bytes)
    NoMessage,      \* no row in messages
    Key,            \* values of UNIQUE(sender_id, message_id)
    Agent,          \* recipients
    Consumer,       \* names under which a recipient keeps a read cursor
    KeyOf,          \* envelope -> its (sender_id, message_id)
    To,             \* envelope -> the sequence envelope["recipients"]
    IssuedAt,       \* envelope -> issued_at_ms
    ExpiresAt,      \* envelope -> expires_at_ms
    KeyStamp,       \* key -> timestamp inside the UUIDv7 message_id
    KeyNotAfter,    \* envelope -> not_after_ms of the sender's signing key
    MaxAttempts,    \* SQLiteBroker.max_attempts
    RetryBase,      \* SQLiteBroker.retry_base_ms
    RetryMax,       \* SQLiteBroker.retry_max_ms
    MaxTtl,         \* protocol.MAX_TTL_MS
    MaxClockSkew,   \* protocol.MAX_CLOCK_SKEW_MS
    LeaseTimes,     \* the lease_ms a claim may ask for
    ClaimLimits,    \* the limit a claim may ask for
    RetainTimes,    \* retention periods the operator asks maintenance for
    MaxTime,        \* bound: the clock stops here
    MaxLag,         \* bound: how far a caller's time may lag the clock
    ClientSkew      \* bound: how far a signer's clock is off the hub's

ASSUME EnvelopeAssumption ==
    /\ NoMessage \notin Envelope
    /\ KeyOf \in [Envelope -> Key]
    /\ To \in [Envelope -> Seq(Agent)]
    /\ \A e \in Envelope :
          /\ To[e] # <<>>
          /\ \A i, j \in DOMAIN To[e] : To[e][i] = To[e][j] => i = j
    /\ IssuedAt \in [Envelope -> Nat]
    /\ ExpiresAt \in [Envelope -> Nat]
    /\ KeyStamp \in [Key -> Nat]
    /\ KeyNotAfter \in [Envelope -> Nat]

ASSUME PolicyAssumption ==
    /\ MaxAttempts \in Nat \ {0}
    /\ RetryBase \in Nat /\ RetryMax \in Nat
    /\ MaxTtl \in Nat /\ MaxClockSkew \in Nat
    /\ LeaseTimes \subseteq Nat \ {0}
    /\ ClaimLimits \subseteq Nat \ {0}
    /\ RetainTimes \subseteq Nat
    /\ MaxTime \in Nat /\ MaxLag \in Nat /\ ClientSkew \in Nat

VARIABLES
    clock,          \* wall clock of the hub's host
    highWater,      \* broker_meta.trusted_time_high_water_ms
    messages,       \* messages: the envelope stored under each key
    deliveries,     \* deliveries: one row per stored message and recipient
    nextSeq,        \* AUTOINCREMENT counter of deliveries.seq
    ackEvents,      \* ack_events
    cursors         \* consumer_cursors

vars == <<clock, highWater, messages, deliveries, nextSeq, ackEvents, cursors>>

-----------------------------------------------------------------------------
(* Rows *)

\* A lease id is fresh for every claim (uuid4).  It is named by the delivery
\* it was granted on and the attempt that it started.
Lease == Nat \X Nat
NoLease == <<0, 0>>

DeliveryId == Key \X Agent
Open == {"queued", "claimed"}
TERMINAL_STATES == {"acknowledged", "dead_letter"}
Outcome == {"processed", "retryable_failed", "terminal_failed"}
LastError == {"", "lease_expired", "max_attempts_after_lease_expiry",
              "message_expired", "terminal_failed", "max_attempts",
              "retryable_failed"}

State == {"none"} \cup Open \cup TERMINAL_STATES

Row == [state      : State,
        seq        : Nat,
        available  : Int,
        lease      : Lease,
        leaseUntil : Nat,
        attempts   : Nat,
        error      : LastError,
        updated    : Nat]

NoRow == [state |-> "none", seq |-> 0, available |-> 0, lease |-> NoLease,
          leaseUntil |-> 0, attempts |-> 0, error |-> "", updated |-> 0]

\* A signed acknowledgement.  Its hash stands for all of its fields.
Ack == [receiver : Agent, key : Key, lease : Lease, envelope : Envelope,
        outcome : Outcome, issued : Nat]

AckEvent == [ack : Ack, seq : Nat]

Recipients(e) == {To[e][i] : i \in DOMAIN To[e]}

-----------------------------------------------------------------------------
(* Trusted time *)

\* Mutant: a time behind the mark is tolerated instead of refused.
ObserveTrustedTime_Lenient(t) == highWater' = IF t > highWater THEN t ELSE highWater

\* _observe_trusted_time: fail closed behind the high-water mark.
ObserveTrustedTime(t) == t >= highWater /\ highWater' = t

-----------------------------------------------------------------------------
(* Admission *)

\* The times validate_structure accepts: a bounded lifetime, and a UUIDv7
\* message_id minted about when the envelope was issued.
WellTimed(e) ==
    /\ IssuedAt[e] < ExpiresAt[e]
    /\ ExpiresAt[e] - IssuedAt[e] <= MaxTtl
    /\ KeyStamp[KeyOf[e]] - IssuedAt[e] <= MaxClockSkew
    /\ IssuedAt[e] - KeyStamp[KeyOf[e]] <= MaxClockSkew

\* validate_broker_admission at time t, for an envelope whose signature and
\* recipient set the directory accepts.
Admissible(e, t) ==
    /\ WellTimed(e)
    /\ IssuedAt[e] <= t + MaxClockSkew
    /\ ExpiresAt[e] > t
    /\ IssuedAt[e] < KeyNotAfter[e]
    /\ t < KeyNotAfter[e]

\* The delivery of e to its i-th recipient gets the i-th new sequence number.
NewSeq(e, r) == nextSeq + (CHOOSE i \in DOMAIN To[e] : To[e][i] = r) - 1

NewRow(e, r, t) ==
    [NoRow EXCEPT !.state = "queued", !.seq = NewSeq(e, r),
                  !.available = t, !.updated = t]

InsertMessage(e, t) ==
    /\ messages' = [messages EXCEPT ![KeyOf[e]] = e]
    /\ deliveries' = [d \in DeliveryId |->
                        IF d[1] = KeyOf[e] /\ d[2] \in Recipients(e)
                        THEN NewRow(e, d[2], t)
                        ELSE deliveries[d]]
    /\ nextSeq' = nextSeq + Len(To[e])

\* enqueue: insert a message nobody stored under its key, or answer the
\* identical retry of a stored one.  Different bytes under a stored key
\* raise MessageConflict.
Enqueue(e, t) ==
    /\ ObserveTrustedTime(t)
    /\ Admissible(e, t)
    /\ \/ messages[KeyOf[e]] = NoMessage /\ InsertMessage(e, t)
       \/ messages[KeyOf[e]] = e /\ UNCHANGED <<messages, deliveries, nextSeq>>
    /\ UNCHANGED <<clock, ackEvents, cursors>>

-----------------------------------------------------------------------------
(* Expiry *)

\* Mutant: a lapsed lease always goes back to the queue.
LapseLease_Requeues(row, t) ==
    IF row.state = "claimed" /\ row.leaseUntil <= t
    THEN [row EXCEPT !.state = "queued", !.available = t, !.lease = NoLease,
                     !.leaseUntil = 0, !.error = "lease_expired", !.updated = t]
    ELSE row

\* Mutant: expiry forgets to look at lease_until_ms.
LapseLease_Early(row, t) ==
    IF row.state = "claimed" /\ row.attempts < MaxAttempts
    THEN [row EXCEPT !.state = "queued", !.available = t, !.lease = NoLease,
                     !.leaseUntil = 0, !.error = "lease_expired", !.updated = t]
    ELSE row

\* First UPDATE of _expire_leases_and_messages: a lapsed lease.
LapseLease(row, t) ==
    IF row.state = "claimed" /\ row.leaseUntil <= t
    THEN [row EXCEPT
            !.state = IF row.attempts >= MaxAttempts THEN "dead_letter"
                                                     ELSE "queued",
            !.available = t, !.lease = NoLease, !.leaseUntil = 0,
            !.error = IF row.attempts >= MaxAttempts
                      THEN "max_attempts_after_lease_expiry"
                      ELSE "lease_expired",
            !.updated = t]
    ELSE row

\* Mutant: message expiry misses the rows nobody has claimed.
LapseMessage_ClaimedOnly(row, e, t) ==
    IF row.state = "claimed" /\ ExpiresAt[e] <= t
    THEN [row EXCEPT !.state = "dead_letter", !.lease = NoLease,
                     !.leaseUntil = 0, !.error = "message_expired", !.updated = t]
    ELSE row

\* Second UPDATE: an open delivery of a message that expired.
LapseMessage(row, e, t) ==
    IF row.state \in Open /\ ExpiresAt[e] <= t
    THEN [row EXCEPT !.state = "dead_letter", !.lease = NoLease,
                     !.leaseUntil = 0, !.error = "message_expired",
                     !.updated = t]
    ELSE row

\* The deliveries table after both, for every recipient.
Expired(t) ==
    [d \in DeliveryId |->
        LapseMessage(LapseLease(deliveries[d], t), messages[d[1]], t)]

-----------------------------------------------------------------------------
(* Claim *)

\* The keys a claim of r may take at t, given the rows after expiry.
Ready(rows, r, t) ==
    {k \in Key : /\ rows[<<k, r>>].state = "queued"
                 /\ rows[<<k, r>>].available <= t
                 /\ ExpiresAt[messages[k]] > t}

\* Mutant: ORDER BY seq DESC
FirstBySeq_Newest(K, rows, r, n) ==
    {k \in K : Cardinality({j \in K :
                   rows[<<j, r>>].seq > rows[<<k, r>>].seq}) < n}

\* ORDER BY seq LIMIT n
FirstBySeq(K, rows, r, n) ==
    {k \in K : Cardinality({j \in K :
                   rows[<<j, r>>].seq < rows[<<k, r>>].seq}) < n}

NewLease(row) == <<row.seq, row.attempts + 1>>

Grant(row, leaseMs, t) ==
    [row EXCEPT !.state = "claimed", !.lease = NewLease(row),
                !.leaseUntil = t + leaseMs, !.attempts = row.attempts + 1,
                !.updated = t]

\* claim: expire everybody's rows, then lease the oldest ready ones of r.
Claim(r, n, leaseMs, t) ==
    LET rows  == Expired(t)
        taken == FirstBySeq(Ready(rows, r, t), rows, r, n)
    IN  /\ deliveries' = [d \in DeliveryId |->
                            IF d[2] = r /\ d[1] \in taken
                            THEN Grant(rows[d], leaseMs, t)
                            ELSE rows[d]]
        /\ UNCHANGED <<clock, highWater, messages, nextSeq, ackEvents, cursors>>

-----------------------------------------------------------------------------
(* Acknowledgement *)

\* validate_ack's freshness window, for an ack signed by an active key.
AckFresh(a, t) == a.issued - t <= MaxClockSkew /\ t - a.issued <= MaxClockSkew

Backoff(attempts) ==
    LET delay == RetryBase * 2 ^ (IF attempts = 0 THEN 0 ELSE attempts - 1)
    IN  IF delay <= RetryMax THEN delay ELSE RetryMax

\* Mutant: the lease id is not compared.
HoldsLease_AnyLease(a, t) ==
    LET row == deliveries[<<a.key, a.receiver>>]
    IN  row.state = "claimed" /\ row.leaseUntil > t /\ messages[a.key] = a.envelope

\* The delivery is claimed under exactly the lease the ack names, and the
\* lease is still running at t.
HoldsLease(a, t) ==
    LET row == deliveries[<<a.key, a.receiver>>]
    IN  /\ row.state = "claimed"
        /\ row.lease = a.lease
        /\ row.leaseUntil > t
        /\ messages[a.key] = a.envelope

Settle(row, outcome, t) ==
    LET done == [row EXCEPT !.lease = NoLease, !.leaseUntil = 0,
                            !.available = t, !.updated = t]
    IN  CASE outcome = "processed" ->
               [done EXCEPT !.state = "acknowledged", !.error = ""]
          [] outcome = "terminal_failed" ->
               [done EXCEPT !.state = "dead_letter", !.error = "terminal_failed"]
          [] outcome = "retryable_failed" /\ row.attempts >= MaxAttempts ->
               [done EXCEPT !.state = "dead_letter", !.error = "max_attempts"]
          [] outcome = "retryable_failed" /\ row.attempts < MaxAttempts ->
               [done EXCEPT !.state = "queued", !.error = "retryable_failed",
                            !.available = t + Backoff(row.attempts)]

\* Mutant: the INSERT INTO ack_events is missing.
Acknowledge_NoLedger(a, t) ==
    LET d == <<a.key, a.receiver>>
    IN  /\ AckFresh(a, t)
        /\ HoldsLease(a, t)
        /\ deliveries' = [deliveries EXCEPT ![d] = Settle(@, a.outcome, t)]
        /\ UNCHANGED <<clock, highWater, messages, nextSeq, ackEvents, cursors>>

\* acknowledge of an ack not seen before.  The byte-identical repeat of an
\* accepted ack is answered from ack_events and changes nothing; any other
\* ack raises LeaseConflict.
Acknowledge(a, t) ==
    LET d == <<a.key, a.receiver>>
    IN  /\ AckFresh(a, t)
        /\ \A ev \in ackEvents : ev.ack # a
        /\ HoldsLease(a, t)
        /\ ackEvents' = ackEvents \cup {[ack |-> a, seq |-> deliveries[d].seq]}
        /\ deliveries' = [deliveries EXCEPT ![d] = Settle(@, a.outcome, t)]
        /\ UNCHANGED <<clock, highWater, messages, nextSeq, cursors>>

-----------------------------------------------------------------------------
(* Read cursors and retention *)

\* Mutant: the cursor may move to any delivery of r.
AdvanceCursor_AnyState(r, c, n) ==
    /\ n = 0 \/ \E k \in Key : deliveries[<<k, r>>].seq = n
    /\ n >= cursors[<<r, c>>]
    /\ cursors' = [cursors EXCEPT ![<<r, c>>] = n]
    /\ UNCHANGED <<clock, highWater, messages, deliveries, nextSeq, ackEvents>>

\* advance_cursor: to 0 or to a terminal delivery of r, never backwards.
AdvanceCursor(r, c, n) ==
    /\ n = 0 \/ \E k \in Key : /\ deliveries[<<k, r>>].seq = n
                               /\ deliveries[<<k, r>>].state \in TERMINAL_STATES
    /\ n >= cursors[<<r, c>>]
    /\ cursors' = [cursors EXCEPT ![<<r, c>>] = n]
    /\ UNCHANGED <<clock, highWater, messages, deliveries, nextSeq, ackEvents>>

\* Mutant: one settled recipient is enough.
Purgeable_SomeRecipient(rows, k, cutoff) ==
    /\ messages[k] # NoMessage
    /\ \E r \in Agent : /\ rows[<<k, r>>].state \in TERMINAL_STATES
                        /\ rows[<<k, r>>].updated < cutoff

\* Mutant: off by one at the cutoff.
Purgeable_Inclusive(rows, k, cutoff) ==
    /\ messages[k] # NoMessage
    /\ \A r \in Agent :
          rows[<<k, r>>].state # "none" =>
             /\ rows[<<k, r>>].state \in TERMINAL_STATES
             /\ rows[<<k, r>>].updated <= cutoff

\* The retention DELETE: every delivery terminal, none updated at or after
\* the cutoff.
Purgeable(rows, k, cutoff) ==
    /\ messages[k] # NoMessage
    /\ \A r \in Agent :
          rows[<<k, r>>].state # "none" =>
             /\ rows[<<k, r>>].state \in TERMINAL_STATES
             /\ rows[<<k, r>>].updated < cutoff

\* maintenance: expire, then purge messages with their deliveries and ack
\* events (ON DELETE CASCADE).  No terminal_before_ms is cutoff 0.
Maintenance(cutoff, t) ==
    LET rows   == Expired(t)
        purged == {k \in Key : Purgeable(rows, k, cutoff)}
    IN  /\ messages' = [k \in Key |-> IF k \in purged THEN NoMessage
                                                      ELSE messages[k]]
        /\ deliveries' = [d \in DeliveryId |-> IF d[1] \in purged THEN NoRow
                                                                  ELSE rows[d]]
        /\ ackEvents' = {ev \in ackEvents : ev.ack.key \notin purged}
        /\ UNCHANGED <<clock, highWater, nextSeq, cursors>>

-----------------------------------------------------------------------------
(* Behaviour *)

Tick == /\ clock < MaxTime
        /\ clock' = clock + 1
        /\ UNCHANGED <<highWater, messages, deliveries, nextSeq, ackEvents, cursors>>

Init ==
    /\ clock = 0
    /\ highWater = 0
    /\ messages = [k \in Key |-> NoMessage]
    /\ deliveries = [d \in DeliveryId |-> NoRow]
    /\ nextSeq = 1
    /\ ackEvents = {}
    /\ cursors = [rc \in Agent \X Consumer |-> 0]

\* The times a caller may hand to the broker.
CallerTimes == {t \in 0..clock : clock <= t + MaxLag}

\* What a signer's clock may show at time t of the hub.
SignerTimes(t) == {i \in 0..MaxTime : i <= t + ClientSkew /\ t <= i + ClientSkew}

\* The acks the holders of granted leases may sign at about time t: a lease
\* <<seq, n>> was granted when the delivery reached n attempts.
GrantedAcks(t) ==
    {a \in [receiver : Agent, key : {k \in Key : messages[k] # NoMessage},
            lease : (1..nextSeq) \X (1..MaxAttempts),
            envelope : {messages[k] : k \in Key} \ {NoMessage},
            outcome : Outcome,
            issued : SignerTimes(t)] :
        LET row == deliveries[<<a.key, a.receiver>>]
        IN  a.lease[1] = row.seq /\ a.lease[2] <= row.attempts}

AcknowledgeAny(t) == \E a \in GrantedAcks(t) : Acknowledge(a, t)
EnqueueAny(t) == \E e \in Envelope : Enqueue(e, t)
ClaimAny(t) ==
    \E r \in Agent, n \in ClaimLimits, l \in LeaseTimes : Claim(r, n, l, t)
AdvanceCursorAny ==
    \E r \in Agent, c \in Consumer, n \in 0..nextSeq : AdvanceCursor(r, c, n)
\* The operator's command passes cutoff = now - retention.
MaintenanceAny(t) == \E retain \in RetainTimes : Maintenance(t - retain, t)

Next ==
    \/ Tick
    \/ \E t \in CallerTimes : EnqueueAny(t)
    \/ \E t \in CallerTimes : ClaimAny(t)
    \/ \E t \in CallerTimes : AcknowledgeAny(t)
    \/ \E t \in CallerTimes : MaintenanceAny(t)
    \/ AdvanceCursorAny

Spec == Init /\ [][Next]_vars

Fairness == WF_vars(Tick) /\ WF_vars(ClaimAny(clock))

\* Time passes and some recipient keeps polling: each claim call expires the
\* rows of every recipient.
FairSpec == Spec /\ Fairness

-----------------------------------------------------------------------------
(* Properties *)

\* Every table holds well-formed rows (the STRICT column types and CHECK
\* constraints of _initialize).
TypeOK ==
    /\ clock \in Nat /\ highWater \in Nat /\ nextSeq \in Nat \ {0}
    /\ messages \in [Key -> Envelope \cup {NoMessage}]
    /\ deliveries \in [DeliveryId -> Row]
    /\ ackEvents \subseteq AckEvent
    /\ cursors \in [Agent \X Consumer -> Nat]

\* No delivery is ever offered for attempt MaxAttempts + 1: whichever way an
\* attempt ends (lapsed lease or retryable ack), exhausting the budget leads
\* to dead_letter and not back to the queue.
AttemptCap ==
    \A d \in DeliveryId :
        /\ deliveries[d].state = "queued" => deliveries[d].attempts < MaxAttempts
        /\ deliveries[d].state = "claimed" => deliveries[d].attempts \in 1..MaxAttempts

\* A lease is answered at most once, by one outcome: two different acks of
\* one lease are never both accepted, and a lease that still runs has not
\* been answered, whatever late or reordered acks arrive.
LeaseSpentOnce ==
    \A ev \in ackEvents :
        /\ \A ev2 \in ackEvents : ev.ack.lease = ev2.ack.lease => ev = ev2
        /\ deliveries[<<ev.ack.key, ev.ack.receiver>>].lease # ev.ack.lease

\* A delivery is acknowledged exactly when the ledger holds a processed ack
\* for it, signed for the stored envelope: acknowledged is never inferred
\* from expiry, a cursor, or an ack meant for other bytes.
AcknowledgedHasProof ==
    \A d \in DeliveryId :
        (deliveries[d].state = "acknowledged") <=>
            \E ev \in ackEvents :
                /\ ev.ack.key = d[1] /\ ev.ack.receiver = d[2]
                /\ ev.seq = deliveries[d].seq
                /\ ev.ack.envelope = messages[d[1]]
                /\ ev.ack.outcome = "processed"

\* A read cursor never rests on unfinished work: the delivery it names is
\* terminal or was purged, and its number is never given to a later delivery.
CursorOnTerminal ==
    \A r \in Agent, c \in Consumer :
        /\ cursors[<<r, c>>] < nextSeq
        /\ \A d \in DeliveryId :
              deliveries[d].state \in Open => deliveries[d].seq # cursors[<<r, c>>]

\* Nobody loses a running lease: a claimed delivery is given up only for an
\* ack that names its lease, or at a time when the lease or the message has
\* run out.
LiveLeaseKept ==
    [][\A d \in DeliveryId :
          deliveries[d].state = "claimed" /\ deliveries'[d] # deliveries[d] =>
             \/ \E ev \in ackEvents' : ev.ack.lease = deliveries[d].lease
             \/ deliveries'[d].updated >= deliveries[d].leaseUntil
             \/ deliveries'[d].updated >= ExpiresAt[messages[d[1]]]]_vars

\* What a row means to the contract.
StatusOf(row) == CASE row.state = "none" -> "absent"
                   [] row.state \in Open -> "pending"
                   [] row.state \in TERMINAL_STATES -> row.state

Contract == INSTANCE DeliveryContract
                WITH status <- [d \in DeliveryId |-> StatusOf(deliveries[d])]

\* The broker keeps the delivery contract: recipients are admitted together,
\* verdicts are final, and no message is purged while one of its deliveries
\* is still open, whatever leases, retries, expiry and retention do.
RefinesContract == Contract!Spec

\* A recipient is served oldest first: a claim leaves no older delivery of
\* the recipient behind that was available at the claim's own time.
OldestFirst ==
    [][\A r \in Agent, k, j \in Key :
          LET old == deliveries[<<j, r>>]
              got == deliveries'[<<k, r>>]
          IN  /\ got.state = "claimed" /\ deliveries[<<k, r>>].lease # got.lease
              /\ old.state = "queued" /\ old.available <= got.updated
              /\ old.seq < got.seq
              => deliveries'[<<j, r>>].state # "queued"]_vars

\* Every admitted delivery is eventually acknowledged, dead-lettered or (once
\* terminal) purged, even when its consumer never answers.
DeliveryTerminates ==
    \A d \in DeliveryId :
        deliveries[d].state \in Open ~> deliveries[d].state \notin Open

-----------------------------------------------------------------------------
(* The inductive invariant behind the safety properties (BrokerProofs) *)

\* A row on its own: the attempt budget, and a lease exactly while claimed.
RowOK(row) ==
    /\ row.state = "none" => row.seq = 0
    /\ row.state # "none" => row.seq >= 1
    /\ row.state = "queued" => row.attempts < MaxAttempts
    /\ row.state = "claimed" => /\ row.attempts \in 1..MaxAttempts
                                /\ row.lease = <<row.seq, row.attempts>>
    /\ row.state # "claimed" => row.lease = NoLease

\* The rows among each other: every row has its message, and numbers are
\* below the counter and used once.
RowsInv ==
    /\ \A d \in DeliveryId :
          /\ RowOK(deliveries[d])
          /\ deliveries[d].state # "none" => messages[d[1]] # NoMessage
          /\ deliveries[d].seq < nextSeq
    /\ \A c, d \in DeliveryId :
          deliveries[c].state # "none" /\ deliveries[c].seq = deliveries[d].seq => c = d

\* The ledger against the rows: an accepted ack belongs to a present row and
\* answers an attempt that row has left behind, one ack per attempt.
LedgerInv ==
    /\ \A ev \in ackEvents :
          LET row == deliveries[<<ev.ack.key, ev.ack.receiver>>]
          IN  /\ row.state # "none"
              /\ ev.seq = row.seq
              /\ ev.ack.lease[1] = row.seq
              /\ ev.ack.lease[2] <= row.attempts
              /\ row.state = "claimed" => ev.ack.lease[2] < row.attempts
              /\ ev.ack.envelope = messages[ev.ack.key]
              /\ ev.ack.outcome = "processed" => row.state = "acknowledged"
    /\ \A ev, ev2 \in ackEvents : ev.ack.lease = ev2.ack.lease => ev = ev2
    /\ \A d \in DeliveryId : deliveries[d].state = "acknowledged" =>
          \E ev \in ackEvents :
              /\ ev.ack.key = d[1] /\ ev.ack.receiver = d[2]
              /\ ev.ack.outcome = "processed"

IInv == TypeOK /\ RowsInv /\ LedgerInv /\ CursorOnTerminal
=============================================================================
