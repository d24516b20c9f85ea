------------------------------ MODULE Polling ------------------------------
(***************************************************************************)
(* What every polling process of one agent shares (tribe_client_v1.py):    *)
(* the claims list a poll receives and InboxStore, the durable table that  *)
(* makes the effect of a message idempotent per (sender_id, message_id).   *)
(* Consumer and Mirror are the two programs that poll.                     *)
(***************************************************************************)
EXTENDS Broker

CONSTANTS
    Me,                 \* the polling agent
    Worker,             \* its polling processes
    ProcessingTimeout,  \* InboxStore.begin.processing_timeout_ms
    PollLease,          \* lease_ms of a poll
    PollLimit,          \* limit of a poll
    AuthTtl,            \* lifetime of a signed request
    MaxCrashes,         \* bound: how many processes die
    MaxLosses,          \* bound: how many exchanges with others fail
    MaxStall            \* bound: how long one poll may take

ASSUME PollingAssumption ==
    /\ Me \in Agent
    /\ ProcessingTimeout \in Nat \ {0}
    /\ PollLease \in Nat \ {0} /\ PollLimit \in Nat \ {0}
    /\ AuthTtl \in Nat \ {0}
    /\ MaxCrashes \in Nat /\ MaxLosses \in Nat /\ MaxStall \in Nat

VARIABLES
    inbox,          \* inbox_effects: one row per key
    stalled         \* history: a poll has outlasted the processing timeout

InboxRow == [state : {"none", "processing", "processed", "terminal_failed"},
             envelope : Envelope \cup {NoMessage}, updated : Nat]
NoInboxRow == [state |-> "none", envelope |-> NoMessage, updated |-> 0]

\* One element of the claims list a poll received.
ClaimItem == [key : Key, envelope : Envelope, lease : Lease]

-----------------------------------------------------------------------------
(* POST /v1/claims *)

\* The transaction of a poll of the agent, at the time the poll began.
ClaimBatch == Claim(Me, PollLimit, PollLease, clock)

\* The claims list of the transaction that leads to deliveries'.
Granted ==
    {[key |-> k, envelope |-> messages[k], lease |-> deliveries'[<<k, Me>>].lease] :
        k \in {k \in Key : /\ deliveries'[<<k, Me>>].state = "claimed"
                           /\ deliveries'[<<k, Me>>].lease # deliveries[<<k, Me>>].lease}}

\* Claims come back in seq order and are handled in that order.
FirstClaim(batch) ==
    CHOOSE c \in batch : \A o \in batch : c.lease[1] <= o.lease[1]

\* make_ack for claim c of a poll that began at now.
MakeAck(c, outcome, now) ==
    [receiver |-> Me, key |-> c.key, lease |-> c.lease, envelope |-> c.envelope,
     outcome |-> outcome, issued |-> now]

\* The hub refuses ack a, sent in a poll that began at now: the signed
\* request expired, the ack is out of its window, or its lease is gone.
AckRefused(a, now) ==
    clock >= now + AuthTtl \/ ~AckFresh(a, clock) \/ ~HoldsLease(a, clock)

-----------------------------------------------------------------------------
(* InboxStore *)

\* Mutant: the processing timeout is ignored.
Stale_AtOnce(row, now) == row.state = "processing"

\* Mutant: the timeout applies to settled rows as well.
Stale_AnyState(row, now) == row.updated <= now - ProcessingTimeout

\* An owner that has held the effect past the processing timeout.
Stale(row, now) == row.state = "processing" /\ row.updated <= now - ProcessingTimeout

\* What begin answers.  Other bytes under the key raise message_id_conflict.
BeginAnswer(row, e, now) ==
    CASE row.state = "none" -> "new"
      [] row.state # "none" /\ row.envelope # e -> "conflict"
      [] row.state # "none" /\ row.envelope = e /\ Stale(row, now) -> "new"
      [] row.state # "none" /\ row.envelope = e /\ ~Stale(row, now) -> row.state

\* begin: the caller that is told "new" owns the effect from now on.
InboxBegin(k, e, now) ==
    inbox' = [inbox EXCEPT ![k] =
                IF BeginAnswer(@, e, now) = "new"
                THEN [state |-> "processing", envelope |-> e, updated |-> now]
                ELSE @]

\* finish does not look at the row's state, but the row must be there.
InboxFinish(k, state, now) ==
    /\ inbox[k].state # "none"
    /\ inbox' = [inbox EXCEPT ![k].state = state, ![k].updated = now]

\* release deletes a row that is still in progress, and only such a row.
InboxRelease(k) ==
    inbox' = [inbox EXCEPT ![k] = IF @.state = "processing" THEN NoInboxRow ELSE @]

\* A process that is still busy when the processing timeout is over.
Late(proc) == proc.pc # "idle" /\ clock' >= proc.now + ProcessingTimeout
=============================================================================
