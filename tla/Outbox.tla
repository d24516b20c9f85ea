------------------------------- MODULE Outbox -------------------------------
(***************************************************************************)
(* The sender's side: the outbox table of SQLiteBroker and the two client  *)
(* loops that empty it, send_with_fallback and flush_outbox                *)
(* (tribe_client_v1.py).                                                   *)
(*                                                                         *)
(* Time is kept as timers that count down with Tick: lease_until_ms and    *)
(* available_at_ms as what is left of them, a process's fixed now as its   *)
(* age.  A timer runs on past zero as far as the oldest now that a claim   *)
(* can compare it with.  Delays are finite, so the states are, and no      *)
(* bound on the clock is needed.                                           *)
(***************************************************************************)
EXTENDS Integers, FiniteSets

CONSTANTS
    Envelope,       \* envelopes to send; each has its own (sender, message_id)
    Endpoint,       \* number of routes: 1 is direct, 2 the hub
    Process,        \* sender processes
    Ttl,            \* envelope -> time until it expires, from the start
    Refused,        \* envelopes the endpoints answer with 4xx
    Unrouted,       \* envelopes flush_outbox has no (allowed) route for
    MaxAttempts,    \* SQLiteBroker.max_attempts
    RetryBase,      \* SQLiteBroker.retry_base_ms
    RetryMax,       \* SQLiteBroker.retry_max_ms
    LeaseMs,        \* the lease both loops ask for
    Limit,          \* flush_outbox.limit
    AuthTtl,        \* lifetime of a signed request, wrap_request.ttl_ms
    MaxStall        \* bound: time between staging a row and claiming it

ASSUME OutboxAssumption ==
    /\ Endpoint \in Nat \ {0}
    /\ Ttl \in [Envelope -> Nat]
    /\ Refused \subseteq Envelope /\ Unrouted \subseteq Envelope
    /\ MaxAttempts \in Nat \ {0}
    /\ RetryBase \in Nat /\ RetryMax \in Nat
    /\ LeaseMs \in Nat \ {0} /\ Limit \in Nat \ {0}
    /\ AuthTtl \in Nat \ {0} /\ MaxStall \in Nat

VARIABLES
    outbox,         \* outbox: one row per staged envelope
    procs,          \* what each sender process is doing
    left,           \* envelope -> time until it expires
    admitted        \* the envelopes some endpoint has committed

vars == <<outbox, procs, left, admitted>>

-----------------------------------------------------------------------------
(* Rows and processes *)

Row == [state    : {"none", "pending", "sending", "sent", "dead_letter"},
        id       : Nat,     \* rowid, the order of claims
        wait     : Int,     \* pending: until available_at_ms
        lease    : Nat,     \* attempt that the lease id belongs to, 0 for NULL
        leaseFor : Int,     \* sending: until lease_until_ms
        attempts : Nat]

NoRow == [state |-> "none", id |-> 0, wait |-> 0, lease |-> 0, leaseFor |-> 0,
          attempts |-> 0]

Settled == {"sent", "dead_letter"}

\* A claimed row as the process remembers it.
Item == [envelope : Envelope, lease : Nat]

Proc == [pc : {"idle", "staged", "post", "complete"}, flush : BOOLEAN, age : Nat,
         staged : SUBSET Envelope, batch : SUBSET Item,
         route : 1..Endpoint, result : {"", "receipt", "retry", "terminal"}]

Quiet == [pc |-> "idle", flush |-> FALSE, age |-> 0, staged |-> {}, batch |-> {}, route |-> 1,
          result |-> ""]

HeadItem(p) ==
    CHOOSE i \in procs[p].batch :
        \A j \in procs[p].batch : outbox[i.envelope].id <= outbox[j.envelope].id

-----------------------------------------------------------------------------
(* SQLiteBroker *)

\* Mutant: INSERT OR REPLACE
StageOutbox_Replaces(e) ==
    outbox' = [outbox EXCEPT ![e] =
                 [NoRow EXCEPT !.state = "pending",
                    !.id = 1 + Cardinality({f \in Envelope : outbox[f].state # "none"})]]

\* stage_outbox: insert, or find the identical row.
StageOutbox(e) ==
    outbox' = IF outbox[e].state # "none" THEN outbox
              ELSE [outbox EXCEPT ![e] =
                      [NoRow EXCEPT !.state = "pending",
                         !.id = 1 + Cardinality({f \in Envelope : outbox[f].state # "none"})]]

\* Mutant: claim_outbox does not look for lapsed leases.
Lapse_Never(row, age) == row

\* The UPDATE that opens claim_outbox: a lease that lapsed by the caller's now.
Lapse(row, age) ==
    IF row.state = "sending" /\ row.leaseFor + age <= 0
    THEN IF row.attempts >= MaxAttempts
         THEN [row EXCEPT !.state = "dead_letter", !.lease = 0, !.leaseFor = 0]
         ELSE [row EXCEPT !.state = "pending", !.wait = -age, !.lease = 0, !.leaseFor = 0]
    ELSE row

Grant(row, age) ==
    [row EXCEPT !.state = "sending", !.attempts = row.attempts + 1, !.wait = 0,
                !.lease = row.attempts + 1, !.leaseFor = LeaseMs - age]

\* The rows a claim over E takes: ORDER BY id LIMIT n
Claimable(E, n, age) ==
    LET ready == {e \in E : LET row == Lapse(outbox[e], age)
                           IN  row.state = "pending" /\ row.wait + age <= 0}
    IN  {e \in ready : Cardinality({f \in ready : outbox[f].id < outbox[e].id}) < n}

\* claim_outbox over the rows E (all of them, or the one of outbox_id)
ClaimOutbox(E, n, age) ==
    outbox' = [e \in Envelope |->
                 IF e \in Claimable(E, n, age) THEN Grant(Lapse(outbox[e], age), age)
                                               ELSE Lapse(outbox[e], age)]

ClaimedItems(E, n, age) ==
    {[envelope |-> e, lease |-> outbox[e].attempts + 1] : e \in Claimable(E, n, age)}

Backoff(attempts) ==
    LET delay == RetryBase * 2 ^ (IF attempts = 0 THEN 0 ELSE attempts - 1)
    IN  IF delay <= RetryMax THEN delay ELSE RetryMax

\* What is left of a delay that started when the process fixed its now.
Since(delay, age) == IF delay - age < -MaxStall THEN -MaxStall ELSE delay - age

\* complete_outbox by a caller whose now is age ago.  The lease was granted
\* at that now, so it can only be lost to another claim.
HoldsLease(i) ==
    outbox[i.envelope].state = "sending" /\ outbox[i.envelope].lease = i.lease

CompleteOutbox(i, result, age) ==
    LET row  == outbox[i.envelope]
        done == [row EXCEPT !.lease = 0, !.leaseFor = 0, !.wait = 0]
    IN  outbox' = [outbox EXCEPT ![i.envelope] =
            CASE result = "receipt" -> [done EXCEPT !.state = "sent"]
              [] result = "terminal" \/ (result = "retry" /\ row.attempts >= MaxAttempts) ->
                   [done EXCEPT !.state = "dead_letter"]
              [] result = "retry" /\ row.attempts < MaxAttempts ->
                   [done EXCEPT !.state = "pending",
                                !.wait = Since(Backoff(row.attempts), age)]]

-----------------------------------------------------------------------------
(* send_with_fallback and flush_outbox *)

SendStage(p, e) ==
    /\ procs[p].pc = "idle"
    /\ StageOutbox(e)
    /\ procs' = [procs EXCEPT ![p] = [Quiet EXCEPT !.pc = "staged", !.staged = {e}]]
    /\ UNCHANGED <<left, admitted>>

\* The staging transaction and the claim are two: the row may be gone
\* ("already leased by another sender worker").
SendClaim(p) ==
    LET E == procs[p].staged
        t == procs[p].age
    IN  /\ procs[p].pc = "staged"
        /\ ClaimOutbox(E, 1, t)
        /\ procs' = [procs EXCEPT ![p] =
                       IF Claimable(E, 1, t) = {} THEN Quiet
                       ELSE [@ EXCEPT !.pc = "post", !.staged = {},
                                      !.batch = ClaimedItems(E, 1, t)]]
    /\ UNCHANGED <<left, admitted>>

Flush(p) ==
    /\ procs[p].pc = "idle"
    /\ ClaimOutbox(Envelope, Limit, 0)
    /\ procs' = [procs EXCEPT ![p] =
                   IF Claimable(Envelope, Limit, 0) = {} THEN Quiet
                   ELSE [Quiet EXCEPT !.pc = "post", !.flush = TRUE,
                                      !.batch = ClaimedItems(Envelope, Limit, 0)]]
    /\ UNCHANGED <<left, admitted>>

Outcome(p, result) ==
    procs' = [procs EXCEPT ![p].pc = "complete", ![p].result = result]

\* The request is signed with the now of the process (wrap_request).
Expired(p) == procs[p].age >= AuthTtl

\* What a broker behind an endpoint accepts.
Accepts(p) ==
    LET e == HeadItem(p).envelope
    IN  left[e] > 0 /\ e \notin Refused /\ ~Expired(p)

Commit(p) == admitted' = admitted \cup {HeadItem(p).envelope}

\* flush_outbox finds no endpoint for the audience, or a recipient outside
\* the localhost boundary (both were checked against older settings when the
\* message was sent).
Unroutable(p) == procs[p].flush /\ HeadItem(p).envelope \in Unrouted

PostUnroutable(p) ==
    /\ procs[p].pc = "post" /\ Unroutable(p)
    /\ Outcome(p, "terminal")
    /\ UNCHANGED <<outbox, left, admitted>>

\* post_signed returns the receipt of this or of an earlier identical POST.
PostReceipt(p) ==
    /\ procs[p].pc = "post" /\ ~Unroutable(p)
    /\ Accepts(p)
    /\ Commit(p)
    /\ Outcome(p, "receipt")
    /\ UNCHANGED <<outbox, left>>

\* Mutant: an endpoint that does not answer counts as one that refuses.
PostUnavailable_Terminal(p) ==
    /\ procs[p].pc = "post" /\ ~Unroutable(p)
    /\ Outcome(p, "terminal")
    /\ UNCHANGED <<outbox, left, admitted>>

\* EndpointUnavailable: timeout, refused connection or 5xx.  The endpoint may
\* have committed before the answer was lost.
PostUnavailable(p) ==
    /\ procs[p].pc = "post" /\ ~Unroutable(p)
    /\ UNCHANGED admitted \/ (Accepts(p) /\ Commit(p))
    /\ IF procs[p].route < Endpoint
       THEN procs' = [procs EXCEPT ![p].route = @ + 1]
       ELSE Outcome(p, "retry")
    /\ UNCHANGED <<outbox, left>>

\* Mutant: a 4xx counts as a receipt.
PostRejected_AsReceipt(p) ==
    /\ procs[p].pc = "post" /\ ~Unroutable(p)
    /\ ~Accepts(p)
    /\ Outcome(p, "receipt")
    /\ UNCHANGED <<outbox, left, admitted>>

\* EndpointRejected: 4xx, also for a request whose signature has expired while
\* the process worked, or an answer that is not a JSON object, which says
\* nothing about what the endpoint committed.
PostRejected(p) ==
    /\ procs[p].pc = "post" /\ ~Unroutable(p)
    /\ \/ ~Accepts(p) /\ UNCHANGED admitted
       \/ Accepts(p) /\ Commit(p)
    /\ Outcome(p, "terminal")
    /\ UNCHANGED <<outbox, left>>

\* complete_outbox, then the next claim of the batch.
Complete(p) ==
    LET i    == HeadItem(p)
        rest == procs[p].batch \ {i}
    IN  /\ procs[p].pc = "complete" /\ HoldsLease(i)
        /\ CompleteOutbox(i, procs[p].result, procs[p].age)
        /\ procs' = [procs EXCEPT ![p] =
                       IF rest = {} THEN Quiet
                       ELSE [@ EXCEPT !.pc = "post", !.batch = rest, !.route = 1,
                                      !.result = ""]]
        /\ UNCHANGED <<left, admitted>>

\* LeaseConflict is not caught: the process gives up the whole batch.
CompleteConflict(p) ==
    /\ procs[p].pc = "complete" /\ ~HoldsLease(HeadItem(p))
    /\ procs' = [procs EXCEPT ![p] = Quiet]
    /\ UNCHANGED <<outbox, left, admitted>>

Crash(p) ==
    /\ procs[p].pc # "idle"
    /\ procs' = [procs EXCEPT ![p] = Quiet]
    /\ UNCHANGED <<outbox, left, admitted>>

-----------------------------------------------------------------------------
(* Behaviour *)

Down(n, floor) == IF n = floor THEN n ELSE n - 1

\* The age of a process matters as long as a delay or its request could outlast it.
Older(pr) ==
    IF pr.pc = "idle" \/ (pr.age >= RetryMax + MaxStall /\ pr.age >= AuthTtl) THEN pr
    ELSE [pr EXCEPT !.age = @ + 1]

\* The column that a row's state gives a meaning.
Elapse(row) ==
    CASE row.state = "pending" -> [row EXCEPT !.wait = Down(@, -MaxStall)]
      [] row.state = "sending" -> [row EXCEPT !.leaseFor = Down(@, -MaxStall)]
      [] OTHER -> row

Tick ==
    /\ \A p \in Process : procs[p].pc = "staged" => procs[p].age < MaxStall
    /\ outbox' = [e \in Envelope |-> Elapse(outbox[e])]
    /\ procs' = [p \in Process |-> Older(procs[p])]
    /\ left' = [e \in Envelope |-> Down(left[e], 0)]
    /\ UNCHANGED admitted

Init ==
    /\ outbox = [e \in Envelope |-> NoRow]
    /\ procs = [p \in Process |-> Quiet]
    /\ left = Ttl
    /\ admitted = {}

\* The next step of a process that is in the middle of a batch.
Step(p) == \/ SendClaim(p)
           \/ PostUnroutable(p)
           \/ PostReceipt(p)
           \/ PostUnavailable(p)
           \/ PostRejected(p)
           \/ Complete(p)
           \/ CompleteConflict(p)

Next ==
    \/ \E p \in Process, e \in Envelope : SendStage(p, e)
    \/ \E p \in Process : Flush(p)
    \/ \E p \in Process : Step(p)
    \/ \E p \in Process : Crash(p)
    \/ Tick

Spec == Init /\ [][Next]_vars

\* Time passes, a started process goes on or dies, and flush_outbox is run
\* again and again while rows are due.
Fairness ==
    /\ SF_vars(Tick)
    /\ \A p \in Process : WF_vars(Step(p) \/ Crash(p))
    /\ SF_vars(\E p \in Process : Flush(p))

FairSpec == Spec /\ Fairness

-----------------------------------------------------------------------------
(* Properties *)

\* Rows, processes and endpoints are well formed.
TypeOK ==
    /\ outbox \in [Envelope -> Row]
    /\ procs \in [Process -> Proc]
    /\ left \in [Envelope -> Nat]
    /\ admitted \subseteq Envelope

\* A row that says sent was committed by some endpoint: no lost answer, late
\* completion or crash ever marks an undelivered message as delivered.
SentWasAdmitted ==
    \A e \in Envelope : outbox[e].state = "sent" => e \in admitted

\* A settled row never changes: a late completion or a second staging of the
\* same envelope does not reopen it.
SettledIsFinal ==
    [][\A e \in Envelope :
          outbox[e].state \in Settled => outbox'[e] = outbox[e]]_vars

\* A row is given up before its attempts are spent only for a cause that no
\* retry would cure (refused, without a route, expired), after an endpoint has
\* it anyway, or by a process that worked past the lifetime of its requests.
GivenUpForCause ==
    [][\A e \in Envelope :
          /\ outbox[e].state # "dead_letter" /\ outbox'[e].state = "dead_letter"
          /\ outbox[e].attempts < MaxAttempts
          => \/ e \in Refused \cup Unrouted \/ left[e] = 0 \/ e \in admitted
             \/ \E p \in Process : procs[p].pc = "complete" /\ HeadItem(p).envelope = e
                                      /\ Expired(p)]_vars

\* Every staged envelope is eventually sent or dead-lettered, whatever
\* answers get lost and however often senders die.
StagedSettles ==
    \A e \in Envelope :
        outbox[e].state # "none" ~> outbox[e].state \in Settled
=============================================================================
