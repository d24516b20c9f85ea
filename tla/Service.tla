------------------------------- MODULE Service ------------------------------
(***************************************************************************)
(* The hub's HTTP service (tribe_service_v1.py): worker threads that carry *)
(* signed requests through three separate broker transactions.             *)
(*                                                                         *)
(*   observe   now = observe_trusted_time(clock_ms())                      *)
(*   record    validate at now, then record_authenticated_request(now)     *)
(*   perform   enqueue / claim / acknowledge, still at the same now        *)
(*                                                                         *)
(* Between two of them other threads run, the clock moves, the operator    *)
(* runs maintenance, or the process dies.  The network may lose, delay,    *)
(* reorder and repeat signed requests.                                     *)
(***************************************************************************)
EXTENDS Broker

CONSTANTS
    Request,        \* request ids (uuid7, fresh per wrap_request)
    NoRequest,      \* nothing signed yet
    Thread,         \* worker threads (TRIBE_V1_MAX_WORKERS)
    AuthTtl,        \* wrap_request.ttl_ms
    MaxBacks        \* bound: how often the host's clock is set back

ASSUME ServiceAssumption ==
    /\ AuthTtl \in Nat \ {0}
    /\ MaxBacks \in Nat
    /\ NoRequest \notin Request

VARIABLES
    wire,           \* each signed request (body, issued, expires), NoRequest before
    threads,        \* what each worker thread is doing (pc, request, now)
    replays,        \* request_replays: the recorded request ids
    served,         \* history: how often each request took effect
    admissions,     \* history: how often each key was inserted
    backs           \* history: how often the clock was set back

serviceVars == <<wire, threads, replays, served, admissions, backs>>
allVars == <<vars, serviceVars>>

\* A worker is idle, has observed the time, or has recorded its request.
Idle == [pc |-> "idle", request |-> NoRequest, now |-> 0]

-----------------------------------------------------------------------------
(* Clients *)

\* The bodies an agent can sign now: an envelope, a poll, or the ack of a
\* lease it was granted.
Bodies ==
    [op : {"messages"}, envelope : Envelope]
       \cup [op : {"claims"}, recipient : Agent, limit : ClaimLimits, lease : LeaseTimes]
       \cup [op : {"acks"}, ack : GrantedAcks(clock)]

\* wrap_request with a fresh request id; the client's clock may be off.
Sign(q, body, at) ==
    /\ wire[q] = NoRequest
    /\ wire' = [wire EXCEPT ![q] = [body |-> body, issued |-> at,
                                    expires |-> at + AuthTtl]]
    /\ UNCHANGED <<vars, threads, replays, served, admissions, backs>>

-----------------------------------------------------------------------------
(* TribeV1Service.post *)

\* A request (or a repeat of one) reaches an idle worker, which persists the
\* receive time before it looks at anything else.
Observe(th, q) ==
    /\ threads[th].pc = "idle"
    /\ wire[q] # NoRequest
    /\ ObserveTrustedTime(clock)
    /\ threads' = [threads EXCEPT ![th] =
                     [pc |-> "observed", request |-> q, now |-> clock]]
    /\ UNCHANGED <<clock, messages, deliveries, nextSeq, ackEvents, cursors,
                   wire, replays, served, admissions, backs>>

\* validate_request at time t, for a request whose signature verifies under an
\* active key of the directory; the window of a message's signing key is part
\* of Admissible.
AuthValid(w, t) ==
    /\ w.expires > t
    /\ w.issued <= t + MaxClockSkew

\* _message_context, _validate_claim, _ack_context at time t
RouteValid(body, t) ==
    CASE body.op = "messages" -> Admissible(body.envelope, t)
      [] body.op = "claims"   -> TRUE
      [] body.op = "acks"     -> AckFresh(body.ack, t)

\* Mutant: replay rows are dropped by issue time instead of expiry.
LiveReplays_ByIssue(t) == {q \in replays : wire[q].issued > t}

\* The rows record_authenticated_request leaves before its INSERT.
LiveReplays(t) == {q \in replays : wire[q].expires > t}

\* Validation, then record_authenticated_request.  A recorded id raises
\* RequestReplay, a time behind the high-water mark ClockRollback.
Record(th) ==
    LET q == threads[th].request
        t == threads[th].now
    IN  /\ threads[th].pc = "observed"
        /\ AuthValid(wire[q], t)
        /\ RouteValid(wire[q].body, t)
        /\ ObserveTrustedTime(t)
        /\ q \notin LiveReplays(t)
        /\ replays' = LiveReplays(t) \cup {q}
        /\ threads' = [threads EXCEPT ![th].pc = "recorded"]
        /\ UNCHANGED <<clock, messages, deliveries, nextSeq, ackEvents, cursors,
                       wire, served, admissions, backs>>

\* The broker call of each route, at the time the thread observed.
Effect(body, t) ==
    \/ body.op = "messages" /\ Enqueue(body.envelope, t)
    \/ body.op = "claims" /\ Claim(body.recipient, body.limit, body.lease, t)
    \/ body.op = "acks" /\ Acknowledge(body.ack, t)
    \/ /\ body.op = "acks"
       /\ \E ev \in ackEvents : ev.ack = body.ack
       /\ UNCHANGED vars

Perform(th) ==
    LET q == threads[th].request
    IN  /\ threads[th].pc = "recorded"
        /\ Effect(wire[q].body, threads[th].now)
        /\ served' = [served EXCEPT ![q] = @ + 1]
        /\ admissions' = [k \in Key |->
                            IF messages[k] = NoMessage /\ messages'[k] # NoMessage
                            THEN admissions[k] + 1 ELSE admissions[k]]
        /\ threads' = [threads EXCEPT ![th] = Idle]
        /\ UNCHANGED <<wire, replays, backs>>

\* A handler ends without its next transaction: it answered 4xx or 503, its
\* connection broke, or the process died.  The tables are what the committed
\* transactions left.
Drop(th) ==
    /\ threads[th].pc # "idle"
    /\ threads' = [threads EXCEPT ![th] = Idle]
    /\ UNCHANGED <<vars, wire, replays, served, admissions, backs>>

-----------------------------------------------------------------------------
(* The host *)

\* No handler takes longer than MaxLag.
Advance ==
    /\ \A th \in Thread : threads[th].pc # "idle" => clock < threads[th].now + MaxLag
    /\ Tick
    /\ UNCHANGED serviceVars

\* The clock is set back (NTP, operator, restored VM).
SetBack ==
    /\ backs < MaxBacks /\ backs' = backs + 1
    /\ clock' \in 0..(clock - 1)
    /\ UNCHANGED <<highWater, messages, deliveries, nextSeq, ackEvents, cursors,
                   wire, threads, replays, served, admissions>>

\* tribe_broker_admin.py maintain, on the same database, at any time
Maintain == MaintenanceAny(clock) /\ UNCHANGED serviceVars

ServiceInit ==
    /\ Init
    /\ wire = [q \in Request |-> NoRequest]
    /\ threads = [th \in Thread |-> Idle]
    /\ replays = {}
    /\ served = [q \in Request |-> 0]
    /\ admissions = [k \in Key |-> 0]
    /\ backs = 0

ServiceNext ==
    \/ \E q \in Request, body \in Bodies, at \in SignerTimes(clock) : Sign(q, body, at)
    \/ \E th \in Thread, q \in Request : Observe(th, q)
    \/ \E th \in Thread : Record(th)
    \/ \E th \in Thread : Perform(th)
    \/ \E th \in Thread : Drop(th)
    \/ Advance
    \/ SetBack
    \/ Maintain

ServiceSpec == ServiceInit /\ [][ServiceNext]_allVars

-----------------------------------------------------------------------------
(* Properties *)

\* A signed request takes effect at most once, however often it is repeated,
\* however its handlers interleave or die, and even if the clock is set back:
\* its replay row is dropped only once the high-water mark has passed its
\* expiry.
EffectOnce == \A q \in Request : served[q] <= 1

\* A message is admitted at most once over the life of the database: when
\* retention has removed it, no envelope under its key is acceptable any
\* more, so what was processed and purged is never delivered again.  Stated
\* without a clock that is set back: maintenance works with the wall clock and
\* does not observe the trusted time.
AdmittedOnce == backs = 0 => \A k \in Key : admissions[k] <= 1

\* A signing key that was cut stays cut: no envelope is admitted once the hub
\* has durably observed a time at or after the key's not_after, also by a
\* handler that read the clock before, also after the clock is set back.
CutKeyStaysCut ==
    [][\A k \in Key :
          messages[k] = NoMessage /\ messages'[k] # NoMessage =>
             highWater < KeyNotAfter[messages'[k]]]_allVars
=============================================================================
