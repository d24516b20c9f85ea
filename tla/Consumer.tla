------------------------------ MODULE Consumer ------------------------------
(***************************************************************************)
(* A recipient's side of delivery: claim_and_process and InboxStore        *)
(* (tribe_client_v1.py), run by check_inbox_v1.py, against the hub's       *)
(* Broker.                                                                 *)
(*                                                                         *)
(* Several polling processes of one agent share the inbox database.  Each  *)
(* inbox operation, each HTTP call and each broker transaction is a step   *)
(* of its own; a process may stall or die between any two of them, and a   *)
(* response may be lost after the hub committed.                           *)
(***************************************************************************)
EXTENDS Polling

CONSTANTS
    Doubtful,           \* envelopes whose decryption or first finish may raise
    Elsewhere           \* envelopes a second, redundant endpoint may deliver

ASSUME ConsumerAssumption == Doubtful \subseteq Envelope /\ Elsewhere \subseteq Envelope

VARIABLES
    workers,        \* each polling process: its step (pc), time, claims left to
                    \* handle, keys decrypted in this poll, outcome to report
    surfaced,       \* history: the keys whose payload a poll has printed
    dropped,        \* history: the keys that polls decrypted and never printed
    effects,        \* history: how often each key was processed
    crashes,        \* history: processes that died
    losses          \* history: HTTP exchanges that failed

consumerVars == <<inbox, stalled, workers, surfaced, dropped, effects, crashes, losses>>
everything == <<vars, consumerVars>>

\* A process that is not polling.
Resting == [pc |-> "idle", now |-> 0, batch |-> {}, fresh |-> {}, outcome |-> ""]

-----------------------------------------------------------------------------
(* claim_and_process *)

\* POST /v1/claims.  now is read once, for the whole poll.
Poll(w) ==
    /\ workers[w].pc = "idle"
    /\ ClaimBatch
    /\ workers' = [workers EXCEPT ![w] =
                     [Resting EXCEPT !.pc = "next", !.now = clock, !.batch = Granted]]
    /\ UNCHANGED <<inbox, surfaced, dropped, effects, crashes, losses, stalled>>

\* The hub leased the rows but the response did not arrive.
PollLost(w) ==
    /\ workers[w].pc = "idle" /\ losses < MaxLosses
    /\ ClaimBatch
    /\ losses' = losses + 1
    /\ UNCHANGED <<inbox, workers, surfaced, dropped, effects, crashes, stalled>>

HeadClaim(w) == FirstClaim(workers[w].batch)

\* The process leaves the loop by an exception: the messages it decrypted but
\* has not yet returned are gone with it.
Abort(w) ==
    /\ workers' = [workers EXCEPT ![w] = Resting]
    /\ dropped' = dropped \cup workers[w].fresh

\* Mutant: every ack claims success.
Ack1_Processed(w) == MakeAck(HeadClaim(w), "processed", workers[w].now)

Ack1(w) == MakeAck(HeadClaim(w), workers[w].outcome, workers[w].now)

\* InboxStore.begin and the branch on its answer.
Begin(w) ==
    LET c      == HeadClaim(w)
        answer == BeginAnswer(inbox[c.key], c.envelope, workers[w].now)
    IN  /\ workers[w].pc = "next" /\ workers[w].batch # {}
        /\ InboxBegin(c.key, c.envelope, workers[w].now)
        /\ \/ /\ answer = "new"
              /\ workers' = [workers EXCEPT ![w].pc = "work"]
              /\ UNCHANGED dropped
           \/ \* message_id_conflict is not caught
              /\ answer = "conflict"
              /\ Abort(w)
           \/ \* somebody may own the effect: skip the claim, send no ack
              /\ answer = "processing"
              /\ workers' = [workers EXCEPT ![w].batch = @ \ {c}]
              /\ UNCHANGED dropped
           \/ \* already settled: acknowledge again with the recorded outcome
              /\ answer \in {"processed", "terminal_failed"}
              /\ workers' = [workers EXCEPT ![w].pc = "ack", ![w].outcome = answer]
              /\ UNCHANGED dropped
    /\ UNCHANGED <<vars, surfaced, effects, crashes, losses, stalled>>

\* Decrypt and InboxStore.finish, which does not look at the row's state.
\* Any exception turns into terminal_failed.
Finish(w, outcome) ==
    LET c == HeadClaim(w)
    IN  /\ workers[w].pc = "work"
        /\ \/ outcome = "processed"
           \/ outcome = "terminal_failed" /\ c.envelope \in Doubtful
        /\ InboxFinish(c.key, outcome, workers[w].now)
        /\ workers' = [workers EXCEPT
                         ![w].pc = "ack", ![w].outcome = outcome,
                         ![w].fresh = IF outcome = "processed" THEN @ \cup {c.key} ELSE @]
        /\ effects' = [effects EXCEPT ![c.key] =
                         IF outcome = "processed" THEN @ + 1 ELSE @]
    /\ UNCHANGED <<vars, surfaced, dropped, crashes, losses, stalled>>

\* POST /v1/acks reaches the hub in time and is accepted.
AckAccepted(w) ==
    /\ workers[w].pc = "ack"
    /\ clock < workers[w].now + AuthTtl
    /\ Acknowledge(Ack1(w), clock)
    /\ UNCHANGED <<inbox, surfaced, effects, crashes, stalled>>

SendAck(w) ==
    /\ AckAccepted(w)
    /\ workers' = [workers EXCEPT ![w].pc = "next", ![w].outcome = "",
                                  ![w].batch = @ \ {HeadClaim(w)}]
    /\ UNCHANGED <<losses, dropped>>

\* The hub committed the ack but its answer was lost.
AckLost(w) ==
    /\ losses < MaxLosses
    /\ AckAccepted(w)
    /\ Abort(w)
    /\ losses' = losses + 1

\* The ack never reached the hub, or the hub refused it (LeaseConflict,
\* expired request, ack time out of the window).
AckFailed(w) ==
    /\ workers[w].pc = "ack"
    /\ \/ losses < MaxLosses /\ losses' = losses + 1
       \/ AckRefused(Ack1(w), workers[w].now) /\ losses' = losses
    /\ Abort(w)
    /\ UNCHANGED <<vars, inbox, surfaced, effects, crashes, stalled>>

\* claim_and_process returns and check_inbox prints what is fresh.
Return(w) ==
    /\ workers[w].pc = "next" /\ workers[w].batch = {}
    /\ surfaced' = surfaced \cup workers[w].fresh
    /\ workers' = [workers EXCEPT ![w] = Resting]
    /\ UNCHANGED <<vars, inbox, dropped, effects, crashes, losses, stalled>>

Crash(w) ==
    /\ workers[w].pc # "idle" /\ crashes < MaxCrashes
    /\ Abort(w)
    /\ crashes' = crashes + 1
    /\ UNCHANGED <<vars, inbox, surfaced, effects, losses, stalled>>

\* Another of the agent's inbox endpoints (direct or hub) delivered e first: a
\* poll of it began, processed and printed the message.
OtherRoute(e) ==
    LET k == KeyOf[e]
    IN  /\ inbox[k].state = "none"
        /\ inbox' = [inbox EXCEPT ![k] =
                [state |-> "processed", envelope |-> e, updated |-> clock]]
        /\ effects' = [effects EXCEPT ![k] = @ + 1]
        /\ surfaced' = surfaced \cup {k}
        /\ UNCHANGED <<vars, workers, dropped, crashes, losses, stalled>>

-----------------------------------------------------------------------------
(* Behaviour *)

ConsumerInit ==
    /\ Init
    /\ inbox = [k \in Key |-> NoInboxRow]
    /\ workers = [w \in Worker |-> Resting]
    /\ surfaced = {} /\ dropped = {}
    /\ effects = [k \in Key |-> 0]
    /\ crashes = 0
    /\ losses = 0
    /\ stalled = FALSE

TimePasses ==
    /\ \A w \in Worker : workers[w].pc # "idle" => clock < workers[w].now + MaxStall
    /\ Tick
    /\ stalled' = (stalled \/ \E w \in Worker : Late(workers[w]))
    /\ UNCHANGED <<inbox, workers, surfaced, dropped, effects, crashes, losses>>

Sender == EnqueueAny(clock) /\ UNCHANGED consumerVars

ConsumerNext ==
    \/ TimePasses
    \/ Sender
    \/ \E e \in Elsewhere : OtherRoute(e)
    \/ \E w \in Worker : Poll(w)
    \/ \E w \in Worker : PollLost(w)
    \/ \E w \in Worker : Begin(w)
    \/ \E w \in Worker, outcome \in {"processed", "terminal_failed"} : Finish(w, outcome)
    \/ \E w \in Worker : SendAck(w)
    \/ \E w \in Worker : AckLost(w)
    \/ \E w \in Worker : AckFailed(w)
    \/ \E w \in Worker : Return(w)
    \/ \E w \in Worker : Crash(w)

ConsumerSpec == ConsumerInit /\ [][ConsumerNext]_everything

-----------------------------------------------------------------------------
(* Properties *)

\* One local effect per (sender_id, message_id) as long as no process stalls
\* past the processing timeout, over any redelivery, loss, late ack or
\* re-claim by the hub.
OneEffectPerKey ==
    ~stalled => \A k \in Key : effects[k] <= 1

\* The hub never believes more than the inbox knows: a delivery it holds as
\* acknowledged was durably processed by the recipient first, and its payload
\* was handed to the agent, is about to be by a poll still running, or was
\* lost with a poll that failed after it decrypted it.
AckAfterEffect ==
    \A k \in Key :
        deliveries[<<k, Me>>].state = "acknowledged" =>
            /\ effects[k] > 0
            /\ k \in surfaced \cup dropped \/ \E w \in Worker : k \in workers[w].fresh

\* A processed inbox row stays processed as long as no process stalls past
\* the processing timeout: finish writes whatever the row's state is, so only
\* begin's single ownership keeps a late failure from overwriting a success.
ProcessedIsFinal ==
    [][\A k \in Key :
          ~stalled /\ inbox[k].state = "processed" =>
             inbox'[k].state = "processed"]_everything

\* One crashed poll does not cost the message: the hub never gives up on a
\* delivery for exhausted attempts while the inbox still shows the crashed
\* owner's unfinished row.
CrashedOwnerRecovered ==
    \A k \in Key :
        deliveries[<<k, Me>>].error = "max_attempts_after_lease_expiry" =>
            inbox[k].state # "processing"
=============================================================================
