--------------------------- MODULE ConsumerProofs ---------------------------
(***************************************************************************)
(* Machine-checked proofs about Consumer, for any number of processes,     *)
(* keys and envelopes and any pattern of crashes, losses and stalls.       *)
(*                                                                         *)
(* As for the mirror, one half of the invariant holds always (nothing is   *)
(* acknowledged without its effect) and the other until a poll stalls (a   *)
(* process that works on a key is the only one).                           *)
(***************************************************************************)
EXTENDS Consumer, BrokerProofs

Proc == [pc : {"idle", "next", "work", "ack"}, now : Nat, batch : SUBSET ClaimItem,
         fresh : SUBSET Key, outcome : Outcome \cup {""}]

\* The claim a process works on.
At(p) == FirstClaim(p.batch).key
Env(p) == FirstClaim(p.batch).envelope

-----------------------------------------------------------------------------
(* The half that holds always *)

ConsumerTypes ==
    /\ inbox \in [Key -> InboxRow]
    /\ workers \in [Worker -> Proc]
    /\ surfaced \subseteq Key /\ dropped \subseteq Key
    /\ effects \in [Key -> Nat]
    /\ crashes \in Nat /\ losses \in Nat /\ stalled \in BOOLEAN

\* A process at work has a claim, one that rests has no payload in hand, and
\* one that reports success is right.
ProcOK(p, ef) ==
    /\ p.pc \in {"work", "ack"} => p.batch # {}
    /\ p.pc = "ack" => p.outcome \in Outcome
    /\ p.pc = "idle" => p.fresh = {}
    /\ p.pc = "ack" /\ p.outcome = "processed" => ef[At(p)] > 0

ProcsInv == \A w \in Worker : ProcOK(workers[w], effects)

\* Where the payload of a processed message is.
Handed(k) == k \in surfaced \cup dropped \/ \E w \in Worker : k \in workers[w].fresh

EffectInv ==
    \A k \in Key :
        /\ effects[k] > 0 => Handed(k)
        /\ inbox[k].state = "processed" => effects[k] > 0
        /\ deliveries[<<k, Me>>].state = "acknowledged" => effects[k] > 0

-----------------------------------------------------------------------------
(* The half that holds until a poll stalls *)

Timely(p, t) == p.pc # "idle" => p.now <= t /\ t < p.now + ProcessingTimeout

\* A process at work owns the row of its key.
Owns(p, ib) ==
    p.pc = "work" =>
        ib[At(p)] = [state |-> "processing", envelope |-> Env(p), updated |-> p.now]

Apart(p, q) == p.pc = "work" /\ q.pc = "work" => At(p) # At(q)

OwnersInv ==
    /\ \A w \in Worker : Timely(workers[w], clock) /\ Owns(workers[w], inbox)
    /\ \A w, v \in Worker : w # v => Apart(workers[w], workers[v])

\* Only a processed row has had its effect, and had it once.
OnceInv ==
    \A k \in Key : effects[k] <= 1 /\ (inbox[k].state # "processed" => effects[k] = 0)

\* The inductive invariant.
CInv == /\ IInv /\ ConsumerTypes /\ ProcsInv /\ EffectInv
        /\ stalled \/ (OwnersInv /\ OnceInv)

-----------------------------------------------------------------------------
(* Claims and processes *)

\* The claim a process works on is one of its claims.
LEMMA FirstIsClaim ==
    ASSUME NEW p \in Proc, p.batch # {}
    PROVE  /\ FirstClaim(p.batch) \in ClaimItem
           /\ At(p) \in Key /\ Env(p) \in Envelope
<1> DEFINE B == p.batch
           T == {c.lease[1] : c \in B}
<1>1. B \subseteq ClaimItem
  BY DEF Proc
<1>2. \A c \in B : c.lease[1] \in Nat
  BY <1>1 DEF ClaimItem, Lease
<1> HIDE DEF B
<1>3. T \in SUBSET Nat /\ T # {}
  BY <1>2 DEF B
<1>4. PICK m \in T : \A n \in T : m <= n
  BY <1>3, LeastNumber
<1>5. PICK c \in B : \A o \in B : c.lease[1] <= o.lease[1]
  BY <1>4
<1>6. FirstClaim(B) \in B
  BY <1>5 DEF FirstClaim
<1> QED BY <1>1, <1>6 DEF B, ClaimItem, At, Env

\* A resting process satisfies everything that is said of a process.
LEMMA RestingProc ==
    /\ Resting \in Proc /\ Resting.pc = "idle" /\ Resting.fresh = {}
    /\ \A ef : ProcOK(Resting, ef)
    /\ \A t : Timely(Resting, t)
<1>1. Resting \in Proc /\ Resting.pc = "idle" /\ Resting.fresh = {}
  BY DEF Resting, Proc
<1> HIDE DEF Resting
<1> QED BY <1>1 DEF ProcOK, Timely

\* One process changes, the others do not.
LEMMA OneProc ==
    ASSUME CInv, NEW w \in Worker, NEW new \in Proc, workers' = [workers EXCEPT ![w] = new]
    PROVE  /\ workers' \in [Worker -> Proc] /\ workers'[w] = new
           /\ \A v \in Worker : v # w => workers'[v] = workers[v]
BY DEF CInv, ConsumerTypes

\* The hub's tables are untouched.
LEMMA HubKept ==
    ASSUME IInv, UNCHANGED vars PROVE IInv'
BY DEF vars, IInv, TypeOK, RowsInv, LedgerInv, CursorOnTerminal

\* A step of one process that leaves the inbox alone, owns nothing afterwards
\* and forgets no payload: what the hub holds as acknowledged had its effect.
LEMMA QuietStep ==
    ASSUME CInv, NEW w \in Worker, NEW new \in Proc, workers' = [workers EXCEPT ![w] = new],
           IInv', UNCHANGED <<clock, stalled, inbox, effects>>,
           surfaced' \subseteq Key, dropped' \subseteq Key, crashes' \in Nat, losses' \in Nat,
           surfaced \subseteq surfaced', dropped \subseteq dropped',
           workers[w].fresh \subseteq surfaced' \cup dropped' \cup new.fresh,
           ProcOK(new, effects), new.pc # "work", stalled \/ Timely(new, clock),
           \A k \in Key : deliveries'[<<k, Me>>].state = "acknowledged" => effects[k] > 0
    PROVE  CInv'
<1>1. /\ workers' \in [Worker -> Proc] /\ workers'[w] = new
      /\ \A v \in Worker : v # w => workers'[v] = workers[v]
  BY OneProc
<1>2. ConsumerTypes'
  BY <1>1 DEF CInv, ConsumerTypes
<1>3. ProcsInv'
  BY <1>1 DEF CInv, ProcsInv
<1>4. ASSUME NEW k \in Key, Handed(k) PROVE Handed(k)'
  BY <1>1, <1>4 DEF Handed
<1>5. EffectInv'
  BY <1>4 DEF CInv, EffectInv
<1>6. ASSUME ~stalled PROVE OwnersInv' /\ OnceInv'
  <2>1. OwnersInv /\ OnceInv
    BY <1>6 DEF CInv
  <2>2. \A v \in Worker : Timely(workers'[v], clock') /\ Owns(workers'[v], inbox')
    BY <1>1, <1>6, <2>1 DEF OwnersInv, Owns
  <2>3. \A v, u \in Worker : v # u => Apart(workers'[v], workers'[u])
    BY <1>1, <2>1 DEF OwnersInv, Apart
  <2> QED BY <2>1, <2>2, <2>3 DEF OwnersInv, OnceInv
<1> QED BY <1>2, <1>3, <1>5, <1>6 DEF CInv

\* A step of the hub alone.
LEMMA HubStep ==
    ASSUME CInv, IInv', UNCHANGED <<clock, stalled, inbox, effects, workers, surfaced, dropped, crashes>>,
           losses' \in Nat,
           \A k \in Key : deliveries'[<<k, Me>>].state = "acknowledged" => effects[k] > 0
    PROVE  CInv'
<1>1. ConsumerTypes' /\ ProcsInv'
  BY DEF CInv, ConsumerTypes, ProcsInv
<1>2. \A k \in Key : Handed(k)' <=> Handed(k)
  BY DEF Handed
<1>3. EffectInv'
  BY <1>2 DEF CInv, EffectInv
<1>4. ~stalled => OwnersInv' /\ OnceInv'
  BY DEF CInv, OwnersInv, OnceInv
<1> QED BY <1>1, <1>3, <1>4 DEF CInv

\* A process leaves the loop by an exception, or dies.
LEMMA AbortStep ==
    ASSUME CInv, NEW w \in Worker, Abort(w), IInv',
           UNCHANGED <<clock, stalled, inbox, effects, surfaced>>,
           crashes' \in Nat, losses' \in Nat,
           \A k \in Key : deliveries'[<<k, Me>>].state = "acknowledged" => effects[k] > 0
    PROVE  CInv'
<1>1. workers[w].fresh \subseteq Key /\ surfaced \subseteq Key /\ dropped \subseteq Key
  BY DEF CInv, ConsumerTypes, Proc
<1>2. dropped' = dropped \cup workers[w].fresh /\ workers' = [workers EXCEPT ![w] = Resting]
  BY DEF Abort
<1>3. /\ surfaced' \subseteq Key /\ dropped' \subseteq Key
      /\ surfaced \subseteq surfaced' /\ dropped \subseteq dropped'
      /\ workers[w].fresh \subseteq surfaced' \cup dropped' \cup Resting.fresh
  BY <1>1, <1>2
<1>4. Resting.pc # "work"
  BY RestingProc
<1> QED BY <1>2, <1>3, <1>4, RestingProc, QuietStep

\* What is acknowledged had its effect, if the hub's deliveries stay.
LEMMA AckedKept ==
    ASSUME CInv, UNCHANGED deliveries
    PROVE  \A k \in Key : deliveries'[<<k, Me>>].state = "acknowledged" => effects[k] > 0
BY DEF CInv, EffectInv

-----------------------------------------------------------------------------
(* The hub's side *)

\* A claim acknowledges nothing, keeps the hub's invariant and grants
\* well-formed claims.
LEMMA ClaimBatchStep ==
    ASSUME CInv, ClaimBatch
    PROVE  /\ IInv' /\ UNCHANGED clock /\ Granted \in SUBSET ClaimItem
           /\ \A k \in Key : deliveries'[<<k, Me>>].state = "acknowledged" => effects[k] > 0
<1>1. /\ Claim(Me, PollLimit, PollLease, clock) /\ UNCHANGED <<clock, messages>>
      /\ clock \in Nat /\ IInv /\ Me \in Agent /\ PollLease \in Nat
  BY PollingAssumption DEF ClaimBatch, Claim, CInv, IInv, TypeOK
<1>2. \A k \in Key : <<k, Me>> \in DeliveryId
  BY <1>1 DEF DeliveryId
<1>3. IInv'
  BY <1>1, ClaimStep
<1>4. ASSUME NEW c \in Granted PROVE c \in ClaimItem
  <2>1. PICK k \in Key :
           /\ deliveries'[<<k, Me>>].state = "claimed"
           /\ c = [key |-> k, envelope |-> messages[k], lease |-> deliveries'[<<k, Me>>].lease]
    BY <1>4 DEF Granted
  <2>2. messages' \in [Key -> Envelope \cup {NoMessage}] /\ deliveries' \in [DeliveryId -> Row]
    BY <1>3 DEF IInv, TypeOK
  <2>3. messages'[k] # NoMessage
    BY <1>2, <1>3, <2>1 DEF IInv, RowsInv
  <2>4. messages[k] \in Envelope /\ deliveries'[<<k, Me>>].lease \in Lease
    BY <1>1, <1>2, <2>2, <2>3 DEF Row
  <2> QED BY <2>1, <2>4 DEF ClaimItem
<1>5. ASSUME NEW k \in Key, deliveries'[<<k, Me>>].state = "acknowledged"
      PROVE  effects[k] > 0
  <2> DEFINE d == <<k, Me>>
             rows == Expired(clock)
  <2>1. d \in DeliveryId
    BY <1>2
  <2>2. ExpiryOf(deliveries[d], rows[d])
    BY <1>1, <2>1, ExpiredTable DEF IInv
  <2>3. deliveries'[d] = rows[d] \/ deliveries'[d].state = "claimed"
    BY <1>1, <2>1, ClaimRows
  <2> HIDE DEF rows, d
  <2>4. deliveries'[d].state = "acknowledged"
    BY <1>5 DEF d
  <2>5. deliveries[d].state = "acknowledged"
    BY <2>2, <2>3, <2>4 DEF ExpiryOf
  <2> QED BY <2>5 DEF d, CInv, EffectInv
<1> QED BY <1>1, <1>3, <1>4, <1>5

\* An accepted ack of "processed" comes from a process that is right.
LEMMA AckAcceptedStep ==
    ASSUME CInv, NEW w \in Worker, AckAccepted(w)
    PROVE  /\ IInv' /\ UNCHANGED clock
           /\ \A k \in Key : deliveries'[<<k, Me>>].state = "acknowledged" => effects[k] > 0
<1> DEFINE p == workers[w]
           a == Ack1(w)
           c == FirstClaim(p.batch)
<1>1. p.pc = "ack" /\ Acknowledge(a, clock) /\ clock \in Nat /\ IInv
  BY DEF AckAccepted, CInv, IInv, TypeOK
<1>2. p \in Proc /\ ProcOK(p, effects)
  BY DEF CInv, ConsumerTypes, ProcsInv
<1>3. p.batch # {} /\ p.outcome \in Outcome
  BY <1>1, <1>2 DEF ProcOK
<1>4. c \in ClaimItem /\ At(p) = c.key
  BY <1>2, <1>3, FirstIsClaim DEF At
<1>5. a = [receiver |-> Me, key |-> c.key, lease |-> c.lease, envelope |-> c.envelope,
           outcome |-> p.outcome, issued |-> p.now]
  BY DEF Ack1, MakeAck, HeadClaim
<1>6. p.outcome = "processed" => effects[c.key] > 0
  BY <1>1, <1>2, <1>4 DEF ProcOK
<1> HIDE DEF c, p, a
<1>7. a \in Ack
  BY <1>2, <1>3, <1>4, <1>5, PollingAssumption DEF Ack, ClaimItem, Proc
<1>8. IInv'
  BY <1>1, <1>7, AcknowledgeStep
<1> DEFINE d == <<c.key, Me>>
<1>9. /\ d \in DeliveryId /\ c.key \in Key /\ UNCHANGED clock
      /\ deliveries[d].state = "claimed"
      /\ deliveries' = [deliveries EXCEPT ![d] = Settle(@, p.outcome, clock)]
  BY <1>1, <1>4, <1>5, PollingAssumption DEF Acknowledge, HoldsLease, DeliveryId, ClaimItem
<1>10. deliveries \in [DeliveryId -> Row] /\ deliveries[d] \in Row /\ RowOK(deliveries[d])
  BY <1>1, <1>9 DEF IInv, TypeOK, RowsInv
<1>11. deliveries'[d].state = "acknowledged" => p.outcome = "processed"
  <2>1. Settle(deliveries[d], p.outcome, clock).state = "acknowledged" => p.outcome = "processed"
    BY <1>1, <1>3, <1>9, <1>10, SettleRow
  <2> QED BY <1>9, <1>10, <2>1
<1>12. ASSUME NEW k \in Key, deliveries'[<<k, Me>>].state = "acknowledged"
       PROVE  effects[k] > 0
  <2>1. CASE k = c.key
    BY <1>6, <1>11, <1>12, <2>1
  <2>2. CASE k # c.key
    <3>1. <<k, Me>> \in DeliveryId /\ <<k, Me>> # d
      BY <2>2, PollingAssumption DEF DeliveryId
    <3>2. deliveries'[<<k, Me>>] = deliveries[<<k, Me>>]
      BY <1>9, <1>10, <3>1
    <3> QED BY <1>12, <3>2 DEF CInv, EffectInv
  <2> QED BY <2>1, <2>2
<1> QED BY <1>8, <1>9, <1>12

\* Admission acknowledges nothing.
LEMMA SenderStep ==
    ASSUME CInv, Sender
    PROVE  CInv'
<1>1. PICK e \in Envelope : Enqueue(e, clock)
  BY DEF Sender, EnqueueAny
<1>2. UNCHANGED <<stalled, inbox, effects, workers, surfaced, dropped, crashes, losses>>
  BY DEF Sender, consumerVars
<1>3. clock \in Nat /\ IInv /\ Me \in Agent /\ losses' \in Nat
  BY <1>2, PollingAssumption DEF CInv, ConsumerTypes, IInv, TypeOK
<1>4. IInv' /\ UNCHANGED clock
  BY <1>1, <1>3, EnqueueStep DEF Enqueue
<1>5. ASSUME NEW k \in Key, deliveries'[<<k, Me>>].state = "acknowledged"
      PROVE  effects[k] > 0
  <2>1. <<k, Me>> \in DeliveryId
    BY <1>3 DEF DeliveryId
  <2>2. deliveries[<<k, Me>>].state = "acknowledged"
    <3>1. CASE UNCHANGED deliveries
      BY <1>5, <3>1
    <3>2. CASE ~UNCHANGED deliveries
      BY <1>1, <1>3, <1>5, <2>1, <3>2, EnqueueRows
    <3> QED BY <3>1, <3>2
  <2> QED BY <2>2 DEF CInv, EffectInv
<1> QED BY <1>2, <1>3, <1>4, <1>5, HubStep

-----------------------------------------------------------------------------
(* The steps of a process *)

\* POST /v1/claims
LEMMA PollStep ==
    ASSUME CInv, NEW w \in Worker, Poll(w)
    PROVE  CInv'
<1> DEFINE new == [Resting EXCEPT !.pc = "next", !.now = clock, !.batch = Granted]
<1>1. /\ workers[w].pc = "idle" /\ ClaimBatch
      /\ workers' = [workers EXCEPT ![w] = new]
      /\ UNCHANGED <<inbox, surfaced, dropped, effects, crashes, losses, stalled>>
  BY DEF Poll
<1>2. /\ IInv' /\ UNCHANGED clock /\ Granted \in SUBSET ClaimItem
      /\ \A k \in Key : deliveries'[<<k, Me>>].state = "acknowledged" => effects[k] > 0
  BY <1>1, ClaimBatchStep
<1>3. clock \in Nat
  BY DEF CInv, IInv, TypeOK
<1>4. new \in Proc /\ new.pc = "next" /\ new.now = clock
  <2> HIDE DEF Granted
  <2> QED BY <1>2, <1>3 DEF Resting, Proc
<1> HIDE DEF new
<1>5. ProcOK(new, effects) /\ Timely(new, clock)
  BY <1>3, <1>4, PollingAssumption DEF ProcOK, Timely
<1>6. workers[w].fresh = {}
  BY <1>1 DEF CInv, ProcsInv, ProcOK
<1> QED BY <1>1, <1>2, <1>4, <1>5, <1>6, QuietStep DEF CInv, ConsumerTypes

\* The hub leased the rows and nobody was told.
LEMMA PollLostStep ==
    ASSUME CInv, NEW w \in Worker, PollLost(w)
    PROVE  CInv'
<1>1. /\ ClaimBatch /\ UNCHANGED <<inbox, workers, surfaced, dropped, effects, crashes, stalled>>
      /\ losses' \in Nat
  BY DEF PollLost, CInv, ConsumerTypes
<1> QED BY <1>1, ClaimBatchStep, HubStep

\* The step of begin that takes a key: its row was absent or stale, so no
\* process in time is at work on it.
LEMMA TakeStep ==
    ASSUME CInv, NEW w \in Worker, NEW new \in Proc, workers' = [workers EXCEPT ![w] = new],
           UNCHANGED <<vars, surfaced, dropped, effects, crashes, losses, stalled>>,
           workers[w].pc = "next", new.pc = "work", new.batch # {},
           new.now = workers[w].now, new.fresh = workers[w].fresh,
           inbox' = [inbox EXCEPT ![At(new)] =
              [state |-> "processing", envelope |-> Env(new), updated |-> new.now]],
           LET row == inbox[At(new)]
           IN  row.state = "none" \/ (/\ row.state = "processing"
                                      /\ row.updated <= new.now - ProcessingTimeout)
    PROVE  CInv'
<1> DEFINE k   == At(new)
           row == inbox[k]
           mine == [state |-> "processing", envelope |-> Env(new), updated |-> new.now]
<1>1. k \in Key /\ Env(new) \in Envelope /\ new.now \in Nat
  BY FirstIsClaim DEF Proc
<1>2. /\ workers' \in [Worker -> Proc] /\ workers'[w] = new
      /\ \A v \in Worker : v # w => workers'[v] = workers[v]
  BY OneProc
<1>3. mine \in InboxRow /\ inbox \in [Key -> InboxRow]
  BY <1>1 DEF InboxRow, CInv, ConsumerTypes
<1>4. inbox' \in [Key -> InboxRow] /\ inbox'[k] = mine /\ mine.state = "processing"
  BY <1>1, <1>3
<1>5. \A j \in Key : j # k => inbox'[j] = inbox[j]
  BY <1>3
<1>6. /\ IInv' /\ UNCHANGED <<clock, deliveries>> /\ clock \in Nat
  BY HubKept DEF CInv, vars, IInv, TypeOK
<1>7. row.state = "none" \/ (row.state = "processing" /\ row.updated <= new.now - ProcessingTimeout)
  OBVIOUS
<1>8. inbox'[k].state # "processed" /\ row.state # "processed"
  BY <1>4, <1>7
<1>9. row \in InboxRow
  BY <1>1, <1>3
<1> HIDE DEF k, row, mine
<1>10. ConsumerTypes'
  BY <1>2, <1>4 DEF CInv, ConsumerTypes
<1>11. ProcsInv'
  BY <1>2 DEF CInv, ProcsInv, ProcOK
<1>12. \A j \in Key : Handed(j)' <=> Handed(j)
  BY <1>2 DEF Handed
<1>13. EffectInv'
  BY <1>5, <1>6, <1>8, <1>12 DEF CInv, EffectInv
<1>14. ASSUME ~stalled PROVE OwnersInv' /\ OnceInv'
  <2>1. OwnersInv /\ OnceInv
    BY <1>14 DEF CInv
  <2>2. OnceInv'
    BY <1>5, <1>8, <2>1 DEF OnceInv, row
  <2>3. Timely(workers[w], clock)
    BY <2>1 DEF OwnersInv
  <2>4. Timely(new, clock) /\ Owns(new, inbox')
    BY <1>4, <2>3 DEF Timely, Owns, k, mine
  <2>5. ASSUME NEW v \in Worker, v # w, workers[v].pc = "work" PROVE At(workers[v]) # k
    <3>1. SUFFICES ASSUME At(workers[v]) = k PROVE FALSE
      OBVIOUS
    <3>2. /\ row.state = "processing" /\ row.updated = workers[v].now
          /\ clock < workers[v].now + ProcessingTimeout
      <4>1. Owns(workers[v], inbox) /\ Timely(workers[v], clock)
        BY <2>1 DEF OwnersInv
      <4>2. row = [state |-> "processing", envelope |-> Env(workers[v]), updated |-> workers[v].now]
        BY <2>5, <3>1, <4>1 DEF Owns, row
      <4>3. workers[v].pc # "idle"
        BY <2>5
      <4> QED BY <4>1, <4>2, <4>3 DEF Timely
    <3>3. new.now <= clock
      BY <2>3 DEF Timely
    <3>4. row.updated \in Nat
      BY <1>9 DEF InboxRow
    <3> QED BY <1>1, <1>6, <1>7, <3>2, <3>3, <3>4, PollingAssumption
  <2>6. ASSUME NEW v \in Worker, v # w PROVE Owns(workers[v], inbox')
    <3>1. CASE workers[v].pc = "work"
      <4>1. At(workers[v]) \in Key
        BY <3>1, FirstIsClaim DEF CInv, ConsumerTypes, ProcsInv, ProcOK
      <4>2. inbox'[At(workers[v])] = inbox[At(workers[v])]
        BY <1>5, <2>5, <2>6, <3>1, <4>1
      <4> QED BY <2>1, <4>2 DEF OwnersInv, Owns
    <3> QED BY <3>1 DEF Owns
  <2>7. \A v \in Worker : Timely(workers'[v], clock') /\ Owns(workers'[v], inbox')
    BY <1>2, <1>6, <2>1, <2>4, <2>6 DEF OwnersInv
  <2>8. \A v \in Worker : v # w => Apart(new, workers[v]) /\ Apart(workers[v], new)
    BY <2>5 DEF Apart, k
  <2>9. \A v, u \in Worker : v # u => Apart(workers'[v], workers'[u])
    BY <1>2, <2>1, <2>8 DEF OwnersInv
  <2> QED BY <2>2, <2>7, <2>9 DEF OwnersInv
<1> QED BY <1>6, <1>10, <1>11, <1>13, <1>14 DEF CInv

\* store.begin: whoever is told "new" takes the key, everybody else leaves the
\* inbox as it is.
LEMMA BeginStep ==
    ASSUME CInv, NEW w \in Worker, Begin(w)
    PROVE  CInv'
<1> DEFINE p == workers[w]
           c == HeadClaim(w)
           row == inbox[c.key]
           answer == BeginAnswer(row, c.envelope, p.now)
<1>1. /\ p.pc = "next" /\ p.batch # {}
      /\ inbox' = [inbox EXCEPT ![c.key] =
            IF answer = "new" THEN [state |-> "processing", envelope |-> c.envelope, updated |-> p.now]
            ELSE @]
      /\ UNCHANGED <<vars, surfaced, effects, crashes, losses, stalled>>
  BY DEF Begin, InboxBegin
<1>2. p \in Proc /\ ProcOK(p, effects) /\ (stalled \/ Timely(p, clock))
  BY DEF CInv, ConsumerTypes, ProcsInv, OwnersInv
<1>3. c \in ClaimItem /\ At(p) = c.key /\ Env(p) = c.envelope /\ c.key \in Key
  BY <1>1, <1>2, FirstIsClaim DEF At, Env, HeadClaim
<1>4. inbox \in [Key -> InboxRow] /\ row \in InboxRow
  BY <1>3 DEF CInv, ConsumerTypes
<1>5. IInv' /\ UNCHANGED <<clock, deliveries>>
  BY <1>1, HubKept DEF CInv, vars
<1>6. answer # "new" => inbox' = inbox
  BY <1>1, <1>3, <1>4
<1>7. /\ answer = "new" => \/ row.state = "none"
                           \/ /\ row.state = "processing"
                              /\ row.updated <= p.now - ProcessingTimeout
      /\ answer \in {"processed", "terminal_failed"} => row.state = answer
  <2>1. row.state \in {"none", "processing", "processed", "terminal_failed"}
    BY <1>4 DEF InboxRow
  <2> HIDE DEF row, c, p
  <2>2. CASE row.state = "none"
    BY <2>2 DEF BeginAnswer
  <2>3. CASE row.state # "none" /\ row.envelope # c.envelope
    BY <2>3 DEF BeginAnswer
  <2>4. CASE row.state # "none" /\ row.envelope = c.envelope /\ Stale(row, p.now)
    <3>1. answer = "new"
      BY <2>4 DEF BeginAnswer
    <3> QED BY <2>4, <3>1 DEF Stale
  <2>5. CASE row.state # "none" /\ row.envelope = c.envelope /\ ~Stale(row, p.now)
    <3>1. answer = row.state
      BY <2>5 DEF BeginAnswer
    <3> QED BY <2>1, <2>5, <3>1
  <2> QED BY <2>2, <2>3, <2>4, <2>5
<1>8. CASE answer = "new" /\ workers' = [workers EXCEPT ![w].pc = "work"] /\ UNCHANGED dropped
  <2> DEFINE new == [p EXCEPT !.pc = "work"]
  <2>1. /\ new \in Proc /\ new.pc = "work" /\ new.batch = p.batch /\ new.now = p.now
        /\ new.fresh = p.fresh /\ workers' = [workers EXCEPT ![w] = new]
    BY <1>2, <1>8 DEF Proc
  <2> HIDE DEF new
  <2>2. At(new) = c.key /\ Env(new) = c.envelope
    BY <1>3, <2>1 DEF At, Env
  <2>3. inbox' = [inbox EXCEPT ![At(new)] =
            [state |-> "processing", envelope |-> Env(new), updated |-> new.now]]
    BY <1>1, <1>8, <2>1, <2>2
  <2>4. \/ inbox[At(new)].state = "none"
        \/ /\ inbox[At(new)].state = "processing"
           /\ inbox[At(new)].updated <= new.now - ProcessingTimeout
    BY <1>7, <1>8, <2>1, <2>2
  <2> QED BY <1>1, <1>8, <2>1, <2>3, <2>4, TakeStep
<1>9. CASE answer = "conflict" /\ Abort(w)
  <2>1. crashes' \in Nat /\ losses' \in Nat /\ inbox' = inbox
    BY <1>1, <1>6, <1>9 DEF CInv, ConsumerTypes
  <2> QED BY <1>1, <1>5, <1>9, <2>1, AbortStep, AckedKept
<1>10. CASE /\ answer = "processing" /\ workers' = [workers EXCEPT ![w].batch = @ \ {c}]
            /\ UNCHANGED dropped
  <2> DEFINE new == [p EXCEPT !.batch = @ \ {c}]
  <2>1. /\ new \in Proc /\ new.pc = "next" /\ new.now = p.now
        /\ new.fresh = p.fresh /\ workers' = [workers EXCEPT ![w] = new]
    <3> HIDE DEF c
    <3> QED BY <1>1, <1>2, <1>10 DEF Proc
  <2> HIDE DEF new
  <2>2. ProcOK(new, effects) /\ (stalled \/ Timely(new, clock)) /\ inbox' = inbox
    BY <1>1, <1>2, <1>6, <1>10, <2>1 DEF ProcOK, Timely
  <2> QED BY <1>1, <1>5, <1>10, <2>1, <2>2, QuietStep, AckedKept DEF CInv, ConsumerTypes
<1>11. CASE /\ answer \in {"processed", "terminal_failed"}
            /\ workers' = [workers EXCEPT ![w].pc = "ack", ![w].outcome = answer]
            /\ UNCHANGED dropped
  <2> DEFINE new == [p EXCEPT !.pc = "ack", !.outcome = answer]
  <2>1. answer \in Outcome /\ row.state = answer /\ answer # "new"
    BY <1>7, <1>11 DEF Outcome
  <2>2. /\ new \in Proc /\ new.pc = "ack" /\ new.now = p.now /\ new.batch = p.batch
        /\ new.fresh = p.fresh /\ new.outcome = answer /\ workers' = [workers EXCEPT ![w] = new]
    <3> HIDE DEF answer
    <3> QED BY <1>2, <1>11, <2>1 DEF Proc
  <2>3. answer = "processed" => effects[c.key] > 0
    BY <1>3, <2>1 DEF CInv, EffectInv
  <2> HIDE DEF new, answer
  <2>4. At(new) = c.key
    BY <1>3, <2>2 DEF At
  <2>5. ProcOK(new, effects) /\ (stalled \/ Timely(new, clock)) /\ inbox' = inbox
    BY <1>1, <1>2, <1>6, <2>1, <2>2, <2>3, <2>4 DEF ProcOK, Timely
  <2> QED BY <1>1, <1>5, <1>11, <2>2, <2>5, QuietStep, AckedKept DEF CInv, ConsumerTypes
<1> QED BY <1>8, <1>9, <1>10, <1>11 DEF Begin

\* finish: the owner of a row that is still in progress gives it its outcome.
\* A late process may overwrite a settled row, which is why only the first
\* half of the invariant survives a stall.
LEMMA FinishStep ==
    ASSUME CInv, NEW w \in Worker, NEW outcome \in {"processed", "terminal_failed"},
           Finish(w, outcome)
    PROVE  CInv'
<1> DEFINE p == workers[w]
           k == At(p)
           new == [p EXCEPT !.pc = "ack", !.outcome = outcome,
                            !.fresh = IF outcome = "processed" THEN @ \cup {k} ELSE @]
           row == [inbox[k] EXCEPT !.state = outcome, !.updated = p.now]
           n == IF outcome = "processed" THEN effects[k] + 1 ELSE effects[k]
<1>1. /\ p.pc = "work" /\ inbox' = [inbox EXCEPT ![k] = row]
      /\ workers' = [workers EXCEPT ![w] = new]
      /\ effects' = [effects EXCEPT ![k] = n]
      /\ UNCHANGED <<vars, surfaced, dropped, crashes, losses, stalled>>
  BY DEF Finish, InboxFinish, At, HeadClaim
<1>2. /\ p \in Proc /\ ProcOK(p, effects) /\ p.batch # {}
      /\ stalled \/ (OwnersInv /\ OnceInv)
  BY <1>1 DEF CInv, ConsumerTypes, ProcsInv, ProcOK
<1>3. k \in Key
  BY <1>2, FirstIsClaim
<1>4. /\ inbox \in [Key -> InboxRow] /\ inbox[k] \in InboxRow /\ p.now \in Nat
      /\ effects \in [Key -> Nat] /\ effects[k] \in Nat
  BY <1>2, <1>3 DEF CInv, ConsumerTypes, Proc
<1>5. row \in InboxRow /\ row.state = outcome
  BY <1>4 DEF InboxRow
<1>6. inbox' \in [Key -> InboxRow] /\ inbox'[k].state = outcome
  BY <1>1, <1>3, <1>4, <1>5
<1>7. \A j \in Key : j # k => inbox'[j] = inbox[j] /\ effects'[j] = effects[j]
  BY <1>1, <1>4
<1>8. /\ n \in Nat /\ n >= effects[k] /\ (outcome = "processed" => n > 0)
      /\ effects' \in [Key -> Nat] /\ effects'[k] = n
  <2>1. n \in Nat /\ n >= effects[k] /\ (outcome = "processed" => n > 0)
    BY <1>4
  <2> HIDE DEF n
  <2> QED BY <1>1, <1>3, <1>4, <2>1
<1>9. /\ new \in Proc /\ new.pc = "ack" /\ new.outcome = outcome /\ new.batch = p.batch
      /\ new.now = p.now /\ p.fresh \subseteq new.fresh
      /\ outcome = "processed" => k \in new.fresh
  <2>1. outcome \in Outcome
    BY DEF Outcome
  <2>2. (IF outcome = "processed" THEN p.fresh \cup {k} ELSE p.fresh) \in SUBSET Key
    BY <1>2, <1>3 DEF Proc
  <2> HIDE DEF k, p
  <2> QED BY <1>2, <2>1, <2>2 DEF Proc
<1>10. IInv' /\ UNCHANGED <<clock, deliveries>>
  BY <1>1, HubKept DEF CInv, vars
<1>11. At(new) = k
  BY <1>9 DEF At
<1> HIDE DEF new, row, n, k
<1>12. /\ workers' \in [Worker -> Proc] /\ workers'[w] = new
       /\ \A v \in Worker : v # w => workers'[v] = workers[v]
  BY <1>1, <1>9, OneProc
<1>13. ConsumerTypes'
  BY <1>1, <1>6, <1>8, <1>12 DEF CInv, ConsumerTypes
<1>14. \A j \in Key : effects[j] \in Nat /\ effects'[j] \in Nat /\ effects'[j] >= effects[j]
  BY <1>3, <1>4, <1>7, <1>8
<1>15. ProcsInv'
  <2>1. ProcOK(new, effects')
    BY <1>2, <1>8, <1>9, <1>11 DEF ProcOK, Outcome
  <2>2. ASSUME NEW v \in Worker PROVE ProcOK(workers[v], effects')
    <3>1. workers[v] \in Proc /\ ProcOK(workers[v], effects)
      BY DEF CInv, ConsumerTypes, ProcsInv
    <3>2. workers[v].pc = "ack" => At(workers[v]) \in Key
      BY <3>1, FirstIsClaim DEF ProcOK
    <3> QED BY <1>14, <3>1, <3>2 DEF ProcOK
  <2> QED BY <1>12, <2>1, <2>2 DEF ProcsInv
<1>16. EffectInv'
  <2>1. ASSUME NEW j \in Key, Handed(j) PROVE Handed(j)'
    BY <1>1, <1>9, <1>12, <2>1 DEF Handed
  <2>2. ASSUME NEW j \in Key, j = k, outcome = "processed" PROVE Handed(j)'
    BY <1>9, <1>12, <2>2 DEF Handed
  <2>3. ASSUME NEW j \in Key, j # k
        PROVE  /\ effects'[j] > 0 => Handed(j)'
               /\ inbox'[j].state = "processed" => effects'[j] > 0
               /\ deliveries'[<<j, Me>>].state = "acknowledged" => effects'[j] > 0
    BY <1>7, <1>10, <2>1, <2>3 DEF CInv, EffectInv
  <2>4. ASSUME NEW j \in Key, j = k
        PROVE  /\ effects'[j] > 0 => Handed(j)'
               /\ inbox'[j].state = "processed" => effects'[j] > 0
               /\ deliveries'[<<j, Me>>].state = "acknowledged" => effects'[j] > 0
    <3>1. outcome # "processed" => effects'[j] = effects[j]
      BY <1>8, <2>4 DEF n
    <3>2. effects[j] > 0 => Handed(j)
      BY DEF CInv, EffectInv
    <3>3. deliveries[<<j, Me>>].state = "acknowledged" => effects[j] > 0
      BY DEF CInv, EffectInv
    <3>4. effects'[j] > 0 => Handed(j)'
      BY <2>1, <2>2, <2>4, <3>1, <3>2
    <3> QED BY <1>6, <1>8, <1>10, <1>14, <2>4, <3>3, <3>4
  <2> QED BY <2>3, <2>4 DEF EffectInv
<1>17. ASSUME ~stalled PROVE OwnersInv' /\ OnceInv'
  <2>1. OwnersInv /\ OnceInv
    BY <1>2, <1>17
  <2>2. inbox[k].state = "processing"
    <3>1. inbox[k] = [state |-> "processing", envelope |-> Env(p), updated |-> p.now]
      BY <1>1, <2>1 DEF OwnersInv, Owns, k
    <3> QED BY <3>1
  <2>3. effects[k] = 0
    BY <1>3, <2>1, <2>2 DEF OnceInv
  <2>4. OnceInv'
    <3>1. effects'[k] <= 1 /\ (outcome # "processed" => effects'[k] = 0)
      BY <1>8, <2>3 DEF n
    <3> QED BY <1>6, <1>7, <2>1, <3>1 DEF OnceInv
  <2>5. ASSUME NEW v \in Worker, v # w PROVE Owns(workers[v], inbox')
    <3>1. CASE workers[v].pc = "work"
      <4>1. At(workers[v]) \in Key
        BY <3>1, FirstIsClaim DEF CInv, ConsumerTypes, ProcsInv, ProcOK
      <4>2. At(workers[v]) # k
        BY <1>1, <2>1, <2>5, <3>1 DEF OwnersInv, Apart, k
      <4>3. inbox'[At(workers[v])] = inbox[At(workers[v])]
        BY <1>7, <4>1, <4>2
      <4> QED BY <2>1, <4>3 DEF OwnersInv, Owns
    <3> QED BY <3>1 DEF Owns
  <2>6. Timely(new, clock) /\ Owns(new, inbox')
    <3>1. Timely(p, clock)
      BY <2>1 DEF OwnersInv
    <3>2. new.pc # "work" /\ p.pc # "idle"
      BY <1>1, <1>9
    <3> QED BY <1>9, <3>1, <3>2 DEF Timely, Owns
  <2>7. \A v \in Worker : Timely(workers'[v], clock') /\ Owns(workers'[v], inbox')
    BY <1>10, <1>12, <2>1, <2>5, <2>6 DEF OwnersInv
  <2>8. new.pc # "work"
    BY <1>9
  <2>9. \A v, u \in Worker : v # u => Apart(workers'[v], workers'[u])
    BY <1>12, <2>1, <2>8 DEF OwnersInv, Apart
  <2> QED BY <2>4, <2>7, <2>9 DEF OwnersInv
<1>18. stalled' = stalled
  BY <1>1
<1> QED BY <1>10, <1>13, <1>15, <1>16, <1>17, <1>18 DEF CInv

\* The hub accepted the ack, and the process knows or never learns.
LEMMA AckedSteps ==
    ASSUME CInv, NEW w \in Worker, SendAck(w) \/ AckLost(w)
    PROVE  CInv'
<1> DEFINE p == workers[w]
           new == [p EXCEPT !.pc = "next", !.outcome = "", !.batch = @ \ {HeadClaim(w)}]
<1>1. AckAccepted(w) /\ p.pc = "ack" /\ UNCHANGED <<inbox, surfaced, effects, crashes, stalled>>
  BY DEF SendAck, AckLost, AckAccepted
<1>2. /\ IInv' /\ UNCHANGED clock
      /\ \A k \in Key : deliveries'[<<k, Me>>].state = "acknowledged" => effects[k] > 0
  BY <1>1, AckAcceptedStep
<1>3. p \in Proc /\ (stalled \/ Timely(p, clock)) /\ losses \in Nat /\ crashes' \in Nat
  BY <1>1 DEF CInv, ConsumerTypes, OwnersInv
<1>4. CASE SendAck(w)
  <2>1. workers' = [workers EXCEPT ![w] = new] /\ UNCHANGED <<losses, dropped>>
    BY <1>4 DEF SendAck
  <2>2. new \in Proc /\ new.pc = "next" /\ new.now = p.now /\ new.fresh = p.fresh
    <3> HIDE DEF HeadClaim, p
    <3> QED BY <1>3 DEF Proc
  <2> HIDE DEF new
  <2>3. ProcOK(new, effects) /\ (stalled \/ Timely(new, clock))
    BY <1>1, <1>3, <2>2 DEF ProcOK, Timely
  <2> QED BY <1>1, <1>2, <1>3, <2>1, <2>2, <2>3, QuietStep DEF CInv, ConsumerTypes
<1>5. CASE AckLost(w)
  <2>1. Abort(w) /\ losses' \in Nat
    BY <1>3, <1>5 DEF AckLost
  <2> QED BY <1>1, <1>2, <1>3, <2>1, AbortStep
<1> QED BY <1>4, <1>5

\* The ack fails, or the process dies.
LEMMA FailureSteps ==
    ASSUME CInv, NEW w \in Worker, AckFailed(w) \/ Crash(w)
    PROVE  CInv'
<1>1. /\ Abort(w) /\ UNCHANGED <<vars, inbox, surfaced, effects, stalled>>
      /\ crashes' \in Nat /\ losses' \in Nat
  BY DEF AckFailed, Crash, CInv, ConsumerTypes
<1>2. IInv' /\ UNCHANGED <<clock, deliveries>>
  BY <1>1, HubKept DEF CInv, vars
<1> QED BY <1>1, <1>2, AbortStep, AckedKept

\* A poll prints what it has decrypted.
LEMMA ReturnStep ==
    ASSUME CInv, NEW w \in Worker, Return(w)
    PROVE  CInv'
<1>1. /\ surfaced' = surfaced \cup workers[w].fresh
      /\ workers' = [workers EXCEPT ![w] = Resting]
      /\ UNCHANGED <<vars, inbox, dropped, effects, crashes, losses, stalled>>
  BY DEF Return
<1>2. IInv' /\ UNCHANGED <<clock, deliveries>>
  BY <1>1, HubKept DEF CInv, vars
<1>3. /\ workers[w].fresh \subseteq Key /\ surfaced \subseteq Key /\ dropped \subseteq Key
      /\ crashes' \in Nat /\ losses' \in Nat
  BY <1>1 DEF CInv, ConsumerTypes, Proc
<1>4. /\ surfaced' \subseteq Key /\ dropped' \subseteq Key /\ surfaced \subseteq surfaced'
      /\ dropped \subseteq dropped'
      /\ workers[w].fresh \subseteq surfaced' \cup dropped' \cup Resting.fresh
  BY <1>1, <1>3
<1>5. Resting.pc # "work"
  BY RestingProc
<1> QED BY <1>1, <1>2, <1>3, <1>4, <1>5, RestingProc, QuietStep, AckedKept

-----------------------------------------------------------------------------
(* The other route, the clock and the whole system *)

\* A redundant endpoint processes only what nobody has begun.
LEMMA OtherRouteStep ==
    ASSUME CInv, NEW e \in Elsewhere, OtherRoute(e)
    PROVE  CInv'
<1> DEFINE k == KeyOf[e]
           row == [state |-> "processed", envelope |-> e, updated |-> clock]
<1>1. /\ inbox[k].state = "none" /\ inbox' = [inbox EXCEPT ![k] = row]
      /\ effects' = [effects EXCEPT ![k] = @ + 1]
      /\ surfaced' = surfaced \cup {k}
      /\ UNCHANGED <<vars, workers, dropped, crashes, losses, stalled>>
  BY DEF OtherRoute
<1>2. e \in Envelope /\ k \in Key /\ clock \in Nat
  BY EnvelopeAssumption, ConsumerAssumption DEF CInv, IInv, TypeOK
<1>3. row \in InboxRow /\ row.state = "processed"
  BY <1>2 DEF InboxRow
<1>4. IInv' /\ UNCHANGED <<clock, deliveries>>
  BY <1>1, HubKept DEF CInv, vars
<1> HIDE DEF row, k
<1>5. ConsumerTypes'
  BY <1>1, <1>2, <1>3 DEF CInv, ConsumerTypes
<1>6. /\ \A j \in Key : j # k => inbox'[j] = inbox[j] /\ effects'[j] = effects[j]
      /\ inbox'[k].state = "processed" /\ effects'[k] = effects[k] + 1
      /\ \A j \in Key : effects[j] \in Nat
  BY <1>1, <1>2, <1>3 DEF CInv, ConsumerTypes
<1>7. ProcsInv'
  <2>1. ASSUME NEW v \in Worker PROVE ProcOK(workers[v], effects')
    <3>1. workers[v] \in Proc /\ ProcOK(workers[v], effects)
      BY DEF CInv, ConsumerTypes, ProcsInv
    <3>2. workers[v].pc = "ack" => At(workers[v]) \in Key
      BY <3>1, FirstIsClaim DEF ProcOK
    <3>3. \A j \in Key : effects[j] > 0 => effects'[j] > 0
      BY <1>6
    <3> QED BY <3>1, <3>2, <3>3 DEF ProcOK
  <2> QED BY <1>1, <2>1 DEF ProcsInv
<1>8. EffectInv'
  <2>1. \A j \in Key : Handed(j) \/ j = k => Handed(j)'
    BY <1>1 DEF Handed
  <2>2. \A j \in Key : effects'[j] > 0 => effects[j] > 0 \/ j = k
    BY <1>6
  <2>3. \A j \in Key : j = k => effects'[j] > 0
    BY <1>6
  <2>4. ASSUME NEW j \in Key
        PROVE  /\ effects'[j] > 0 => Handed(j)'
               /\ inbox'[j].state = "processed" => effects'[j] > 0
               /\ deliveries'[<<j, Me>>].state = "acknowledged" => effects'[j] > 0
    BY <1>4, <1>6, <2>1, <2>2, <2>3 DEF CInv, EffectInv
  <2> QED BY <2>4 DEF EffectInv
<1>9. ASSUME ~stalled PROVE OwnersInv' /\ OnceInv'
  <2>1. OwnersInv /\ OnceInv
    BY <1>9 DEF CInv
  <2>2. effects[k] = 0
    BY <1>1, <1>2, <2>1 DEF OnceInv
  <2>3. OnceInv'
    BY <1>6, <2>1, <2>2 DEF OnceInv
  <2>4. ASSUME NEW v \in Worker PROVE Owns(workers[v], inbox')
    <3>1. CASE workers[v].pc = "work"
      <4>1. At(workers[v]) \in Key
        BY <3>1, FirstIsClaim DEF CInv, ConsumerTypes, ProcsInv, ProcOK
      <4>2. inbox[At(workers[v])] =
               [state |-> "processing", envelope |-> Env(workers[v]), updated |-> workers[v].now]
        BY <2>1, <3>1 DEF OwnersInv, Owns
      <4>3. At(workers[v]) # k
        BY <1>1, <4>2
      <4>4. inbox'[At(workers[v])] = inbox[At(workers[v])]
        BY <1>6, <4>1, <4>3
      <4> QED BY <2>1, <4>4 DEF OwnersInv, Owns
    <3> QED BY <3>1 DEF Owns
  <2>5. OwnersInv'
    BY <1>1, <1>4, <2>1, <2>4 DEF OwnersInv
  <2> QED BY <2>3, <2>5
<1> QED BY <1>1, <1>4, <1>5, <1>7, <1>8, <1>9 DEF CInv

\* Time passes: the moment a busy poll outlasts the processing timeout is
\* recorded as a stall.
LEMMA TimePassesStep ==
    ASSUME CInv, TimePasses
    PROVE  CInv'
<1>1. /\ UNCHANGED <<highWater, messages, deliveries, nextSeq, ackEvents, cursors>>
      /\ UNCHANGED <<inbox, workers, surfaced, dropped, effects, crashes, losses>>
      /\ clock' = clock + 1 /\ clock \in Nat /\ clock' \in Nat
  BY DEF TimePasses, Tick, CInv, IInv, TypeOK
<1>2. stalled' = (stalled \/ \E w \in Worker : Late(workers[w]))
  BY DEF TimePasses
<1>3. stalled \in BOOLEAN /\ stalled' \in BOOLEAN /\ (stalled => stalled')
  BY <1>2 DEF CInv, ConsumerTypes
<1>4. IInv'
  BY <1>1 DEF CInv, IInv, TypeOK, RowsInv, LedgerInv, CursorOnTerminal
<1>5. ConsumerTypes' /\ ProcsInv'
  BY <1>1, <1>3 DEF CInv, ConsumerTypes, ProcsInv
<1>6. \A k \in Key : Handed(k)' <=> Handed(k)
  BY <1>1 DEF Handed
<1>7. EffectInv'
  BY <1>1, <1>6 DEF CInv, EffectInv
<1>8. ASSUME ~stalled' PROVE OwnersInv' /\ OnceInv'
  <2>1. ~stalled /\ OwnersInv /\ OnceInv
    BY <1>3, <1>8 DEF CInv
  <2>2. ASSUME NEW w \in Worker PROVE Timely(workers[w], clock')
    <3>1. Timely(workers[w], clock) /\ ~Late(workers[w]) /\ workers[w].now \in Nat
      BY <1>2, <1>8, <2>1 DEF OwnersInv, CInv, ConsumerTypes, Proc
    <3> QED BY <1>1, <3>1, PollingAssumption DEF Timely, Late
  <2> QED BY <1>1, <2>1, <2>2 DEF OwnersInv, OnceInv
<1> QED BY <1>4, <1>5, <1>7, <1>8 DEF CInv

\* Nobody polls and nothing has happened.
LEMMA InitCInv == ConsumerInit => CInv
<1> SUFFICES ASSUME ConsumerInit PROVE CInv
  OBVIOUS
<1>1. IInv
  BY InitIInv DEF ConsumerInit
<1>2. NoInboxRow \in InboxRow
  BY DEF NoInboxRow, InboxRow
<1>3. ConsumerTypes /\ ProcsInv
  BY <1>2, RestingProc DEF ConsumerInit, ConsumerTypes, ProcsInv
<1>4. /\ \A k \in Key : inbox[k].state = "none" /\ effects[k] = 0
      /\ \A w \in Worker : workers[w] = Resting
  BY DEF ConsumerInit, NoInboxRow
<1>5. \A k \in Key : deliveries[<<k, Me>>].state = "none"
  BY PollingAssumption DEF ConsumerInit, Init, DeliveryId, NoRow
<1>6. EffectInv /\ OnceInv
  BY <1>4, <1>5 DEF EffectInv, OnceInv
<1>7. OwnersInv
  BY <1>4, RestingProc DEF OwnersInv, Owns, Apart
<1> QED BY <1>1, <1>3, <1>6, <1>7 DEF CInv

\* Every step keeps the invariant.
LEMMA NextCInv == CInv /\ [ConsumerNext]_everything => CInv'
<1> SUFFICES ASSUME CInv, [ConsumerNext]_everything PROVE CInv'
  OBVIOUS
<1>1. CASE TimePasses \/ Sender \/ \E e \in Elsewhere : OtherRoute(e)
  BY <1>1, TimePassesStep, SenderStep, OtherRouteStep
<1>2. ASSUME NEW w \in Worker, Poll(w) \/ PollLost(w) \/ Begin(w) PROVE CInv'
  BY <1>2, PollStep, PollLostStep, BeginStep
<1>3. ASSUME NEW w \in Worker, NEW outcome \in {"processed", "terminal_failed"}, Finish(w, outcome)
      PROVE  CInv'
  BY <1>3, FinishStep
<1>4. ASSUME NEW w \in Worker, SendAck(w) \/ AckLost(w) \/ AckFailed(w) \/ Return(w) \/ Crash(w)
      PROVE  CInv'
  BY <1>4, AckedSteps, FailureSteps, ReturnStep
<1>5. CASE UNCHANGED everything
  <2>1. UNCHANGED <<vars, clock, inbox, stalled, workers, surfaced, dropped, effects, crashes, losses>>
    BY <1>5 DEF everything, consumerVars, vars
  <2>2. IInv' /\ losses' \in Nat /\ UNCHANGED deliveries
    BY <2>1, HubKept DEF CInv, ConsumerTypes, vars
  <2> QED BY <2>1, <2>2, HubStep, AckedKept
<1> QED BY <1>1, <1>2, <1>3, <1>4, <1>5 DEF ConsumerNext

-----------------------------------------------------------------------------
(* The theorems *)

\* The inductive invariant holds in every reachable state of the pollers, the
\* inbox and the hub, whatever polls overlap, die or stall and whatever
\* exchange is lost.
THEOREM ConsumerInvariance == ConsumerSpec => []CInv
<1> QED BY InitCInv, NextCInv, PTL DEF ConsumerSpec

\* Until a poll outlasts the processing timeout, claim_and_process gives every
\* (sender_id, message_id) at most one local effect, over any redelivery,
\* loss, crash, late ack or second route.
THEOREM EffectAtMostOnce == ConsumerSpec => []OneEffectPerKey
<1>1. CInv => OneEffectPerKey
  BY DEF CInv, OnceInv, OneEffectPerKey
<1> QED BY <1>1, ConsumerInvariance, PTL

\* The hub holds nothing as acknowledged that the recipient has not durably
\* processed, and the payload was surfaced, is in the hands of a running poll
\* or was dropped by one that failed; also after stalls.
THEOREM AcknowledgedHadEffect == ConsumerSpec => []AckAfterEffect
<1>1. CInv => AckAfterEffect
  BY DEF CInv, EffectInv, Handed, AckAfterEffect
<1> QED BY <1>1, ConsumerInvariance, PTL

\* Until a poll outlasts the processing timeout, no late failure and no other
\* poll overwrites a processed inbox row.
THEOREM ProcessedStays == ConsumerSpec => ProcessedIsFinal
<1> DEFINE Kept == \A k \in Key : ~stalled /\ inbox[k].state = "processed" =>
                                     inbox'[k].state = "processed"
<1>1. CInv /\ [ConsumerNext]_everything => [Kept]_everything
  <2> SUFFICES ASSUME CInv, ConsumerNext, NEW k \in Key, ~stalled, inbox[k].state = "processed"
               PROVE  inbox'[k].state = "processed"
    OBVIOUS
  <2>1. inbox \in [Key -> InboxRow]
    BY DEF CInv, ConsumerTypes
  <2>2. CASE UNCHANGED inbox
    BY <2>2
  <2>3. ASSUME NEW e \in Elsewhere, OtherRoute(e) PROVE inbox'[k].state = "processed"
    BY <2>1, <2>3 DEF OtherRoute
  <2>4. ASSUME NEW w \in Worker, Begin(w) PROVE inbox'[k].state = "processed"
    <3> DEFINE c == HeadClaim(w)
    <3>1. inbox' = [inbox EXCEPT ![c.key] =
             IF BeginAnswer(@, c.envelope, workers[w].now) = "new"
             THEN [state |-> "processing", envelope |-> c.envelope, updated |-> workers[w].now]
             ELSE @]
      BY <2>4 DEF Begin, InboxBegin
    <3> HIDE DEF c
    <3>2. BeginAnswer(inbox[k], c.envelope, workers[w].now) # "new"
      <4>1. CASE inbox[k].envelope # c.envelope
        BY <4>1 DEF BeginAnswer
      <4>2. CASE inbox[k].envelope = c.envelope
        BY <4>2 DEF BeginAnswer, Stale
      <4> QED BY <4>1, <4>2
    <3> QED BY <2>1, <3>1, <3>2
  <2>5. ASSUME NEW w \in Worker, NEW outcome, Finish(w, outcome) PROVE inbox'[k].state = "processed"
    <3>1. workers[w].pc = "work" /\ Owns(workers[w], inbox)
      BY <2>5 DEF Finish, CInv, OwnersInv
    <3>2. inbox[At(workers[w])].state = "processing"
      BY <3>1 DEF Owns
    <3>3. k # At(workers[w])
      BY <3>2
    <3>4. \E row : inbox' = [inbox EXCEPT ![At(workers[w])] = row]
      BY <2>5 DEF Finish, InboxFinish, At, HeadClaim
    <3> QED BY <2>1, <3>3, <3>4
  <2>6. \/ UNCHANGED inbox
        \/ \E e \in Elsewhere : OtherRoute(e)
        \/ \E w \in Worker : Begin(w)
        \/ \E w \in Worker, outcome \in {"processed", "terminal_failed"} : Finish(w, outcome)
    BY DEF ConsumerNext, TimePasses, Sender, consumerVars, Poll, PollLost, SendAck, AckLost,
           AckAccepted, AckFailed, Return, Crash
  <2> QED BY <2>2, <2>3, <2>4, <2>5, <2>6
<1> QED BY <1>1, ConsumerInvariance, PTL DEF ConsumerSpec, ProcessedIsFinal
=============================================================================
