---------------------------- MODULE ServiceProofs ---------------------------
(***************************************************************************)
(* Machine-checked proofs about Service: replay protection, trusted time   *)
(* and retention, for every number of worker threads and requests.         *)
(***************************************************************************)
EXTENDS Service, BrokerProofs

-----------------------------------------------------------------------------
(* The inductive invariant *)

Body == [op : {"messages"}, envelope : Envelope]
           \cup [op : {"claims"}, recipient : Agent, limit : ClaimLimits, lease : LeaseTimes]
           \cup [op : {"acks"}, ack : Ack]

Signed == [body : Body, issued : Nat, expires : Nat]

\* A request is signed once and then only carried.
ServiceTypeOK ==
    /\ wire \in [Request -> Signed \cup {NoRequest}]
    /\ threads \in [Thread -> [pc : {"idle", "observed", "recorded"},
                               request : Request \cup {NoRequest}, now : Nat]]
    /\ \A th \in Thread : threads[th].pc # "idle" =>
          /\ threads[th].request \in Request
          /\ wire[threads[th].request] # NoRequest
    /\ replays \subseteq Request
    /\ served \in [Request -> Nat]
    /\ admissions \in [Key -> Nat]
    /\ backs \in Nat

\* A request that can no longer be recorded: its id is in the table, or the
\* durable clock has passed its expiry.
Spent(q) ==
    /\ wire[q] # NoRequest
    /\ q \in replays \/ wire[q].expires <= highWater

\* One thread at most is between recording a request and serving it, and
\* nobody is once it was served.
ReplayInv ==
    /\ \A q \in Request : served[q] <= 1 /\ (served[q] = 1 => Spent(q))
    /\ \A th \in Thread : threads[th].pc # "idle" => threads[th].now <= highWater
    /\ \A th \in Thread : threads[th].pc = "recorded" =>
          Spent(threads[th].request) /\ served[threads[th].request] = 0
    /\ \A th1, th2 \in Thread :
          /\ threads[th1].pc = "recorded" /\ threads[th2].pc = "recorded"
          /\ threads[th1].request = threads[th2].request
          => th1 = th2

\* A signed ack names a number that was handed out before.
AckInv ==
    \A q \in Request :
        wire[q] # NoRequest /\ wire[q].body.op = "acks" =>
            wire[q].body.ack.lease[1] > 0 /\ wire[q].body.ack.lease[1] < nextSeq

\* While the clock is never set back, a running handler lags it by at most
\* MaxLag.
LagInv ==
    /\ highWater <= clock
    /\ \A th \in Thread : threads[th].pc # "idle" =>
          threads[th].now <= clock /\ clock <= threads[th].now + MaxLag

\* No time in a row is before s.
RowSince(row, s) ==
    /\ row.updated >= s
    /\ row.state = "queued" => row.available >= s
    /\ row.state = "claimed" => row.leaseUntil >= s

\* The deliveries of e: there is one, and nothing happened to them before s.
RowsSince(tab, e, s) ==
    /\ \E r \in Agent : tab[<<KeyOf[e], r>>].state # "none"
    /\ \A r \in Agent : tab[<<KeyOf[e], r>>].state # "none" =>
          RowSince(tab[<<KeyOf[e], r>>], s)

\* A handler that carries an ack of one of these deliveries read the clock at
\* s or later: the ack was signed after the admission.
AcksSince(e, s) ==
    \A th \in Thread :
        LET body == wire[threads[th].request].body
        IN  /\ threads[th].pc # "idle" /\ body.op = "acks" /\ body.ack.key = KeyOf[e]
            /\ body.ack.lease[1] = deliveries[<<body.ack.key, body.ack.receiver>>].seq
            => threads[th].now >= s

\* An admission of e at time s, as long as e is stored.
StoredSince(e, s) ==
    messages[KeyOf[e]] = e /\ RowsSince(deliveries, e, s) /\ AcksSince(e, s)

\* The same after e was purged: a retention period has passed.
PurgedSince(e, s) ==
    /\ messages[KeyOf[e]] = NoMessage
    /\ \E retain \in RetainTimes : s + retain < clock

AdmissionInv ==
    \A k \in Key :
        /\ admissions[k] <= 1
        /\ messages[k] # NoMessage => admissions[k] = 1
        /\ admissions[k] = 1 =>
              \E e \in Envelope, s \in 0..clock :
                  KeyOf[e] = k /\ Admissible(e, s) /\ (StoredSince(e, s) \/ PurgedSince(e, s))

\* Without a clock that is set back.
SteadyInv == backs = 0 => LagInv /\ AdmissionInv

SInv == IInv /\ ServiceTypeOK /\ ReplayInv /\ AckInv

-----------------------------------------------------------------------------
(* Replay protection *)

\* Whatever a client may sign now is well formed, and an ack names a number
\* that was handed out.
LEMMA BodiesType ==
    ASSUME IInv
    PROVE  /\ Bodies \subseteq Body
           /\ \A body \in Bodies : body.op = "acks" =>
                 body.ack.lease[1] > 0 /\ body.ack.lease[1] < nextSeq
<1>1. GrantedAcks(clock) \subseteq Ack
  BY GrantedAcksType DEF IInv, TypeOK
<1>2. ASSUME NEW a \in GrantedAcks(clock)
      PROVE  a.lease[1] > 0 /\ a.lease[1] < nextSeq
  <2>1. a.key \in Key /\ a.receiver \in Agent /\ <<a.key, a.receiver>> \in DeliveryId
    BY <1>1, <1>2 DEF Ack, DeliveryId
  <2>2. a.lease[1] = deliveries[<<a.key, a.receiver>>].seq
    BY <1>2 DEF GrantedAcks
  <2>3. a.lease[1] > 0
    BY <1>2 DEF GrantedAcks, IInv, TypeOK
  <2> QED BY <2>1, <2>2, <2>3 DEF IInv, RowsInv
<1>3. Bodies \subseteq Body
  BY <1>1 DEF Bodies, Body
<1>4. ASSUME NEW body \in Bodies, body.op = "acks"
      PROVE  body.ack \in GrantedAcks(clock)
  BY <1>4 DEF Bodies
<1> QED BY <1>2, <1>3, <1>4

\* The broker call of a handler preserves the broker's invariant.  It never
\* moves the mark back and hands out numbers upwards.
LEMMA EffectStep ==
    ASSUME IInv, NEW body \in Body, NEW t \in Nat, Effect(body, t)
    PROVE  /\ IInv'
           /\ highWater' >= highWater
           /\ clock' = clock
           /\ nextSeq' >= nextSeq
<1>0. highWater \in Nat /\ nextSeq \in Nat
  BY DEF IInv, TypeOK
<1>1. CASE body.op = "messages" /\ Enqueue(body.envelope, t)
  <2>1. body.envelope \in Envelope
    BY <1>1 DEF Body
  <2>2. Len(To[body.envelope]) \in Nat
    BY <2>1, EnvelopeAssumption
  <2>3. nextSeq' >= nextSeq
    BY <1>0, <1>1, <2>2 DEF Enqueue, InsertMessage
  <2> QED BY <1>0, <1>1, <2>1, <2>3, EnqueueStep DEF Enqueue, ObserveTrustedTime
<1>2. CASE body.op = "claims" /\ Claim(body.recipient, body.limit, body.lease, t)
  <2>1. body.recipient \in Agent /\ body.lease \in Nat
    BY <1>2, PolicyAssumption DEF Body
  <2> QED BY <1>0, <1>2, <2>1, ClaimStep DEF Claim
<1>3. CASE body.op = "acks" /\ Acknowledge(body.ack, t)
  <2>1. body.ack \in Ack
    BY <1>3 DEF Body
  <2>2. UNCHANGED <<clock, highWater, nextSeq>>
    BY <1>3 DEF Acknowledge
  <2>3. IInv'
    BY <1>3, <2>1, AcknowledgeStep
  <2> QED BY <1>0, <2>2, <2>3
<1>4. CASE UNCHANGED vars
  BY <1>0, <1>4 DEF vars, IInv, TypeOK, RowsInv, LedgerInv, CursorOnTerminal
<1> QED BY <1>1, <1>2, <1>3, <1>4 DEF Effect

\* A step that leaves the tables alone keeps the broker's invariant.
LEMMA TablesKept ==
    ASSUME IInv, clock' \in Nat, highWater' \in Nat,
           UNCHANGED <<messages, deliveries, nextSeq, ackEvents, cursors>>
    PROVE  IInv'
BY DEF IInv, TypeOK, RowsInv, LedgerInv, CursorOnTerminal

\* Replay protection as far as it rests on the mark: it survives every step
\* that leaves requests, threads and replay rows alone.
LEMMA MarkForward ==
    ASSUME SInv, UNCHANGED serviceVars, IInv', highWater' >= highWater,
           nextSeq' >= nextSeq
    PROVE  SInv'
<1>1. highWater \in Nat /\ highWater' \in Nat /\ nextSeq \in Nat /\ nextSeq' \in Nat
  BY DEF SInv, IInv, TypeOK
<1>2. ServiceTypeOK'
  BY DEF SInv, ServiceTypeOK, serviceVars
<1>3. \A q \in Request : Spent(q) => Spent(q)'
  <2> TAKE q \in Request
  <2>1. wire[q] # NoRequest => wire[q].expires \in Nat
    BY DEF SInv, ServiceTypeOK, Signed
  <2> QED BY <1>1, <2>1 DEF Spent, serviceVars
<1>4. ReplayInv'
  <2>1. \A th \in Thread : threads[th].now \in Nat
    BY DEF SInv, ServiceTypeOK
  <2> QED BY <1>1, <1>3, <2>1 DEF SInv, ReplayInv, ServiceTypeOK, serviceVars
<1>5. AckInv'
  <2>1. \A q \in Request : wire[q] # NoRequest /\ wire[q].body.op = "acks" =>
           wire[q].body.ack.lease[1] \in Nat
    BY DEF SInv, ServiceTypeOK, Signed, Body, Ack, Lease
  <2> QED BY <1>1, <2>1 DEF SInv, AckInv, serviceVars
<1> QED BY <1>2, <1>4, <1>5 DEF SInv

LEMMA InitSInv == ServiceInit => SInv
<1> SUFFICES ASSUME ServiceInit PROVE SInv
  OBVIOUS
<1>1. IInv
  BY InitIInv DEF ServiceInit
<1>2. ServiceTypeOK
  BY DEF ServiceInit, ServiceTypeOK, Idle
<1>3. ReplayInv
  BY DEF ServiceInit, ReplayInv, Idle
<1>4. AckInv
  BY DEF ServiceInit, AckInv
<1> QED BY <1>1, <1>2, <1>3, <1>4 DEF SInv

\* A request signed now was never seen before.
LEMMA SignStep ==
    ASSUME SInv, NEW q \in Request, NEW body \in Bodies, NEW at \in SignerTimes(clock),
           Sign(q, body, at)
    PROVE  SInv'
<1> DEFINE w == [body |-> body, issued |-> at, expires |-> at + AuthTtl]
<1>1. /\ wire[q] = NoRequest /\ wire' = [wire EXCEPT ![q] = w]
      /\ UNCHANGED <<vars, threads, replays, served, admissions, backs>>
  BY DEF Sign
<1>2. w \in Signed
  <2>1. at \in Nat /\ at + AuthTtl \in Nat
    BY PolicyAssumption, ServiceAssumption DEF SignerTimes
  <2>2. body \in Body
    BY BodiesType DEF SInv
  <2> QED BY <2>1, <2>2 DEF Signed
<1>3. body.op = "acks" => body.ack.lease[1] > 0 /\ body.ack.lease[1] < nextSeq
  BY BodiesType DEF SInv
<1>4. w.body = body
  OBVIOUS
<1> HIDE DEF w
<1>5. IInv'
  BY <1>1, TablesKept DEF vars, SInv, IInv, TypeOK
<1>6. ServiceTypeOK'
  BY <1>1, <1>2 DEF SInv, ServiceTypeOK
<1>7. \A p \in Request : /\ p # q => wire'[p] = wire[p] /\ (Spent(p) => Spent(p)')
                         /\ p = q => ~Spent(p) /\ wire'[p] = w
  BY <1>1 DEF SInv, ServiceTypeOK, Spent, vars
<1>8. ReplayInv'
  <2>1. \A th \in Thread : threads[th].pc = "recorded" => threads[th].request \in Request
    BY DEF SInv, ServiceTypeOK
  <2> QED BY <1>1, <1>7, <2>1 DEF SInv, ReplayInv, vars
<1>9. AckInv'
  BY <1>1, <1>3, <1>4, <1>7 DEF SInv, AckInv, vars
<1> QED BY <1>5, <1>6, <1>8, <1>9 DEF SInv

\* A worker that observes the time raises the mark to it.
LEMMA ObserveStep ==
    ASSUME SInv, NEW th \in Thread, NEW q \in Request, Observe(th, q)
    PROVE  SInv'
<1> DEFINE new == [pc |-> "observed", request |-> q, now |-> clock]
<1>1. /\ threads[th].pc = "idle" /\ wire[q] # NoRequest
      /\ clock >= highWater /\ highWater' = clock
      /\ threads' = [threads EXCEPT ![th] = new]
      /\ UNCHANGED <<clock, messages, deliveries, nextSeq, ackEvents, cursors,
                     wire, replays, served, admissions, backs>>
  BY DEF Observe, ObserveTrustedTime
<1>2. clock \in Nat /\ highWater \in Nat
  BY DEF SInv, IInv, TypeOK
<1>3. /\ new \in [pc : {"idle", "observed", "recorded"},
                   request : Request \cup {NoRequest}, now : Nat]
      /\ new.pc = "observed" /\ new.request = q /\ new.now = clock
  BY <1>2
<1> HIDE DEF new
<1>4. IInv'
  BY <1>1, <1>2, TablesKept DEF SInv
<1>5. ServiceTypeOK'
  BY <1>1, <1>3 DEF SInv, ServiceTypeOK
<1>6. \A p \in Request : Spent(p) => Spent(p)'
  <2> TAKE p \in Request
  <2>1. wire[p] # NoRequest => wire[p].expires \in Nat
    BY DEF SInv, ServiceTypeOK, Signed
  <2> QED BY <1>1, <1>2, <2>1 DEF Spent
<1>7. ReplayInv'
  <2>1. \A u \in Thread : IF u = th THEN threads'[u] = new
                           ELSE threads'[u] = threads[u] /\ threads[u].now \in Nat
    BY <1>1 DEF SInv, ServiceTypeOK
  <2>2. \A u \in Thread : threads[u].pc = "recorded" => threads[u].request \in Request
    BY DEF SInv, ServiceTypeOK
  <2> QED BY <1>1, <1>2, <1>3, <1>6, <2>1, <2>2 DEF SInv, ReplayInv
<1>8. AckInv'
  BY <1>1 DEF SInv, AckInv
<1> QED BY <1>4, <1>5, <1>7, <1>8 DEF SInv

\* A request is recorded by one thread and only if it was never served: the
\* mark equals the thread's time, so a spent request is expired or in the table.
LEMMA RecordStep ==
    ASSUME SInv, NEW th \in Thread, Record(th)
    PROVE  SInv'
<1> DEFINE q == threads[th].request
           t == threads[th].now
<1>1. /\ threads[th].pc = "observed" /\ wire[q].expires > t
      /\ t >= highWater /\ highWater' = t
      /\ q \notin LiveReplays(t) /\ replays' = LiveReplays(t) \cup {q}
      /\ threads' = [threads EXCEPT ![th].pc = "recorded"]
      /\ UNCHANGED <<clock, messages, deliveries, nextSeq, ackEvents, cursors,
                     wire, served, admissions, backs>>
  BY DEF Record, ObserveTrustedTime, AuthValid
<1>2. /\ t \in Nat /\ highWater \in Nat /\ clock \in Nat
      /\ q \in Request /\ wire[q] # NoRequest /\ wire[q].expires \in Nat
  BY <1>1 DEF SInv, ServiceTypeOK, IInv, TypeOK, Signed
<1>3. t = highWater
  BY <1>1, <1>2 DEF SInv, ReplayInv
<1>4. /\ threads'[th].pc = "recorded" /\ threads'[th].request = q /\ threads'[th].now = t
      /\ \A u \in Thread : u # th => threads'[u] = threads[u]
  BY <1>1 DEF SInv, ServiceTypeOK
<1>5. ~Spent(q)
  BY <1>1, <1>2, <1>3 DEF Spent, LiveReplays
<1>6. \A p \in Request : Spent(p) => Spent(p)'
  <2> TAKE p \in Request
  <2>1. wire[p] # NoRequest => wire[p].expires \in Nat
    BY DEF SInv, ServiceTypeOK, Signed
  <2> QED BY <1>1, <1>2, <1>3, <2>1 DEF Spent, LiveReplays
<1>7. Spent(q)'
  BY <1>1, <1>2 DEF Spent
<1>8. IInv'
  BY <1>1, <1>2, TablesKept DEF SInv
<1>9. ServiceTypeOK'
  BY <1>1, <1>2 DEF SInv, ServiceTypeOK, LiveReplays
<1> HIDE DEF q, t
<1>10. ReplayInv'
  <2>0. served[q] \in Nat
    BY <1>2 DEF SInv, ServiceTypeOK
  <2>1. served[q] = 0
    BY <1>2, <1>5, <2>0 DEF SInv, ReplayInv
  <2>2. \A u \in Thread : threads[u].pc = "recorded" => threads[u].request # q
    BY <1>2, <1>5 DEF SInv, ReplayInv
  <2>3. \A u \in Thread : threads[u].pc = "recorded" => threads[u].request \in Request
    BY DEF SInv, ServiceTypeOK
  <2> QED BY <1>1, <1>2, <1>3, <1>4, <1>6, <1>7, <2>1, <2>2, <2>3 DEF SInv, ReplayInv, q, t
<1>11. AckInv'
  BY <1>1 DEF SInv, AckInv
<1> QED BY <1>8, <1>9, <1>10, <1>11 DEF SInv

\* Serving a request leaves nobody else who could serve it.
LEMMA PerformStep ==
    ASSUME SInv, NEW th \in Thread, Perform(th)
    PROVE  SInv'
<1> DEFINE q == threads[th].request
<1>1. /\ threads[th].pc = "recorded" /\ Effect(wire[q].body, threads[th].now)
      /\ served' = [served EXCEPT ![q] = @ + 1]
      /\ admissions' = [k \in Key |-> IF messages[k] = NoMessage /\ messages'[k] # NoMessage
                                      THEN admissions[k] + 1 ELSE admissions[k]]
      /\ threads' = [threads EXCEPT ![th] = Idle]
      /\ UNCHANGED <<wire, replays, backs>>
  BY DEF Perform
<1>2. /\ q \in Request /\ wire[q] # NoRequest /\ wire[q] \in Signed
      /\ wire[q].body \in Body /\ threads[th].now \in Nat
  BY <1>1 DEF SInv, ServiceTypeOK, Signed
<1>3. IInv' /\ highWater' >= highWater /\ nextSeq' >= nextSeq
  BY <1>1, <1>2, EffectStep DEF SInv
<1>4. highWater \in Nat /\ highWater' \in Nat /\ nextSeq \in Nat /\ nextSeq' \in Nat
  BY <1>3 DEF SInv, IInv, TypeOK
<1>5. /\ Idle \in [pc : {"idle", "observed", "recorded"},
                    request : Request \cup {NoRequest}, now : Nat]
      /\ Idle.pc = "idle"
  BY DEF Idle
<1>6. ServiceTypeOK'
  <2>1. served' \in [Request -> Nat] /\ admissions' \in [Key -> Nat]
    BY <1>1, <1>2 DEF SInv, ServiceTypeOK
  <2> QED BY <1>1, <1>5, <2>1 DEF SInv, ServiceTypeOK
<1>7. /\ threads'[th].pc = "idle"
      /\ \A u \in Thread : u # th => threads'[u] = threads[u]
  BY <1>1, <1>5 DEF SInv, ServiceTypeOK
<1>8. \A p \in Request : Spent(p) => Spent(p)'
  <2> TAKE p \in Request
  <2>1. wire[p] # NoRequest => wire[p].expires \in Nat
    BY DEF SInv, ServiceTypeOK, Signed
  <2> QED BY <1>1, <1>3, <1>4, <2>1 DEF Spent
<1>9. ReplayInv'
  <2>1. Spent(q) /\ served[q] = 0
    BY <1>1 DEF SInv, ReplayInv
  <2>2. \A p \in Request : served'[p] = IF p = q THEN 1 ELSE served[p]
    BY <1>1, <1>2, <2>1 DEF SInv, ServiceTypeOK
  <2>3. \A u \in Thread : /\ threads[u].now \in Nat
                          /\ threads[u].pc = "recorded" => threads[u].request \in Request
    BY DEF SInv, ServiceTypeOK
  <2>4. \A u \in Thread : u # th /\ threads[u].pc = "recorded" => threads[u].request # q
    BY <1>1 DEF SInv, ReplayInv
  <2> HIDE DEF q
  <2>5. \A p \in Request : served'[p] <= 1 /\ (served'[p] = 1 => Spent(p)')
    BY <1>8, <2>1, <2>2 DEF SInv, ReplayInv
  <2>6. \A u \in Thread : threads'[u].pc # "idle" => threads'[u].now <= highWater'
    <3>1. \A u \in Thread : threads[u].pc # "idle" => threads[u].now <= highWater
      BY DEF SInv, ReplayInv
    <3>2. \A u \in Thread : threads'[u].pc # "idle" => threads'[u] = threads[u]
      BY <1>7
    <3> QED BY <1>3, <1>4, <2>3, <3>1, <3>2
  <2>7. \A u \in Thread : threads'[u].pc = "recorded" =>
           /\ threads[u].pc = "recorded" /\ threads'[u] = threads[u]
           /\ u # th /\ served'[threads[u].request] = 0
    <3>1. \A u \in Thread : threads[u].pc = "recorded" => served[threads[u].request] = 0
      BY DEF SInv, ReplayInv
    <3>2. \A u \in Thread : threads'[u].pc = "recorded" => u # th /\ threads'[u] = threads[u]
      BY <1>7
    <3> QED BY <2>2, <2>3, <2>4, <3>1, <3>2
  <2>8. \A u \in Thread : threads'[u].pc = "recorded" => Spent(threads[u].request)'
    <3> SUFFICES ASSUME NEW u \in Thread, threads'[u].pc = "recorded"
                 PROVE  Spent(threads[u].request)'
      OBVIOUS
    <3>1. PICK p \in Request : p = threads[u].request /\ p = threads'[u].request
      BY <2>3, <2>7
    <3>2. Spent(p)
      BY <2>7, <3>1 DEF SInv, ReplayInv
    <3>3. Spent(p)'
      BY <1>8, <3>2
    <3> QED BY <3>1, <3>3 DEF Spent
  <2> QED BY <2>5, <2>6, <2>7, <2>8 DEF SInv, ReplayInv
<1>10. AckInv'
  <2>1. \A p \in Request : wire[p] # NoRequest /\ wire[p].body.op = "acks" =>
           wire[p].body.ack.lease[1] \in Nat
    BY DEF SInv, ServiceTypeOK, Signed, Body, Ack, Lease
  <2> QED BY <1>1, <1>3, <1>4, <2>1 DEF SInv, AckInv
<1> QED BY <1>3, <1>6, <1>9, <1>10 DEF SInv

\* A handler that ends early frees its thread and nothing else.
LEMMA DropStep ==
    ASSUME SInv, NEW th \in Thread, Drop(th)
    PROVE  SInv'
<1>1. /\ threads' = [threads EXCEPT ![th] = Idle]
      /\ UNCHANGED <<vars, wire, replays, served, admissions, backs>>
  BY DEF Drop
<1>2. /\ Idle \in [pc : {"idle", "observed", "recorded"},
                    request : Request \cup {NoRequest}, now : Nat]
      /\ Idle.pc = "idle"
  BY DEF Idle
<1>3. IInv'
  BY <1>1, TablesKept DEF vars, SInv, IInv, TypeOK
<1>4. ServiceTypeOK'
  BY <1>1, <1>2 DEF SInv, ServiceTypeOK
<1>5. /\ threads'[th].pc = "idle"
      /\ \A u \in Thread : u # th => threads'[u] = threads[u]
  BY <1>1, <1>2 DEF SInv, ServiceTypeOK
<1>6. \A p \in Request : Spent(p)' = Spent(p)
  BY <1>1 DEF Spent, vars
<1>7. ReplayInv'
  <2>1. \A u \in Thread : threads[u].pc = "recorded" => threads[u].request \in Request
    BY DEF SInv, ServiceTypeOK
  <2> QED BY <1>1, <1>5, <1>6, <2>1 DEF SInv, ReplayInv, vars
<1>8. AckInv'
  BY <1>1 DEF SInv, AckInv, vars
<1> QED BY <1>3, <1>4, <1>7, <1>8 DEF SInv

\* The host and the operator touch neither requests nor threads.
LEMMA HostStep ==
    ASSUME SInv, Advance \/ SetBack \/ Maintain
    PROVE  SInv'
<1>0. clock \in Nat /\ highWater \in Nat /\ nextSeq \in Nat
  BY DEF SInv, IInv, TypeOK
<1>1. CASE Advance
  <2>1. /\ clock' = clock + 1 /\ UNCHANGED serviceVars
        /\ UNCHANGED <<highWater, messages, deliveries, nextSeq, ackEvents, cursors>>
    BY <1>1 DEF Advance, Tick
  <2>2. IInv'
    BY <1>0, <2>1, TablesKept DEF SInv
  <2> QED BY <1>0, <2>1, <2>2, MarkForward
<1>2. CASE SetBack
  <2>1. /\ clock' \in Nat /\ backs' = backs + 1
        /\ UNCHANGED <<highWater, messages, deliveries, nextSeq, ackEvents, cursors,
                       wire, threads, replays, served, admissions>>
    BY <1>0, <1>2 DEF SetBack
  <2>2. IInv'
    BY <1>0, <2>1, TablesKept DEF SInv
  <2>3. ServiceTypeOK'
    BY <2>1 DEF SInv, ServiceTypeOK
  <2>4. ReplayInv' /\ AckInv'
    BY <2>1 DEF SInv, ReplayInv, AckInv, Spent
  <2> QED BY <2>2, <2>3, <2>4 DEF SInv
<1>3. CASE Maintain
  <2>1. PICK retain \in RetainTimes : Maintenance(clock - retain, clock)
    BY <1>3 DEF Maintain, MaintenanceAny
  <2>2. IInv'
    BY <1>0, <2>1, MaintenanceStep DEF SInv
  <2>3. UNCHANGED <<highWater, nextSeq>> /\ UNCHANGED serviceVars
    BY <1>3, <2>1 DEF Maintenance, Maintain
  <2> QED BY <1>0, <2>2, <2>3, MarkForward
<1> QED BY <1>1, <1>2, <1>3

LEMMA NextSInv == SInv /\ [ServiceNext]_allVars => SInv'
<1> SUFFICES ASSUME SInv, [ServiceNext]_allVars PROVE SInv'
  OBVIOUS
<1>1. CASE UNCHANGED allVars
  <2>1. UNCHANGED vars /\ UNCHANGED serviceVars
    BY <1>1 DEF allVars
  <2>2. IInv' /\ highWater' >= highWater /\ nextSeq' >= nextSeq
    BY <2>1, TablesKept DEF vars, SInv, IInv, TypeOK
  <2> QED BY <2>1, <2>2, MarkForward
<1> QED BY <1>1, SignStep, ObserveStep, RecordStep, PerformStep, DropStep, HostStep
        DEF ServiceNext

\* The broker's invariant and the replay invariant hold under the service:
\* handlers that act on a time they read earlier, repeats, crashes and a clock
\* that is set back do not break what Broker promises its callers.
THEOREM ServiceInvariance == ServiceSpec => []SInv
BY InitSInv, NextSInv, PTL DEF ServiceSpec

\* A signed request takes effect at most once.
THEOREM RequestsEffectiveOnce == ServiceSpec => []EffectOnce
<1>1. SInv => EffectOnce
  BY DEF SInv, ReplayInv, EffectOnce
<1> QED BY <1>1, ServiceInvariance, PTL

\* What the broker promises holds when it is driven by the service.
THEOREM ServiceKeepsBroker ==
    ServiceSpec => [](AttemptCap /\ LeaseSpentOnce /\ AcknowledgedHasProof /\ CursorOnTerminal)
<1>1. SInv => AttemptCap /\ LeaseSpentOnce /\ AcknowledgedHasProof /\ CursorOnTerminal
  BY IInvImplies DEF SInv
<1> QED BY <1>1, ServiceInvariance, PTL

-----------------------------------------------------------------------------
(* Admission *)

\* Only a handler's enqueue admits a message, at the time it read.
LEMMA AdmittedBy ==
    ASSUME SInv, [ServiceNext]_allVars, NEW k \in Key,
           messages[k] = NoMessage, messages'[k] # NoMessage
    PROVE  \E th \in Thread, e \in Envelope :
              /\ Perform(th) /\ threads[th].pc = "recorded"
              /\ Enqueue(e, threads[th].now) /\ InsertMessage(e, threads[th].now)
              /\ KeyOf[e] = k /\ messages'[k] = e
<1>1. ASSUME NEW th \in Thread, Perform(th)
      PROVE  \E e \in Envelope :
                /\ threads[th].pc = "recorded"
                /\ Enqueue(e, threads[th].now) /\ InsertMessage(e, threads[th].now)
                /\ KeyOf[e] = k /\ messages'[k] = e
  <2> DEFINE body == wire[threads[th].request].body
             t == threads[th].now
  <2>1. threads[th].pc = "recorded" /\ Effect(body, t)
    BY <1>1 DEF Perform
  <2>2. body \in Body
    BY <2>1 DEF SInv, ServiceTypeOK, Signed
  <2> HIDE DEF body, t
  <2>3. body.op = "messages" /\ Enqueue(body.envelope, t)
    <3>1. CASE UNCHANGED messages
      BY <3>1
    <3>2. CASE body.op = "claims" /\ Claim(body.recipient, body.limit, body.lease, t)
      BY <3>2 DEF Claim
    <3>3. CASE body.op = "acks" /\ Acknowledge(body.ack, t)
      BY <3>3 DEF Acknowledge
    <3> QED BY <2>1, <3>1, <3>2, <3>3 DEF Effect, vars
  <2>4. body.envelope \in Envelope
    BY <2>2, <2>3 DEF Body
  <2>5. messages \in [Key -> Envelope \cup {NoMessage}]
    BY DEF SInv, IInv, TypeOK
  <2>6. InsertMessage(body.envelope, t)
    BY <2>3 DEF Enqueue
  <2>7. KeyOf[body.envelope] = k /\ messages'[k] = body.envelope
    BY <2>4, <2>5, <2>6, EnvelopeAssumption DEF InsertMessage
  <2> QED BY <2>1, <2>3, <2>4, <2>6, <2>7 DEF t
<1>2. CASE Maintain
  BY <1>2 DEF Maintain, MaintenanceAny, Maintenance
<1>3. CASE UNCHANGED messages
  BY <1>3
<1> QED BY <1>1, <1>2, <1>3 DEF ServiceNext, Sign, Observe, Record, Drop, Advance, Tick,
                                SetBack, allVars, vars

\* Once the hub has durably observed a key's not_after, the key admits nothing.
THEOREM CutKeysStayCut == ServiceSpec => CutKeyStaysCut
<1>1. SInv /\ [ServiceNext]_allVars =>
         \A k \in Key : messages[k] = NoMessage /\ messages'[k] # NoMessage =>
                           highWater < KeyNotAfter[messages'[k]]
  <2> SUFFICES ASSUME SInv, [ServiceNext]_allVars, NEW k \in Key,
                      messages[k] = NoMessage, messages'[k] # NoMessage
               PROVE  highWater < KeyNotAfter[messages'[k]]
    OBVIOUS
  <2>1. PICK th \in Thread, e \in Envelope :
           Enqueue(e, threads[th].now) /\ messages'[k] = e
    BY AdmittedBy
  <2>2. /\ threads[th].now \in Nat /\ highWater \in Nat /\ KeyNotAfter[e] \in Nat
    BY EnvelopeAssumption DEF SInv, ServiceTypeOK, IInv, TypeOK
  <2>3. threads[th].now >= highWater /\ threads[th].now < KeyNotAfter[e]
    BY <2>1 DEF Enqueue, ObserveTrustedTime, Admissible
  <2> QED BY <2>1, <2>2, <2>3
<1> QED BY <1>1, ServiceInvariance, PTL DEF ServiceSpec, CutKeyStaysCut

\* Retention outlasts admission: from one admission of a key on, no envelope
\* under it is acceptable later than a retention period, less the time a
\* handler may take.
RetentionCovers ==
    \A retain \in RetainTimes, e, f \in Envelope, s, t \in Nat :
        /\ KeyOf[e] = KeyOf[f] /\ Admissible(e, s) /\ Admissible(f, t)
        => t + MaxLag <= s + retain

\* A retention period of MAX_TTL_MS, three clock skews and the time a handler
\* may take is enough, whatever envelopes a sender signs under one message_id
\* (the default of the operator's command is 30 days, MAX_TTL_MS is 48 hours).
LEMMA RetentionBound ==
    ASSUME \A retain \in RetainTimes : MaxTtl + 3 * MaxClockSkew + MaxLag <= retain + 1
    PROVE  RetentionCovers
<1> SUFFICES ASSUME NEW retain \in RetainTimes, NEW e \in Envelope, NEW f \in Envelope,
                    NEW s \in Nat, NEW t \in Nat,
                    KeyOf[e] = KeyOf[f], Admissible(e, s), Admissible(f, t)
             PROVE  t + MaxLag <= s + retain
  BY DEF RetentionCovers
<1> DEFINE stamp == KeyStamp[KeyOf[e]]
<1>1. /\ IssuedAt[e] \in Nat /\ IssuedAt[f] \in Nat /\ ExpiresAt[f] \in Nat /\ stamp \in Nat
      /\ MaxTtl \in Nat /\ MaxClockSkew \in Nat /\ MaxLag \in Nat /\ retain \in Nat
  BY EnvelopeAssumption, PolicyAssumption
<1>2. /\ IssuedAt[e] <= s + MaxClockSkew /\ stamp - IssuedAt[e] <= MaxClockSkew
      /\ IssuedAt[f] - stamp <= MaxClockSkew
      /\ ExpiresAt[f] - IssuedAt[f] <= MaxTtl /\ ExpiresAt[f] > t
  BY DEF Admissible, WellTimed
<1>3. MaxTtl + 3 * MaxClockSkew + MaxLag <= retain + 1
  OBVIOUS
<1> HIDE DEF stamp
<1> QED BY <1>1, <1>2, <1>3

-----------------------------------------------------------------------------
(* Nothing in the rows of a message is older than its admission *)

\* Expiry stamps a row with a time at which its lease or its message had run
\* out, which is not before the admission.
LEMMA LapseSince ==
    ASSUME NEW row \in Row, NEW e \in Envelope, NEW s \in Nat, NEW t \in Nat,
           RowSince(row, s), ExpiresAt[e] >= s
    PROVE  RowSince(LapseMessage(LapseLease(row, t), e, t), s)
<1> DEFINE mid == LapseLease(row, t)
           new == LapseMessage(mid, e, t)
<1>1. ExpiresAt[e] \in Nat
  BY EnvelopeAssumption
<1>2. mid \in Row /\ RowSince(mid, s)
  <2>1. CASE row.state = "claimed" /\ row.leaseUntil <= t
    <3> DEFINE st == IF row.attempts >= MaxAttempts THEN "dead_letter" ELSE "queued"
               err == IF row.attempts >= MaxAttempts
                      THEN "max_attempts_after_lease_expiry" ELSE "lease_expired"
    <3>1. mid = [row EXCEPT !.state = st, !.available = t, !.lease = NoLease,
                            !.leaseUntil = 0, !.error = err, !.updated = t]
      BY <2>1 DEF LapseLease
    <3>2. st \in State /\ err \in LastError /\ NoLease \in Lease /\ st # "claimed"
      BY Literals
    <3>3. t >= s
      BY <2>1 DEF RowSince, Row
    <3> t \in Int OBVIOUS
    <3> HIDE DEF mid, st, err
    <3>4. mid \in Row
      BY <3>1, <3>2 DEF Row
    <3>5. mid.updated = t /\ mid.available = t /\ mid.state = st
      BY <3>1 DEF Row
    <3> QED BY <3>2, <3>3, <3>4, <3>5 DEF RowSince
  <2>2. CASE ~(row.state = "claimed" /\ row.leaseUntil <= t)
    BY <2>2 DEF LapseLease
  <2> QED BY <2>1, <2>2
<1> SUFFICES RowSince(new, s)
  OBVIOUS
<1> HIDE DEF mid
<1>3. CASE mid.state \in Open /\ ExpiresAt[e] <= t
  <2>1. new = [mid EXCEPT !.state = "dead_letter", !.lease = NoLease, !.leaseUntil = 0,
                          !.error = "message_expired", !.updated = t]
    BY <1>3 DEF LapseMessage
  <2>2. new.updated = t /\ new.state = "dead_letter"
    BY <1>2, <2>1 DEF Row
  <2> QED BY <1>1, <1>3, <2>2 DEF RowSince
<1>4. CASE ~(mid.state \in Open /\ ExpiresAt[e] <= t)
  BY <1>2, <1>4 DEF LapseMessage
<1> QED BY <1>3, <1>4

\* A claim takes a row at a time when it is available.
LEMMA GrantSince ==
    ASSUME NEW row \in Row, NEW s \in Nat, NEW l \in Nat, NEW t \in Nat,
           RowSince(row, s), row.state = "queued", row.available <= t
    PROVE  RowSince(Grant(row, l, t), s)
<1>1. /\ Grant(row, l, t).state = "claimed" /\ Grant(row, l, t).updated = t
      /\ Grant(row, l, t).leaseUntil = t + l
  BY DEF Grant, Row
<1>2. t >= s
  BY DEF RowSince, Row
<1> QED BY <1>1, <1>2 DEF RowSince

\* Powers of two are natural numbers, as the size of a powerset.
LEMMA PowerNat == ASSUME NEW x \in Nat PROVE 2 ^ x \in Nat
<1>1. IsFiniteSet(1..x) /\ Cardinality(1..x) = x
  BY FS_Interval
<1>2. IsFiniteSet(SUBSET (1..x)) /\ Cardinality(SUBSET (1..x)) = 2 ^ x
  BY <1>1, FS_SUBSET
<1> QED BY <1>2, FS_CardinalityType

\* Retry delays are not negative.
LEMMA BackoffNat == ASSUME NEW n \in Nat PROVE Backoff(n) \in Nat
<1> DEFINE x == IF n = 0 THEN 0 ELSE n - 1
<1>1. x \in Nat
  OBVIOUS
<1> HIDE DEF x
<1>2. 2 ^ x \in Nat
  BY <1>1, PowerNat
<1> DEFINE y == 2 ^ x
<1>3. RetryBase * y \in Nat
  <2>1. y \in Nat
    BY <1>2
  <2> HIDE DEF y
  <2> QED BY <2>1, PolicyAssumption
<1> QED BY <1>3, PolicyAssumption DEF Backoff, x

\* An ack that arrives at s or later.
LEMMA SettleSince ==
    ASSUME NEW row \in Row, NEW outcome \in Outcome, NEW s \in Nat, NEW t \in Nat, t >= s
    PROVE  RowSince(Settle(row, outcome, t), s)
<1> DEFINE done == [row EXCEPT !.lease = NoLease, !.leaseUntil = 0,
                               !.available = t, !.updated = t]
           new == Settle(row, outcome, t)
<1> t \in Int OBVIOUS
<1>1. done \in Row
  BY Literals DEF Row
<1>2. done.updated = t
  BY DEF Row
<1>3. row.attempts \in Nat /\ MaxAttempts \in Nat
  BY PolicyAssumption DEF Row
<1>4. CASE outcome = "processed"
  <2>1. new = [done EXCEPT !.state = "acknowledged", !.error = ""]
    BY <1>4 DEF Settle
  <2> HIDE DEF done
  <2> QED BY <1>1, <1>2, <2>1 DEF RowSince, Row
<1>5. CASE outcome = "terminal_failed"
  <2>1. new = [done EXCEPT !.state = "dead_letter", !.error = "terminal_failed"]
    BY <1>5 DEF Settle
  <2> HIDE DEF done
  <2> QED BY <1>1, <1>2, <2>1 DEF RowSince, Row
<1>6. CASE outcome = "retryable_failed" /\ row.attempts >= MaxAttempts
  <2>1. new = [done EXCEPT !.state = "dead_letter", !.error = "max_attempts"]
    BY <1>3, <1>6 DEF Settle
  <2> HIDE DEF done
  <2> QED BY <1>1, <1>2, <2>1 DEF RowSince, Row
<1>7. CASE outcome = "retryable_failed" /\ ~(row.attempts >= MaxAttempts)
  <2> DEFINE at == t + Backoff(row.attempts)
  <2>1. new = [done EXCEPT !.state = "queued", !.error = "retryable_failed",
                           !.available = at]
    BY <1>3, <1>7 DEF Settle
  <2>2. at \in Int /\ at >= s
    BY <1>3, BackoffNat
  <2> HIDE DEF done, at
  <2>3. new.state = "queued" /\ new.available = at /\ new.updated = t
    BY <1>1, <1>2, <2>1 DEF Row
  <2> QED BY <2>2, <2>3 DEF RowSince
<1> QED BY <1>4, <1>5, <1>6, <1>7 DEF Outcome

\* Expiry of the table.
LEMMA ExpiredSince ==
    ASSUME IInv, NEW e \in Envelope, NEW s \in Nat, NEW t \in Nat,
           messages[KeyOf[e]] = e, Admissible(e, s), RowsSince(deliveries, e, s)
    PROVE  /\ RowsSince(Expired(t), e, s)
           /\ \A r \in Agent : /\ Expired(t)[<<KeyOf[e], r>>] \in Row
                               /\ Expired(t)[<<KeyOf[e], r>>].seq = deliveries[<<KeyOf[e], r>>].seq
<1> DEFINE k == KeyOf[e]
<1>1. k \in Key /\ ExpiresAt[e] \in Nat
  BY EnvelopeAssumption
<1>2. ExpiresAt[e] >= s
  BY <1>1 DEF Admissible
<1>3. ASSUME NEW r \in Agent
      PROVE  LET row == deliveries[<<k, r>>]
                 new == Expired(t)[<<k, r>>]
             IN  /\ new \in Row /\ new.seq = row.seq
                 /\ (new.state = "none") <=> (row.state = "none")
                 /\ row.state # "none" => RowSince(new, s)
  <2> DEFINE d == <<k, r>>
             row == deliveries[d]
             new == Expired(t)[d]
  <2>1. d \in DeliveryId /\ d[1] = k
    BY <1>1 DEF DeliveryId
  <2> HIDE DEF d
  <2>2. Lapsed(row, new, messages[d[1]], t)
    BY <2>1, LapsedTable
  <2>3. new = LapseMessage(LapseLease(row, t), e, t)
    BY <2>1 DEF Expired
  <2>4. row \in Row
    BY <2>1 DEF IInv, TypeOK
  <2>5. row.state # "none" => RowSince(row, s)
    BY DEF RowsSince, d
  <2> HIDE DEF row, new
  <2>6. row.state # "none" => RowSince(new, s)
    BY <1>2, <2>3, <2>4, <2>5, LapseSince
  <2>7. /\ new \in Row /\ new.seq = row.seq
        /\ (new.state = "none") <=> (row.state = "none")
        /\ row.state # "none" => RowSince(new, s)
    BY <2>2, <2>6 DEF Lapsed
  <2> QED BY <2>7 DEF row, new, d
<1> QED BY <1>3 DEF RowsSince

\* A claim of any recipient.
LEMMA ClaimSince ==
    ASSUME IInv, NEW e \in Envelope, NEW s \in Nat, NEW t \in Nat,
           messages[KeyOf[e]] = e, Admissible(e, s), RowsSince(deliveries, e, s),
           NEW q \in Agent, NEW n, NEW l \in Nat, Claim(q, n, l, t)
    PROVE  /\ RowsSince(deliveries', e, s)
           /\ \A r \in Agent : deliveries'[<<KeyOf[e], r>>].seq = deliveries[<<KeyOf[e], r>>].seq
<1> DEFINE k == KeyOf[e]
<1>1. k \in Key
  BY EnvelopeAssumption
<1>2. /\ RowsSince(Expired(t), e, s)
      /\ \A r \in Agent : /\ Expired(t)[<<k, r>>] \in Row
                          /\ Expired(t)[<<k, r>>].seq = deliveries[<<k, r>>].seq
  BY ExpiredSince
<1>3. \A d \in DeliveryId :
          \/ deliveries'[d] = Expired(t)[d]
          \/ /\ d[2] = q
             /\ d[1] \in FirstBySeq(Ready(Expired(t), q, t), Expired(t), q, n)
             /\ Expired(t)[d].state = "queued"
             /\ deliveries'[d] = Grant(Expired(t)[d], l, t)
             /\ deliveries'[d].state = "claimed"
             /\ deliveries'[d].seq = Expired(t)[d].seq
  BY ClaimRows
<1>4. ASSUME NEW r \in Agent
      PROVE  LET row == Expired(t)[<<k, r>>]
                 new == deliveries'[<<k, r>>]
             IN  /\ new.seq = row.seq
                 /\ (new.state = "none") <=> (row.state = "none")
                 /\ row.state # "none" => RowSince(new, s)
  <2> DEFINE d == <<k, r>>
             row == Expired(t)[d]
             new == deliveries'[d]
  <2>1. d \in DeliveryId /\ d[1] = k /\ d[2] = r
    BY <1>1 DEF DeliveryId
  <2>2. row \in Row /\ (row.state # "none" => RowSince(row, s))
    BY <1>2 DEF RowsSince
  <2>3. \/ new = row
        \/ /\ d[2] = q /\ d[1] \in FirstBySeq(Ready(Expired(t), q, t), Expired(t), q, n)
           /\ row.state = "queued" /\ new = Grant(row, l, t)
           /\ new.state = "claimed" /\ new.seq = row.seq
    <3> HIDE DEF d
    <3> QED BY <1>3, <2>1
  <2>4. d[2] = q /\ d[1] \in FirstBySeq(Ready(Expired(t), q, t), Expired(t), q, n) =>
           row.available <= t
    BY <2>1 DEF FirstBySeq, Ready
  <2> HIDE DEF d, row, new
  <2>5. new # row => RowSince(new, s)
    BY <2>2, <2>3, <2>4, GrantSince
  <2>6. /\ new.seq = row.seq
        /\ (new.state = "none") <=> (row.state = "none")
        /\ row.state # "none" => RowSince(new, s)
    BY <2>2, <2>3, <2>5
  <2> QED BY <2>6 DEF row, new, d
<1> QED BY <1>2, <1>4 DEF RowsSince

\* An ack that is accepted at s or later, or for another message.
LEMMA AckSince ==
    ASSUME IInv, NEW e \in Envelope, NEW s \in Nat, NEW t \in Nat,
           RowsSince(deliveries, e, s), NEW a \in Ack, Acknowledge(a, t),
           a.key = KeyOf[e] /\ a.lease[1] = deliveries[<<a.key, a.receiver>>].seq => t >= s
    PROVE  /\ RowsSince(deliveries', e, s)
           /\ \A r \in Agent : deliveries'[<<KeyOf[e], r>>].seq = deliveries[<<KeyOf[e], r>>].seq
<1> DEFINE k == KeyOf[e]
           c == <<a.key, a.receiver>>
           old == deliveries[c]
<1>1. k \in Key
  BY EnvelopeAssumption
<1>2. c \in DeliveryId /\ c[1] = a.key /\ a.outcome \in Outcome
  BY DEF Ack, DeliveryId
<1>3. old \in Row /\ RowOK(old) /\ old.state = "claimed" /\ old.lease = a.lease
  BY <1>2 DEF IInv, TypeOK, RowsInv, Acknowledge, HoldsLease
<1>4. a.lease[1] = old.seq
  BY <1>3 DEF RowOK
<1>5. /\ deliveries \in [DeliveryId -> Row]
      /\ deliveries' = [deliveries EXCEPT ![c] = Settle(old, a.outcome, t)]
  BY DEF Acknowledge, IInv, TypeOK
<1> DEFINE new == Settle(old, a.outcome, t)
<1>6. new.seq = old.seq /\ new.state # "none"
  <2> HIDE DEF old
  <2> QED BY <1>2, <1>3, SettleRow
<1>7. a.key = k => RowSince(new, s)
  <2>1. a.key = k => t >= s
    BY <1>4
  <2> HIDE DEF old, k
  <2> QED BY <1>2, <1>3, <2>1, SettleSince
<1>8. ASSUME NEW r \in Agent
      PROVE  /\ deliveries'[<<k, r>>].seq = deliveries[<<k, r>>].seq
             /\ deliveries'[<<k, r>>].state = "none" <=> deliveries[<<k, r>>].state = "none"
             /\ deliveries[<<k, r>>].state # "none" => RowSince(deliveries'[<<k, r>>], s)
  <2> DEFINE d == <<k, r>>
  <2>1. d \in DeliveryId /\ (d = c => a.key = k)
    BY <1>1 DEF DeliveryId
  <2>2. deliveries[d].state # "none" => RowSince(deliveries[d], s)
    BY DEF RowsSince
  <2> HIDE DEF d, new, c
  <2>3. deliveries'[d] = IF d = c THEN new ELSE deliveries[d]
    BY <1>2, <1>5, <2>1 DEF new
  <2>4. /\ deliveries'[d].seq = deliveries[d].seq
        /\ deliveries'[d].state = "none" <=> deliveries[d].state = "none"
        /\ deliveries[d].state # "none" => RowSince(deliveries'[d], s)
    BY <1>3, <1>6, <1>7, <2>1, <2>2, <2>3
  <2> QED BY <2>4 DEF d
<1> QED BY <1>8 DEF RowsSince

\* An enqueue of another message, or of a stored one again.
LEMMA EnqueueSince ==
    ASSUME IInv, NEW e \in Envelope, messages[KeyOf[e]] = e,
           NEW f \in Envelope, NEW t \in Nat, Enqueue(f, t)
    PROVE  /\ messages'[KeyOf[e]] = e
           /\ \A r \in Agent : deliveries'[<<KeyOf[e], r>>] = deliveries[<<KeyOf[e], r>>]
<1>1. KeyOf[e] \in Key /\ KeyOf[f] \in Key /\ e # NoMessage
  BY EnvelopeAssumption
<1>2. messages \in [Key -> Envelope \cup {NoMessage}]
  BY DEF IInv, TypeOK
<1>3. CASE UNCHANGED <<messages, deliveries, nextSeq>>
  BY <1>3
<1>4. CASE messages[KeyOf[f]] = NoMessage /\ InsertMessage(f, t)
  <2>1. KeyOf[e] # KeyOf[f]
    BY <1>1, <1>4
  <2>2. messages'[KeyOf[e]] = e
    BY <1>1, <1>2, <1>4, <2>1 DEF InsertMessage
  <2>3. ASSUME NEW r \in Agent
        PROVE  deliveries'[<<KeyOf[e], r>>] = deliveries[<<KeyOf[e], r>>]
    <3> DEFINE d == <<KeyOf[e], r>>
    <3>1. d \in DeliveryId /\ d[1] # KeyOf[f]
      BY <1>1, <2>1 DEF DeliveryId
    <3> HIDE DEF d
    <3>2. deliveries'[d] = deliveries[d]
      BY <1>4, <3>1 DEF InsertMessage
    <3> QED BY <3>2 DEF d
  <2> QED BY <2>2, <2>3
<1> QED BY <1>3, <1>4 DEF Enqueue

\* The rows of a new message start at its admission, under numbers that no
\* ack signed so far can name.
LEMMA AdmitSince ==
    ASSUME IInv, NEW e \in Envelope, NEW t \in Nat, messages[KeyOf[e]] = NoMessage,
           InsertMessage(e, t)
    PROVE  /\ RowsSince(deliveries', e, t)
           /\ \A r \in Agent : LET n == deliveries'[<<KeyOf[e], r>>].seq
                               IN  n = 0 \/ n >= nextSeq
<1> DEFINE k == KeyOf[e]
<1>1. k \in Key
  BY EnvelopeAssumption
<1>2. ASSUME NEW r \in Agent
      PROVE  LET new == deliveries'[<<k, r>>]
             IN  /\ r \in Recipients(e) => /\ new.state = "queued" /\ new.seq >= nextSeq
                                           /\ RowSince(new, t)
                 /\ r \notin Recipients(e) => new.state = "none" /\ new.seq = 0
  <2> DEFINE d == <<k, r>>
  <2>1. d \in DeliveryId /\ d[1] = k /\ d[2] = r
    BY <1>1 DEF DeliveryId
  <2>2. deliveries[d].state = "none" /\ deliveries[d].seq = 0
    <3> HIDE DEF d
    <3> QED BY <2>1 DEF IInv, RowsInv, RowOK
  <2>3. /\ NewRow(e, r, t).state = "queued" /\ NewRow(e, r, t).seq = NewSeq(e, r)
        /\ NewRow(e, r, t).available = t /\ NewRow(e, r, t).updated = t
    BY DEF NewRow, NoRow
  <2>4. r \in Recipients(e) => NewSeq(e, r) >= nextSeq
    BY FreshNumbers DEF IInv
  <2> HIDE DEF d
  <2>5. deliveries'[d] = IF r \in Recipients(e) THEN NewRow(e, r, t) ELSE deliveries[d]
    BY <2>1 DEF InsertMessage
  <2>6. /\ r \in Recipients(e) => /\ deliveries'[d].state = "queued"
                                  /\ deliveries'[d].seq >= nextSeq
                                  /\ RowSince(deliveries'[d], t)
        /\ r \notin Recipients(e) => deliveries'[d].state = "none" /\ deliveries'[d].seq = 0
    BY <2>2, <2>3, <2>4, <2>5 DEF RowSince
  <2> QED BY <2>6 DEF d
<1>3. PICK r \in Agent : r \in Recipients(e)
  <2>1. To[e] \in Seq(Agent) /\ To[e] # <<>>
    BY EnvelopeAssumption
  <2>2. 1 \in DOMAIN To[e] /\ To[e][1] \in Agent
    BY <2>1
  <2> QED BY <2>2 DEF Recipients
<1> QED BY <1>2, <1>3 DEF RowsSince

\* Maintenance keeps the message, or a retention period has passed since its
\* admission.
LEMMA MaintenanceSince ==
    ASSUME IInv, NEW e \in Envelope, NEW s \in Nat, NEW t \in Nat, NEW retain \in Nat,
           messages[KeyOf[e]] = e, Admissible(e, s), RowsSince(deliveries, e, s),
           Maintenance(t - retain, t)
    PROVE  \/ /\ messages'[KeyOf[e]] = e
              /\ RowsSince(deliveries', e, s)
              /\ \A r \in Agent :
                    deliveries'[<<KeyOf[e], r>>].seq = deliveries[<<KeyOf[e], r>>].seq
           \/ messages'[KeyOf[e]] = NoMessage /\ s + retain < t
<1> DEFINE k == KeyOf[e]
           rows == Expired(t)
           purged == {j \in Key : Purgeable(rows, j, t - retain)}
<1>1. k \in Key
  BY EnvelopeAssumption
<1>2. /\ RowsSince(rows, e, s)
      /\ \A r \in Agent : rows[<<k, r>>] \in Row /\ rows[<<k, r>>].seq = deliveries[<<k, r>>].seq
  BY ExpiredSince
<1>3. /\ messages' = [j \in Key |-> IF j \in purged THEN NoMessage ELSE messages[j]]
      /\ deliveries' = [d \in DeliveryId |-> IF d[1] \in purged THEN NoRow ELSE rows[d]]
  BY DEF Maintenance
<1>4. CASE k \in purged
  <2>1. PICK r \in Agent : rows[<<k, r>>].state # "none"
    BY <1>2 DEF RowsSince
  <2>2. rows[<<k, r>>].updated >= s /\ rows[<<k, r>>].updated \in Nat
    BY <1>2, <2>1 DEF RowsSince, RowSince, Row
  <2>3. rows[<<k, r>>].updated < t - retain
    BY <1>4, <2>1 DEF Purgeable
  <2>4. s + retain < t
    BY <2>2, <2>3
  <2> QED BY <1>1, <1>3, <1>4, <2>4
<1>5. CASE k \notin purged
  <2>1. messages'[k] = e
    BY <1>1, <1>3, <1>5
  <2>2. ASSUME NEW r \in Agent
        PROVE  deliveries'[<<k, r>>] = rows[<<k, r>>]
    <3>1. <<k, r>> \in DeliveryId
      BY <1>1 DEF DeliveryId
    <3> HIDE DEF rows, purged
    <3> QED BY <1>3, <1>5, <3>1
  <2> QED BY <1>2, <2>1, <2>2 DEF RowsSince
<1> QED BY <1>4, <1>5

-----------------------------------------------------------------------------
(* While the clock is not set back *)

\* A handler keeps its request and its time, or has just read the clock; a
\* request that is being handled stays as it was signed.
LEMMA HandlersKept ==
    ASSUME SInv, [ServiceNext]_allVars, NEW th \in Thread, threads'[th].pc # "idle"
    PROVE  \/ /\ threads[th].pc # "idle" /\ threads'[th].request = threads[th].request
              /\ threads'[th].now = threads[th].now
              /\ wire'[threads[th].request] = wire[threads[th].request]
           \/ threads'[th].now = clock /\ clock' = clock
<1>0. /\ threads \in [Thread -> [pc : {"idle", "observed", "recorded"},
                                 request : Request \cup {NoRequest}, now : Nat]]
      /\ threads[th].pc # "idle" => /\ threads[th].request \in Request
                                    /\ wire[threads[th].request] # NoRequest
      /\ wire \in [Request -> Signed \cup {NoRequest}]
      /\ Idle.pc = "idle"
  BY DEF SInv, ServiceTypeOK, Idle
<1>1. CASE UNCHANGED <<wire, threads>>
  BY <1>1
<1>2. ASSUME NEW q \in Request, NEW body \in Bodies, NEW at \in SignerTimes(clock),
             Sign(q, body, at)
      PROVE  threads' = threads /\ (threads[th].pc # "idle" =>
                wire'[threads[th].request] = wire[threads[th].request])
  BY <1>0, <1>2 DEF Sign
<1>3. ASSUME NEW u \in Thread, NEW q \in Request, Observe(u, q)
      PROVE  /\ wire' = wire /\ clock' = clock
             /\ u # th => threads'[th] = threads[th]
             /\ u = th => threads'[th].now = clock
  BY <1>0, <1>3 DEF Observe
<1>4. ASSUME NEW u \in Thread, Record(u)
      PROVE  /\ wire' = wire /\ threads'[th].request = threads[th].request
             /\ threads'[th].now = threads[th].now /\ threads[th].pc # "idle"
  BY <1>0, <1>4 DEF Record
<1>5. ASSUME NEW u \in Thread, Perform(u) \/ Drop(u)
      PROVE  wire' = wire /\ threads'[th] = threads[th]
  BY <1>0, <1>5 DEF Perform, Drop
<1>6. Advance \/ SetBack \/ Maintain \/ UNCHANGED allVars => UNCHANGED <<wire, threads>>
  BY DEF Advance, SetBack, Maintain, allVars, serviceVars
<1> QED BY <1>1, <1>2, <1>3, <1>4, <1>5, <1>6 DEF ServiceNext

\* Time goes forward and no handler falls behind.
LEMMA LagStep ==
    ASSUME SInv, LagInv, [ServiceNext]_allVars, backs' = 0
    PROVE  LagInv' /\ backs = 0 /\ clock' >= clock /\ clock' \in Nat
<1>0. /\ clock \in Nat /\ highWater \in Nat /\ backs \in Nat /\ MaxLag \in Nat
      /\ \A th \in Thread : threads[th].now \in Nat
      /\ \A th \in Thread : threads[th].pc # "idle" =>
            threads[th].now <= clock /\ clock <= threads[th].now + MaxLag
      /\ highWater <= clock
  BY PolicyAssumption DEF SInv, IInv, TypeOK, ServiceTypeOK, LagInv
<1>1. backs = 0 /\ ~SetBack
  <2>1. ~SetBack
    BY <1>0 DEF SetBack
  <2> QED BY <2>1 DEF ServiceNext, Sign, Observe, Record, Perform, Drop, Advance, Maintain,
                      allVars, serviceVars
<1>2. ASSUME NEW th \in Thread, Perform(th)
      PROVE  clock' = clock /\ highWater' <= clock
  <2> DEFINE body == wire[threads[th].request].body
             t == threads[th].now
  <2>1. Effect(body, t) /\ t \in Nat /\ t <= clock
    BY <1>0, <1>2 DEF Perform
  <2> HIDE DEF body, t
  <2>2. CASE Enqueue(body.envelope, t)
    BY <2>1, <2>2 DEF Enqueue, ObserveTrustedTime
  <2>3. CASE Claim(body.recipient, body.limit, body.lease, t)
    BY <1>0, <2>3 DEF Claim
  <2>4. CASE Acknowledge(body.ack, t)
    BY <1>0, <2>4 DEF Acknowledge
  <2>5. CASE UNCHANGED vars
    BY <1>0, <2>5 DEF vars
  <2> QED BY <2>1, <2>2, <2>3, <2>4, <2>5 DEF Effect
<1>3. ASSUME NEW th \in Thread, Record(th)
      PROVE  clock' = clock /\ highWater' <= clock
  BY <1>0, <1>3 DEF Record, ObserveTrustedTime
<1>4. CASE Advance
  <2>1. clock' = clock + 1 /\ UNCHANGED <<highWater, threads>>
    BY <1>4 DEF Advance, Tick, serviceVars
  <2>2. \A th \in Thread : threads[th].pc # "idle" => clock < threads[th].now + MaxLag
    BY <1>4 DEF Advance
  <2> QED BY <1>0, <1>1, <2>1, <2>2 DEF LagInv
<1>5. CASE ~Advance
  <2>1. clock' = clock /\ highWater' <= clock
    <3>1. CASE UNCHANGED <<clock, highWater>>
      BY <1>0, <3>1
    <3>2. ASSUME NEW th \in Thread, NEW q \in Request, Observe(th, q)
          PROVE  clock' = clock /\ highWater' <= clock
      BY <1>0, <3>2 DEF Observe, ObserveTrustedTime
    <3>3. Maintain => UNCHANGED <<clock, highWater>>
      BY DEF Maintain, MaintenanceAny, Maintenance
    <3> QED BY <1>1, <1>2, <1>3, <1>5, <3>1, <3>2, <3>3 DEF ServiceNext, Sign, Drop, allVars, vars
  <2>2. \A th \in Thread : threads'[th].pc # "idle" =>
           threads'[th].now <= clock /\ clock <= threads'[th].now + MaxLag
    BY <1>0, <2>1, HandlersKept
  <2> QED BY <1>0, <1>1, <2>1, <2>2 DEF LagInv
<1> QED BY <1>4, <1>5

\* The handlers' acks stay behind the admission.
LEMMA AcksKept ==
    ASSUME SInv, [ServiceNext]_allVars, NEW e \in Envelope, NEW s \in 0..clock,
           AcksSince(e, s),
           \A r \in Agent : deliveries'[<<KeyOf[e], r>>].seq = deliveries[<<KeyOf[e], r>>].seq
    PROVE  AcksSince(e, s)'
<1> SUFFICES ASSUME NEW th \in Thread, threads'[th].pc # "idle",
                    wire'[threads'[th].request].body.op = "acks",
                    wire'[threads'[th].request].body.ack.key = KeyOf[e],
                    wire'[threads'[th].request].body.ack.lease[1] =
                       deliveries'[<<wire'[threads'[th].request].body.ack.key,
                                     wire'[threads'[th].request].body.ack.receiver>>].seq
             PROVE  threads'[th].now >= s
  BY DEF AcksSince
<1>1. CASE threads'[th].now = clock /\ clock' = clock
  BY <1>1 DEF SInv, IInv, TypeOK
<1>2. CASE /\ threads[th].pc # "idle" /\ threads'[th].request = threads[th].request
           /\ threads'[th].now = threads[th].now
           /\ wire'[threads[th].request] = wire[threads[th].request]
  <2> DEFINE body == wire[threads[th].request].body
  <2>1. body \in Body
    BY <1>2 DEF SInv, ServiceTypeOK, Signed
  <2>2. /\ body.op = "acks" /\ body.ack.key = KeyOf[e]
        /\ body.ack.lease[1] = deliveries'[<<body.ack.key, body.ack.receiver>>].seq
    BY <1>2
  <2>3. body.ack.receiver \in Agent
    BY <2>1, <2>2 DEF Body, Ack
  <2>4. body.ack.lease[1] = deliveries[<<body.ack.key, body.ack.receiver>>].seq
    BY <2>2, <2>3
  <2> QED BY <1>2, <2>2, <2>4 DEF AcksSince
<1> QED BY <1>1, <1>2, HandlersKept

\* A stored message stays stored since its admission, or is purged after a
\* retention period.
LEMMA StoredStep ==
    ASSUME SInv, LagInv, [ServiceNext]_allVars, backs' = 0,
           NEW e \in Envelope, NEW s \in 0..clock, Admissible(e, s), StoredSince(e, s)
    PROVE  StoredSince(e, s)' \/ PurgedSince(e, s)'
<1> DEFINE k == KeyOf[e]
           Kept == /\ messages'[k] = e
                   /\ RowsSince(deliveries', e, s)
                   /\ \A r \in Agent : deliveries'[<<k, r>>].seq = deliveries[<<k, r>>].seq
<1>0. /\ clock \in Nat /\ s \in Nat /\ IInv
      /\ messages[k] = e /\ RowsSince(deliveries, e, s) /\ AcksSince(e, s)
  BY DEF SInv, IInv, TypeOK, StoredSince
<1>1. Kept => StoredSince(e, s)'
  <2>1. ASSUME Kept PROVE AcksSince(e, s)'
    BY <1>0, <2>1, AcksKept
  <2> QED BY <2>1 DEF StoredSince
<1>2. UNCHANGED <<messages, deliveries>> => Kept
  BY <1>0
<1>3. ASSUME NEW th \in Thread, Perform(th) PROVE Kept
  <2> DEFINE body == wire[threads[th].request].body
             t == threads[th].now
  <2>1. threads[th].pc = "recorded" /\ Effect(body, t)
    BY <1>3 DEF Perform
  <2>2. body \in Body /\ t \in Nat
    BY <2>1 DEF SInv, ServiceTypeOK, Signed
  <2>3. /\ body.op = "acks" /\ body.ack.key = k
        /\ body.ack.lease[1] = deliveries[<<body.ack.key, body.ack.receiver>>].seq
        => t >= s
    BY <1>0, <2>1 DEF AcksSince
  <2> HIDE DEF body, t
  <2>4. CASE body.op = "messages" /\ Enqueue(body.envelope, t)
    <3>1. body.envelope \in Envelope
      BY <2>2, <2>4 DEF Body
    <3>2. /\ messages'[k] = e
          /\ \A r \in Agent : deliveries'[<<k, r>>] = deliveries[<<k, r>>]
      BY <1>0, <2>2, <2>4, <3>1, EnqueueSince
    <3> QED BY <1>0, <3>2 DEF RowsSince
  <2>5. CASE body.op = "claims" /\ Claim(body.recipient, body.limit, body.lease, t)
    <3>1. body.recipient \in Agent /\ body.lease \in Nat
      BY <2>2, <2>5, PolicyAssumption DEF Body
    <3>2. /\ RowsSince(deliveries', e, s)
          /\ \A r \in Agent : deliveries'[<<k, r>>].seq = deliveries[<<k, r>>].seq
      BY <1>0, <2>2, <2>5, <3>1, ClaimSince
    <3>3. messages' = messages
      BY <2>5 DEF Claim
    <3> QED BY <1>0, <3>2, <3>3
  <2>6. CASE body.op = "acks" /\ Acknowledge(body.ack, t)
    <3>1. body.ack \in Ack
      BY <2>2, <2>6 DEF Body
    <3>2. /\ RowsSince(deliveries', e, s)
          /\ \A r \in Agent : deliveries'[<<k, r>>].seq = deliveries[<<k, r>>].seq
      BY <1>0, <2>2, <2>3, <2>6, <3>1, AckSince
    <3>3. messages' = messages
      BY <2>6 DEF Acknowledge
    <3> QED BY <1>0, <3>2, <3>3
  <2>7. CASE UNCHANGED vars
    BY <1>2, <2>7 DEF vars
  <2> QED BY <2>1, <2>4, <2>5, <2>6, <2>7 DEF Effect
<1>4. ASSUME Maintain PROVE Kept \/ PurgedSince(e, s)'
  <2>1. PICK retain \in RetainTimes : Maintenance(clock - retain, clock)
    BY <1>4 DEF Maintain, MaintenanceAny
  <2>2. retain \in Nat /\ clock' = clock
    BY <2>1, PolicyAssumption DEF Maintenance
  <2>3. Kept \/ (messages'[k] = NoMessage /\ s + retain < clock)
    BY <1>0, <2>1, <2>2, MaintenanceSince
  <2> HIDE DEF Kept
  <2> QED BY <2>2, <2>3 DEF PurgedSince
<1> HIDE DEF Kept
<1>5. CASE UNCHANGED <<messages, deliveries>>
  BY <1>1, <1>2, <1>5
<1> QED BY <1>1, <1>3, <1>4, <1>5 DEF ServiceNext, Sign, Observe, Record, Drop, Advance, Tick,
                                      SetBack, allVars, vars

\* Admissions are counted one by one.
LEMMA AdmissionsCounted ==
    ASSUME SInv, [ServiceNext]_allVars, NEW k \in Key
    PROVE  admissions'[k] = IF messages[k] = NoMessage /\ messages'[k] # NoMessage
                            THEN admissions[k] + 1 ELSE admissions[k]
<1>1. CASE messages[k] = NoMessage /\ messages'[k] # NoMessage
  <2>1. PICK th \in Thread : Perform(th)
    BY <1>1, AdmittedBy
  <2> QED BY <1>1, <2>1 DEF Perform
<1>2. CASE ~(messages[k] = NoMessage /\ messages'[k] # NoMessage)
  <2>1. ASSUME NEW th \in Thread, Perform(th) PROVE admissions'[k] = admissions[k]
    BY <1>2, <2>1 DEF Perform
  <2> QED BY <1>2, <2>1 DEF ServiceNext, Sign, Observe, Record, Drop, Advance, Maintain,
                            SetBack, allVars, serviceVars
<1> QED BY <1>1, <1>2

\* A key is not admitted again: what is stored is found, and what was purged
\* is too old for the handler's time.
LEMMA AdmissionStep ==
    ASSUME RetentionCovers, SInv, LagInv, AdmissionInv, [ServiceNext]_allVars, backs' = 0
    PROVE  AdmissionInv'
<1> SUFFICES ASSUME NEW k \in Key
             PROVE  /\ admissions'[k] <= 1
                    /\ messages'[k] # NoMessage => admissions'[k] = 1
                    /\ admissions'[k] = 1 =>
                          \E e \in Envelope, s \in 0..clock' :
                              /\ KeyOf[e] = k /\ Admissible(e, s)
                              /\ StoredSince(e, s)' \/ PurgedSince(e, s)'
  BY DEF AdmissionInv, Admissible, WellTimed
<1>0. clock' >= clock /\ clock' \in Nat /\ clock \in Nat /\ MaxLag \in Nat /\ RetainTimes \subseteq Nat
  BY LagStep, PolicyAssumption DEF SInv, IInv, TypeOK
<1>1. /\ admissions[k] <= 1 /\ admissions[k] \in Nat
      /\ messages[k] # NoMessage => admissions[k] = 1
      /\ admissions[k] = 1 =>
            \E e \in Envelope, s \in 0..clock :
                KeyOf[e] = k /\ Admissible(e, s) /\ (StoredSince(e, s) \/ PurgedSince(e, s))
  BY DEF AdmissionInv, SInv, ServiceTypeOK
<1>2. CASE messages[k] = NoMessage /\ messages'[k] # NoMessage
  <2>1. PICK th \in Thread, f \in Envelope :
           /\ Perform(th) /\ threads[th].pc = "recorded"
           /\ Enqueue(f, threads[th].now) /\ InsertMessage(f, threads[th].now)
           /\ KeyOf[f] = k /\ messages'[k] = f
    BY <1>2, AdmittedBy
  <2>2. PICK t \in Nat : t = threads[th].now /\ t <= clock /\ clock <= t + MaxLag
    BY <2>1 DEF LagInv, SInv, ServiceTypeOK
  <2>3. Admissible(f, t)
    BY <2>1, <2>2 DEF Enqueue
  <2>4. admissions[k] = 0
    <3> SUFFICES ASSUME admissions[k] = 1 PROVE FALSE
      BY <1>1
    <3>1. PICK e \in Envelope, s \in 0..clock :
             KeyOf[e] = k /\ Admissible(e, s) /\ (StoredSince(e, s) \/ PurgedSince(e, s))
      BY <1>1
    <3>2. e # NoMessage
      BY EnvelopeAssumption
    <3>3. PurgedSince(e, s)
      BY <1>2, <3>1, <3>2 DEF StoredSince
    <3>4. PICK retain \in RetainTimes : s + retain < clock
      BY <3>3 DEF PurgedSince
    <3>5. s \in Nat
      BY <1>0
    <3>6. t + MaxLag <= s + retain
      BY <2>1, <2>2, <2>3, <3>1, <3>5 DEF RetentionCovers
    <3> QED BY <1>0, <2>2, <3>4, <3>5, <3>6
  <2>5. admissions'[k] = 1
    BY <1>2, <2>4, AdmissionsCounted
  <2>6. /\ RowsSince(deliveries', f, t)
        /\ \A r \in Agent : deliveries'[<<k, r>>].seq = 0 \/ deliveries'[<<k, r>>].seq >= nextSeq
    BY <1>2, <2>1, <2>2, AdmitSince DEF SInv
  <2>7. AcksSince(f, t)'
    <3> SUFFICES ASSUME NEW u \in Thread, threads'[u].pc # "idle",
                        wire'[threads'[u].request].body.op = "acks",
                        wire'[threads'[u].request].body.ack.key = k,
                        wire'[threads'[u].request].body.ack.lease[1] =
                           deliveries'[<<wire'[threads'[u].request].body.ack.key,
                                         wire'[threads'[u].request].body.ack.receiver>>].seq
                 PROVE  FALSE
      BY <2>1 DEF AcksSince
    <3> DEFINE q == threads[u].request
               a == wire[q].body.ack
    <3>1. wire' = wire /\ threads'[u] = threads[u]
      BY <2>1 DEF Perform, SInv, ServiceTypeOK, Idle
    <3>2. /\ q \in Request /\ wire[q] # NoRequest /\ wire[q] \in Signed
          /\ wire[q].body \in Body /\ wire[q].body.op = "acks"
      BY <3>1 DEF SInv, ServiceTypeOK, Signed
    <3>3. a \in Ack
      BY <3>2 DEF Body
    <3>4. a.receiver \in Agent /\ a.lease[1] \in Nat /\ nextSeq \in Nat
      BY <3>3 DEF Ack, Lease, SInv, IInv, TypeOK
    <3>5. a.lease[1] > 0 /\ a.lease[1] < nextSeq
      BY <3>2 DEF SInv, AckInv
    <3>6. a.key = k /\ a.lease[1] = deliveries'[<<k, a.receiver>>].seq
      BY <3>1
    <3> HIDE DEF a
    <3> QED BY <2>6, <3>4, <3>5, <3>6
  <2>8. StoredSince(f, t)'
    BY <2>1, <2>6, <2>7 DEF StoredSince
  <2>9. t \in 0..clock'
    BY <1>0, <2>2
  <2> QED BY <2>1, <2>3, <2>5, <2>8, <2>9
<1>3. CASE ~(messages[k] = NoMessage /\ messages'[k] # NoMessage)
  <2>1. admissions'[k] = admissions[k]
    BY <1>3, AdmissionsCounted
  <2>2. ASSUME NEW e \in Envelope, NEW s \in 0..clock, KeyOf[e] = k, Admissible(e, s),
               StoredSince(e, s) \/ PurgedSince(e, s)
        PROVE  StoredSince(e, s)' \/ PurgedSince(e, s)'
    <3>1. CASE StoredSince(e, s)
      BY <2>2, <3>1, StoredStep
    <3>2. CASE PurgedSince(e, s)
      BY <1>0, <1>3, <2>2, <3>2 DEF PurgedSince
    <3> QED BY <2>2, <3>1, <3>2
  <2>3. \A s \in 0..clock : s \in 0..clock'
    BY <1>0
  <2> QED BY <1>1, <1>3, <2>1, <2>2, <2>3
<1> QED BY <1>2, <1>3

\* A message is admitted at most once over the life of the database, if the
\* clock is not set back and retention outlasts what admission accepts.
THEOREM AdmissionOnce == RetentionCovers => (ServiceSpec => []AdmittedOnce)
<1> SUFFICES ASSUME RetentionCovers PROVE ServiceSpec => []AdmittedOnce
  OBVIOUS
<1>1. ServiceInit => SteadyInv
  <2> SUFFICES ASSUME ServiceInit PROVE LagInv /\ AdmissionInv
    BY DEF SteadyInv
  <2>1. LagInv
    BY DEF ServiceInit, Init, LagInv, Idle
  <2>2. AdmissionInv
    BY DEF ServiceInit, Init, AdmissionInv
  <2> QED BY <2>1, <2>2
<1>2. SInv /\ SteadyInv /\ [ServiceNext]_allVars => SteadyInv'
  <2> SUFFICES ASSUME SInv, SteadyInv, [ServiceNext]_allVars, backs' = 0
               PROVE  LagInv' /\ AdmissionInv'
    BY DEF SteadyInv
  <2>1. backs = 0
    BY DEF ServiceNext, Sign, Observe, Record, Perform, Drop, Advance, Maintain, SetBack,
           allVars, serviceVars, SInv, ServiceTypeOK
  <2>2. LagInv /\ AdmissionInv
    BY <2>1 DEF SteadyInv
  <2> QED BY <2>2, LagStep, AdmissionStep
<1>3. SteadyInv => AdmittedOnce
  BY DEF SteadyInv, AdmissionInv, AdmittedOnce
<1> QED BY <1>1, <1>2, <1>3, ServiceInvariance, PTL DEF ServiceSpec

-----------------------------------------------------------------------------
(* The contract *)

\* What a step of the service does to the deliveries is one operation of the
\* broker.
LEMMA ServiceOperation == SInv /\ [ServiceNext]_allVars => Operation
<1> SUFFICES ASSUME SInv, [ServiceNext]_allVars PROVE Operation
  OBVIOUS
<1>1. ASSUME NEW th \in Thread, Perform(th) PROVE Operation
  <2> DEFINE body == wire[threads[th].request].body
             t == threads[th].now
  <2>1. threads[th].pc = "recorded" /\ Effect(body, t)
    BY <1>1 DEF Perform
  <2>2. body \in Body /\ t \in Nat
    BY <2>1 DEF SInv, ServiceTypeOK, Signed
  <2> HIDE DEF body, t
  <2>3. /\ body.op = "messages" => body.envelope \in Envelope
        /\ body.op = "claims" => /\ body.recipient \in Agent /\ body.limit \in ClaimLimits
                                 /\ body.lease \in Nat
        /\ body.op = "acks" => body.ack \in Ack
    BY <2>2, PolicyAssumption DEF Body
  <2> QED BY <2>1, <2>2, <2>3 DEF Effect, Operation, vars
<1>2. Maintain => Operation
  <2> SUFFICES ASSUME Maintain PROVE Operation
    OBVIOUS
  <2>1. PICK retain \in RetainTimes : Maintenance(clock - retain, clock)
    BY DEF Maintain, MaintenanceAny
  <2>2. retain \in Nat /\ clock \in Nat
    BY PolicyAssumption DEF SInv, IInv, TypeOK
  <2> QED BY <2>1, <2>2 DEF Operation
<1>3. UNCHANGED deliveries => Operation
  BY DEF Operation
<1> QED BY <1>1, <1>2, <1>3 DEF ServiceNext, Sign, Observe, Record, Drop, Advance, Tick,
                                SetBack, allVars, vars

\* The hub as a whole implements DeliveryContract, with handlers that act on
\* a time they read earlier, repeated requests, crashes and a clock set back.
THEOREM ServiceImplementsContract == ServiceSpec => RefinesContract
<1>1. ServiceInit => Contract!Init
  BY ContractInit DEF ServiceInit
<1>2. SInv /\ [ServiceNext]_allVars => [Contract!Next]_statusBar
  BY ServiceOperation, ContractStep DEF SInv
<1> QED BY <1>1, <1>2, ServiceInvariance, PTL
        DEF ServiceSpec, RefinesContract, Contract!Spec, statusBar
=============================================================================
