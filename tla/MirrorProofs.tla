---------------------------- MODULE MirrorProofs ----------------------------
(***************************************************************************)
(* Machine-checked proofs about Mirror, for any number of runs, keys and   *)
(* parts, any rendering and any pattern of crashes, losses and stalls.     *)
(*                                                                         *)
(* The invariant has two halves.  What is known to stand in the chat holds *)
(* whatever happens; that every key has one owner, and with it that no     *)
(* confirmed part is repeated, holds until a run stalls.                   *)
(***************************************************************************)
EXTENDS Mirror, BrokerProofs

\* The claim a run works on, and where it stands.
At(run) == FirstClaim(run.batch).key
Env(run) == FirstClaim(run.batch).envelope

\* A run in one of these steps holds the inbox row of its key.
Holding == {"resume", "send", "advance", "finish", "release"}
Owning == Holding \cup {"clear"}
Engaged == Owning \cup {"ack"}
Settled == {"processed", "terminal_failed"}

-----------------------------------------------------------------------------
(* The half that holds always *)

\* A run that works on a claim has one, and addresses one of its parts.
RunShape(run) ==
    /\ run.pc \in Engaged => run.batch # {}
    /\ run.pc \in {"send", "advance"} => run.next < Parts(Env(run))
    /\ run.pc \in {"finish", "clear"} => run.outcome \in Settled
    /\ run.pc = "ack" => run.outcome \in Outcome

\* How many parts of its claim a run knows to stand in the chat.
Known(run) ==
    CASE run.pc = "send" -> run.next
      [] run.pc = "advance" -> run.next + 1
      [] run.pc = "finish" /\ run.outcome = "processed" -> Parts(Env(run))
      [] OTHER -> 0

\* They do stand there, po and sh being the chat.
RunKnown(run, po, sh) ==
    /\ \A i \in Part : i <= Known(run) => po[At(run)][i] > 0
    /\ Known(run) > 0 => \E s \in sh[At(run)] : s[1] = Env(run)

\* StandsInChat as a function of the chat.
Stands(k, e, po, sh, st) ==
    IF \E s \in sh[k] : s[1] # e
    THEN st
    ELSE \A i \in 1..Parts(e) : po[k][i] > 0

\* A run that settled its claim as processed was right.
RunRight(run, po, sh, st) ==
    run.pc \in {"clear", "ack"} /\ run.outcome = "processed" =>
        Stands(At(run), Env(run), po, sh, st)

RunsInv ==
    \A w \in Worker : /\ RunShape(workers[w])
                      /\ RunKnown(workers[w], posts, shown)
                      /\ RunRight(workers[w], posts, shown, stalled)

\* The two tables are right about the chat as well.
TablesInv ==
    \A k \in Key :
        /\ progress[k].next > 0 => \E s \in shown[k] : s[1] = progress[k].envelope
        /\ inbox[k].state # "none" => inbox[k].envelope \in Envelope
        /\ inbox[k].state = "processed" =>
              Stands(k, inbox[k].envelope, posts, shown, stalled)

-----------------------------------------------------------------------------
(* The half that holds until a run stalls *)

\* A busy run is within the processing timeout.
RunTimely(run, t) ==
    run.pc # "idle" => run.now <= t /\ t < run.now + ProcessingTimeout

\* A run owns its key in the inbox, stands where the progress row stands, and
\* leaves a settled row behind.
RunOwns(run, ib, pr) ==
    /\ run.pc \in Holding =>
          ib[At(run)] = [state |-> "processing", envelope |-> Env(run), updated |-> run.now]
    /\ run.pc \in {"send", "advance"} =>
          pr[At(run)] = [envelope |-> Env(run), rendering |-> run.rendering, next |-> run.next]
    /\ run.pc \in {"clear", "ack"} /\ run.outcome \in Settled =>
          ib[At(run)].state = run.outcome /\ ib[At(run)].envelope = Env(run)

Apart(run, other) ==
    run.pc \in Owning /\ other.pc \in Owning => At(run) # At(other)

OwnersInv ==
    /\ \A w \in Worker : RunTimely(workers[w], clock) /\ RunOwns(workers[w], inbox, progress)
    /\ \A w, v \in Worker : w # v => Apart(workers[w], workers[v])

\* Somebody has posted the next part of the key and not yet recorded it.
Pending(k) == \E w \in Worker : workers[w].pc = "advance" /\ At(workers[w]) = k

\* Parts beyond the cursor were posted only by runs that never learned of it,
\* and the chat shows what the progress row says.
KeyChat(po, sh, db, state, row, pending) ==
    /\ \A i \in Part : po[i] <= 1 + db[i]
    /\ \A s, t \in sh : s = t
    /\ state \notin Settled =>
          /\ \A i \in Part : i > row.next /\ (i = row.next + 1 => ~pending) => po[i] <= db[i]
          /\ row = NoProgress => \A i \in Part : po[i] = 0
          /\ \A s \in sh : s = <<row.envelope, row.rendering>>

ChatInv ==
    \A k \in Key :
        KeyChat(posts[k], shown[k], doubts[k], inbox[k].state, progress[k], Pending(k))

\* What the hub holds as acknowledged is settled in the inbox.
AckedInv ==
    \A k \in Key : deliveries[<<k, Me>>].state = "acknowledged" =>
        inbox[k].state = "processed" /\ inbox[k].envelope = messages[k]

MInv == /\ IInv /\ MirrorTypeOK /\ RunsInv /\ TablesInv
        /\ CursorBehindChat /\ AcknowledgedIsWhole
        /\ stalled \/ (OwnersInv /\ ChatInv /\ AckedInv)

-----------------------------------------------------------------------------
(* Claims, runs and the chat *)

\* The claim a poll works on is one of its claims.
LEMMA HeadClaim ==
    ASSUME NEW run \in Run, run.batch # {}
    PROVE  /\ FirstClaim(run.batch) \in run.batch
           /\ FirstClaim(run.batch) \in ClaimItem
           /\ At(run) \in Key /\ Env(run) \in Envelope
<1> DEFINE B == run.batch
           T == {c.lease[1] : c \in B}
<1>1. B \subseteq ClaimItem
  BY DEF Run
<1>2. \A c \in B : c.lease[1] \in Nat
  BY <1>1 DEF ClaimItem, Lease
<1> HIDE DEF B
<1>3. T \in SUBSET Nat /\ T # {}
  BY <1>2 DEF B
<1>4. PICK m \in T : \A n \in T : m <= n
  BY <1>3, LeastNumber
<1>5. PICK c \in B : \A o \in B : c.lease[1] <= o.lease[1]
  BY <1>4
<1>6. FirstClaim(B) \in B
  BY <1>5 DEF FirstClaim
<1> QED BY <1>1, <1>6 DEF B, ClaimItem, At, Env

\* An envelope has at least one part and no more than the limit.
LEMMA PartsType ==
    ASSUME NEW e \in Envelope
    PROVE  Parts(e) \in Nat /\ 1 <= Parts(e) /\ Parts(e) <= MaxMirrorParts
BY MirrorAssumption DEF Parts

\* One run changes, the others do not.
LEMMA OneRun ==
    ASSUME workers \in [Worker -> Run], NEW w \in Worker, NEW new \in Run,
           workers' = [workers EXCEPT ![w] = new]
    PROVE  /\ workers' \in [Worker -> Run]
           /\ workers'[w] = new
           /\ \A v \in Worker : v # w => workers'[v] = workers[v]
OBVIOUS

\* The resting state satisfies everything that is said of a run.
LEMMA RestingRun ==
    /\ Resting \in Run
    /\ RunShape(Resting)
    /\ \A po, sh : RunKnown(Resting, po, sh)
    /\ \A po, sh, st : RunRight(Resting, po, sh, st)
    /\ \A t : RunTimely(Resting, t)
    /\ \A ib, pr : RunOwns(Resting, ib, pr)
    /\ Resting.pc = "idle"
<1>1. 0 \in Nat /\ 0 \in 0..MaxMirrorParts
  BY MirrorAssumption
<1>2. Resting \in Run
  BY <1>1 DEF Resting, Run
<1>3. /\ Resting.pc = "idle" /\ Known(Resting) = 0
  BY DEF Resting, Known
<1>4. \A i \in Part : ~(i <= 0)
  BY DEF Part
<1> HIDE DEF Resting
<1> QED BY <1>2, <1>3, <1>4 DEF RunShape, RunKnown, RunRight, RunTimely, RunOwns,
            Engaged, Owning, Holding

\* StandsInChat in terms of Stands.
LEMMA StandsIs ==
    ASSUME NEW k, NEW e
    PROVE  StandsInChat(k, e) <=> Stands(k, e, posts, shown, stalled)
BY DEF StandsInChat, Stands

-----------------------------------------------------------------------------
(* What a step of one run leaves alone *)

\* A step that posts nothing keeps what is said of the runs, if it holds of
\* the run that took it.
LEMMA QuietRuns ==
    ASSUME MInv, NEW w \in Worker, NEW new \in Run, workers' = [workers EXCEPT ![w] = new],
           UNCHANGED <<posts, shown, stalled>>,
           RunShape(new), RunKnown(new, posts, shown), RunRight(new, posts, shown, stalled)
    PROVE  RunsInv'
<1>1. workers \in [Worker -> Run]
  BY DEF MInv, MirrorTypeOK
<1>2. workers'[w] = new /\ \A v \in Worker : v # w => workers'[v] = workers[v]
  BY <1>1, OneRun
<1> QED BY <1>2 DEF MInv, RunsInv

\* The others own what they owned: the run that owns a key is the only one
\* to change the key's rows, and no step changes a settled row.
LEMMA OthersOwn ==
    ASSUME MInv, ~stalled, NEW w \in Worker, workers[w].pc \in Owning, NEW ib, NEW pr,
           \A k \in Key : k # At(workers[w]) => ib[k] = inbox[k] /\ pr[k] = progress[k],
           LET k == At(workers[w])
           IN  inbox[k].state \in Settled =>
                  ib[k].state = inbox[k].state /\ ib[k].envelope = inbox[k].envelope
    PROVE  \A v \in Worker : v # w => RunOwns(workers[v], ib, pr)
<1> SUFFICES ASSUME NEW v \in Worker, v # w PROVE RunOwns(workers[v], ib, pr)
  OBVIOUS
<1> DEFINE k == At(workers[w])
           run == workers[v]
<1> SUFFICES RunOwns(run, ib, pr)
  OBVIOUS
<1>1. /\ RunOwns(run, inbox, progress) /\ Apart(workers[w], run) /\ RunShape(run)
      /\ run \in Run
  BY DEF MInv, OwnersInv, RunsInv, MirrorTypeOK
<1>2. run.pc \in Engaged => At(run) \in Key
  BY <1>1, HeadClaim DEF RunShape
<1>3. inbox[k].state \in Settled =>
          ib[k].state = inbox[k].state /\ ib[k].envelope = inbox[k].envelope
  OBVIOUS
<1>4. At(run) # k /\ At(run) \in Key => ib[At(run)] = inbox[At(run)] /\ pr[At(run)] = progress[At(run)]
  OBVIOUS
<1>5. run.pc \in Owning => At(run) # k
  BY <1>1 DEF Apart
<1> HIDE DEF run, k
<1>6. CASE run.pc \in Owning
  <2>1. run.pc \in Engaged /\ run.pc # "ack"
    BY <1>6 DEF Engaged, Owning, Holding
  <2>2. ib[At(run)] = inbox[At(run)] /\ pr[At(run)] = progress[At(run)]
    BY <1>2, <1>4, <1>5, <1>6, <2>1
  <2> QED BY <1>1, <2>2 DEF RunOwns
<1>7. CASE run.pc \notin Owning
  <2>1. run.pc \notin Holding \cup {"send", "advance", "clear"}
    BY <1>7 DEF Owning, Holding
  <2>2. CASE run.pc = "ack" /\ run.outcome \in Settled
    <3>1. inbox[At(run)].state = run.outcome /\ inbox[At(run)].envelope = Env(run)
      BY <1>1, <2>2 DEF RunOwns
    <3>2. At(run) \in Key
      BY <1>2, <2>2 DEF Engaged
    <3>3. ib[At(run)].state = run.outcome /\ ib[At(run)].envelope = Env(run)
      BY <1>3, <1>4, <2>2, <3>1, <3>2
    <3> QED BY <2>1, <3>3 DEF RunOwns
  <2>3. CASE ~(run.pc = "ack" /\ run.outcome \in Settled)
    BY <2>1, <2>3 DEF RunOwns
  <2> QED BY <2>2, <2>3
<1> QED BY <1>6, <1>7

\* Ownership after a step of one run.
LEMMA OwnersAfter ==
    ASSUME MInv, ~stalled, NEW w \in Worker, NEW new \in Run,
           workers' = [workers EXCEPT ![w] = new], UNCHANGED clock,
           RunTimely(new, clock), RunOwns(new, inbox', progress'),
           \A v \in Worker : v # w => RunOwns(workers[v], inbox', progress'),
           \A v \in Worker : v # w => Apart(new, workers[v])
    PROVE  OwnersInv'
<1>1. workers \in [Worker -> Run]
  BY DEF MInv, MirrorTypeOK
<1>2. workers'[w] = new /\ \A v \in Worker : v # w => workers'[v] = workers[v]
  BY <1>1, OneRun
<1>3. \A v \in Worker : RunTimely(workers[v], clock)
  BY DEF MInv, OwnersInv
<1>4. \A v, u \in Worker : v # u => Apart(workers[v], workers[u])
  BY DEF MInv, OwnersInv
<1>5. \A v \in Worker : RunTimely(workers'[v], clock') /\ RunOwns(workers'[v], inbox', progress')
  BY <1>2, <1>3
<1>6. ASSUME NEW v \in Worker, NEW u \in Worker, v # u PROVE Apart(workers'[v], workers'[u])
  <2>1. CASE v = w
    BY <1>2, <1>6, <2>1
  <2>2. CASE u = w
    <3>1. Apart(new, workers[v])
      BY <1>6, <2>2
    <3>2. Apart(workers[v], new)
      BY <3>1 DEF Apart
    <3> QED BY <1>2, <1>6, <2>2, <3>2
  <2>3. CASE v # w /\ u # w
    BY <1>2, <1>4, <1>6, <2>3
  <2> QED BY <2>1, <2>2, <2>3
<1> QED BY <1>5, <1>6 DEF OwnersInv

\* A run that goes on with its own key, or gives it up, stays apart.
LEMMA StaysApart ==
    ASSUME MInv, ~stalled, NEW w \in Worker, NEW new \in Run,
           new.pc \in Owning => workers[w].pc \in Owning /\ At(new) = At(workers[w])
    PROVE  \A v \in Worker : v # w => Apart(new, workers[v])
<1>1. \A v \in Worker : v # w => Apart(workers[w], workers[v])
  BY DEF MInv, OwnersInv
<1> QED BY <1>1 DEF Apart

\* Which keys have a part in flight.
LEMMA PendingAfter ==
    ASSUME MInv, ~stalled, NEW w \in Worker, NEW new \in Run,
           workers' = [workers EXCEPT ![w] = new], workers[w].pc \in Owning,
           new.pc = "advance" => At(new) = At(workers[w])
    PROVE  /\ \A c \in Key : c # At(workers[w]) => (Pending(c)' <=> Pending(c))
           /\ Pending(At(workers[w])) <=> workers[w].pc = "advance"
           /\ \A c \in Key : c = At(workers[w]) => (Pending(c)' <=> new.pc = "advance")
<1>1. workers \in [Worker -> Run]
  BY DEF MInv, MirrorTypeOK
<1>2. workers'[w] = new /\ \A v \in Worker : v # w => workers'[v] = workers[v]
  BY <1>1, OneRun
<1>3. \A v \in Worker : v # w /\ workers[v].pc = "advance" => At(workers[v]) # At(workers[w])
  BY DEF MInv, OwnersInv, Apart, Owning, Holding
<1> DEFINE k == At(workers[w])
<1>4. ASSUME NEW c \in Key, c # k PROVE Pending(c)' <=> Pending(c)
  BY <1>2, <1>4 DEF Pending
<1>5. Pending(k) <=> workers[w].pc = "advance"
  BY <1>3 DEF Pending
<1>6. ASSUME NEW c \in Key, c = k PROVE Pending(c)' <=> new.pc = "advance"
  BY <1>2, <1>3, <1>6 DEF Pending
<1> QED BY <1>4, <1>5, <1>6

\* A step outside the broker keeps the broker's invariant.
LEMMA BrokerKept ==
    ASSUME IInv, UNCHANGED vars PROVE IInv'
BY DEF vars, IInv, TypeOK, RowsInv, LedgerInv, CursorOnTerminal

\* What remains to be shown of a step of one run that neither posts nor talks
\* to the hub.
LEMMA QuietStep ==
    ASSUME MInv, NEW w \in Worker, NEW new \in Run, workers' = [workers EXCEPT ![w] = new],
           UNCHANGED <<vars, posts, shown, stalled, rendering>>,
           inbox' \in [Key -> InboxRow], progress' \in [Key -> ProgressRow],
           doubts' \in [Key -> [Part -> Nat]], crashes' \in Nat, losses' \in Nat,
           RunShape(new), RunKnown(new, posts, shown), RunRight(new, posts, shown, stalled),
           TablesInv', CursorBehindChat',
           stalled \/ (OwnersInv' /\ ChatInv' /\ AckedInv')
    PROVE  MInv'
<1>1. IInv'
  BY BrokerKept DEF MInv
<1>2. MirrorTypeOK'
  BY OneRun DEF MInv, MirrorTypeOK
<1>3. RunsInv'
  BY QuietRuns
<1>4. AcknowledgedIsWhole'
  BY DEF MInv, AcknowledgedIsWhole, StandsInChat, vars
<1> QED BY <1>1, <1>2, <1>3, <1>4 DEF MInv

\* A step that changes nothing but the run.
LEMMA OnlyRunStep ==
    ASSUME MInv, NEW w \in Worker, NEW new \in Run, workers' = [workers EXCEPT ![w] = new],
           UNCHANGED <<vars, inbox, progress, posts, shown, doubts, stalled, rendering>>,
           crashes' \in Nat, losses' \in Nat,
           RunShape(new), RunKnown(new, posts, shown), RunRight(new, posts, shown, stalled),
           workers[w].pc # "advance", new.pc # "advance",
           stalled \/ (/\ RunTimely(new, clock) /\ RunOwns(new, inbox, progress)
                       /\ new.pc \in Owning =>
                             workers[w].pc \in Owning /\ At(new) = At(workers[w]))
    PROVE  MInv'
<1>1. TablesInv' /\ CursorBehindChat'
  BY DEF MInv, TablesInv, CursorBehindChat
<1>2. ASSUME ~stalled PROVE OwnersInv' /\ ChatInv' /\ AckedInv'
  <2>1. AckedInv'
    BY <1>2 DEF MInv, AckedInv, vars
  <2>2. OwnersInv'
    <3>1. \A v \in Worker : RunOwns(workers[v], inbox', progress')
      BY <1>2 DEF MInv, OwnersInv
    <3>2. \A v \in Worker : v # w => Apart(new, workers[v])
      BY <1>2, StaysApart
    <3>3. clock' = clock
      BY DEF vars
    <3>4. RunOwns(new, inbox', progress') /\ RunTimely(new, clock)
      BY <1>2
    <3> QED BY <1>2, <3>1, <3>2, <3>3, <3>4, OwnersAfter
  <2>3. \A c \in Key : Pending(c)' <=> Pending(c)
    <3>1. workers'[w] = new /\ \A v \in Worker : v # w => workers'[v] = workers[v]
      BY OneRun DEF MInv, MirrorTypeOK
    <3> QED BY <3>1 DEF Pending
  <2>4. ChatInv'
    <3>1. ChatInv
      BY <1>2 DEF MInv
    <3> QED BY <2>3, <3>1 DEF ChatInv, KeyChat
  <2> QED BY <2>1, <2>2, <2>4
<1>3. /\ inbox' \in [Key -> InboxRow] /\ progress' \in [Key -> ProgressRow]
      /\ doubts' \in [Key -> [Part -> Nat]]
  BY DEF MInv, MirrorTypeOK
<1> QED BY <1>1, <1>2, <1>3, QuietStep

\* A run that ends without anything in flight.
LEMMA AbortStep ==
    ASSUME MInv, NEW w \in Worker, Abort(w), workers[w].pc # "advance",
           UNCHANGED <<vars, inbox, progress, posts, shown, doubts, stalled, rendering>>,
           crashes' \in Nat, losses' \in Nat
    PROVE  MInv'
<1>1. Resting.pc \notin Owning /\ Resting.pc # "advance"
  BY RestingRun DEF Owning, Holding
<1>2. workers' = [workers EXCEPT ![w] = Resting]
  BY DEF Abort
<1> QED BY <1>1, <1>2, RestingRun, OnlyRunStep

-----------------------------------------------------------------------------
(* The steps of a run *)

\* begin answers "new" for a row that is absent or stale, and otherwise says
\* what is there.
LEMMA BeginCases ==
    ASSUME NEW row \in InboxRow, NEW e, NEW now
    PROVE  /\ BeginAnswer(row, e, now) = "new" =>
                 \/ row.state = "none"
                 \/ /\ row.state = "processing" /\ row.envelope = e
                    /\ row.updated <= now - ProcessingTimeout
           /\ BeginAnswer(row, e, now) \in Settled =>
                 row.state = BeginAnswer(row, e, now) /\ row.envelope = e
<1>1. row.state \in {"none", "processing", "processed", "terminal_failed"}
  BY DEF InboxRow
<1>2. CASE row.state = "none"
  BY <1>2 DEF BeginAnswer, Settled
<1>3. CASE row.state # "none" /\ row.envelope # e
  BY <1>3 DEF BeginAnswer, Settled
<1>4. CASE row.state # "none" /\ row.envelope = e /\ Stale(row, now)
  <2>1. BeginAnswer(row, e, now) = "new"
    BY <1>4 DEF BeginAnswer
  <2> QED BY <1>4, <2>1 DEF Stale, Settled
<1>5. CASE row.state # "none" /\ row.envelope = e /\ ~Stale(row, now)
  <2>1. BeginAnswer(row, e, now) = row.state
    BY <1>5 DEF BeginAnswer
  <2> QED BY <1>1, <1>5, <2>1 DEF Settled
<1> QED BY <1>2, <1>3, <1>4, <1>5

\* Without a stall, begin gives nobody a key that a living run owns.
LEMMA NewOwner ==
    ASSUME MInv, ~stalled, NEW w \in Worker, workers[w].pc # "idle", NEW k \in Key, NEW e,
           BeginAnswer(inbox[k], e, workers[w].now) = "new"
    PROVE  \A v \in Worker :
              \/ workers[v].pc \in Owning
              \/ workers[v].pc = "ack" /\ workers[v].outcome \in Settled
              => At(workers[v]) # k
<1>1. inbox[k] \in InboxRow /\ clock \in Nat /\ ProcessingTimeout \in Nat
  BY PollingAssumption DEF MInv, MirrorTypeOK, IInv, TypeOK
<1>2. \A v \in Worker : /\ workers[v] \in Run /\ RunTimely(workers[v], clock)
                        /\ RunOwns(workers[v], inbox, progress) /\ RunShape(workers[v])
  BY DEF MInv, MirrorTypeOK, OwnersInv, RunsInv
<1> DEFINE now == workers[w].now
<1>3. now \in Nat /\ now <= clock
  BY <1>2 DEF Run, RunTimely
<1>4. \/ inbox[k].state = "none"
      \/ inbox[k].state = "processing" /\ inbox[k].updated <= now - ProcessingTimeout
  BY <1>1, BeginCases
<1> HIDE DEF now
<1> SUFFICES ASSUME NEW v \in Worker, At(workers[v]) = k,
                    \/ workers[v].pc \in Owning
                    \/ workers[v].pc = "ack" /\ workers[v].outcome \in Settled
             PROVE  FALSE
  OBVIOUS
<1>5. CASE workers[v].pc \in Holding
  <2>1. inbox[k].state = "processing" /\ inbox[k].updated = workers[v].now
    <3>1. inbox[k] = [state |-> "processing", envelope |-> Env(workers[v]),
                      updated |-> workers[v].now]
      BY <1>2, <1>5 DEF RunOwns
    <3> QED BY <3>1
  <2>2. workers[v].now \in Nat /\ clock < workers[v].now + ProcessingTimeout
    BY <1>2, <1>5 DEF RunTimely, Holding, Run
  <2> QED BY <1>1, <1>3, <1>4, <2>1, <2>2
<1>6. CASE workers[v].pc \in {"clear", "ack"} /\ workers[v].outcome \in Settled
  <2>1. inbox[k].state \in Settled
    BY <1>2, <1>6 DEF RunOwns
  <2> QED BY <1>4, <2>1 DEF Settled
<1>7. workers[v].pc = "clear" => workers[v].outcome \in Settled
  BY <1>2 DEF RunShape
<1> QED BY <1>5, <1>6, <1>7 DEF Owning

\* store.begin
LEMMA BeginStep ==
    ASSUME MInv, NEW w \in Worker, Begin(w)
    PROVE  MInv'
<1> DEFINE run == workers[w]
           c == FirstClaim(run.batch)
           k == c.key
           e == c.envelope
           prior == BeginAnswer(inbox[k], e, run.now)
<1>1. /\ run.pc = "next" /\ run.batch # {}
      /\ inbox' = [inbox EXCEPT ![k] = IF prior = "new"
                                       THEN [state |-> "processing", envelope |-> e, updated |-> run.now]
                                       ELSE @]
      /\ \/ prior = "new" /\ workers' = [workers EXCEPT ![w].pc = "resume"]
         \/ prior = "conflict" /\ Abort(w)
         \/ prior = "processing" /\ workers' = [workers EXCEPT ![w].batch = @ \ {c}]
         \/ /\ prior \in {"processed", "terminal_failed"}
            /\ workers' = [workers EXCEPT ![w].pc = "ack", ![w].outcome = prior]
      /\ UNCHANGED <<vars, progress, rendering, posts, shown, doubts, crashes, losses, stalled>>
  BY DEF Begin, Head1, InboxBegin
<1>2. run \in Run /\ RunShape(run) /\ workers \in [Worker -> Run]
  BY DEF MInv, MirrorTypeOK, RunsInv
<1>3. c \in run.batch /\ k \in Key /\ e \in Envelope /\ k = At(run) /\ e = Env(run)
  BY <1>1, <1>2, HeadClaim DEF At, Env
<1>4. inbox \in [Key -> InboxRow] /\ inbox[k] \in InboxRow /\ crashes \in Nat /\ losses \in Nat
  BY <1>3 DEF MInv, MirrorTypeOK
<1>5. prior # "new" => inbox' = inbox
  BY <1>1, <1>4
<1>6. \A i \in Part : ~(i <= 0)
  BY DEF Part
<1>7. ~stalled => RunTimely(run, clock)
  BY DEF MInv, OwnersInv
<1> HIDE DEF prior, c, k, e, run
<1>8. CASE prior = "new" /\ workers' = [workers EXCEPT ![w].pc = "resume"]
  <2> DEFINE new == [run EXCEPT !.pc = "resume"]
             own == [state |-> "processing", envelope |-> e, updated |-> run.now]
  <2>1. /\ new \in Run /\ new.pc = "resume" /\ new.now = run.now /\ new.batch = run.batch
    BY <1>2 DEF Run
  <2>2. workers' = [workers EXCEPT ![w] = new]
    BY <1>2, <1>8 DEF run
  <2>3. inbox' = [inbox EXCEPT ![k] = own]
    BY <1>1, <1>8
  <2>4. own \in InboxRow
    BY <1>2, <1>3 DEF InboxRow, Run
  <2>5. own.state = "processing" /\ own.envelope = e /\ own.updated = run.now
    OBVIOUS
  <2>6. inbox[k].state \notin Settled
    BY <1>4, <1>8, BeginCases DEF prior, Settled
  <2>7. At(new) = k /\ Env(new) = e
    BY <1>3, <2>1 DEF At, Env
  <2>8. /\ inbox' \in [Key -> InboxRow] /\ inbox'[k] = own
        /\ \A j \in Key : j # k => inbox'[j] = inbox[j]
    BY <1>3, <1>4, <2>3, <2>4
  <2>9. RunOwns(new, inbox', progress')
    BY <2>1, <2>7, <2>8 DEF RunOwns, Holding
  <2> HIDE DEF new, own
  <2>10. Known(new) = 0
    BY <2>1 DEF Known
  <2>11. /\ RunShape(new) /\ RunKnown(new, posts, shown) /\ RunRight(new, posts, shown, stalled)
    BY <1>1, <1>6, <2>1, <2>10 DEF RunShape, RunKnown, RunRight
  <2>12. TablesInv' /\ CursorBehindChat'
    BY <1>1, <1>3, <2>5, <2>8 DEF MInv, TablesInv, CursorBehindChat
  <2>13. ASSUME ~stalled PROVE OwnersInv' /\ ChatInv' /\ AckedInv'
    <3>1. \A v \in Worker :
             workers[v].pc \in Owning \/ (workers[v].pc = "ack" /\ workers[v].outcome \in Settled)
             => At(workers[v]) # k
      BY <1>1, <1>3, <1>8, <2>13, NewOwner DEF prior, run
    <3>2. ASSUME NEW v \in Worker PROVE RunOwns(workers[v], inbox', progress')
      <4>1. RunOwns(workers[v], inbox, progress) /\ RunShape(workers[v]) /\ workers[v] \in Run
        BY <2>13 DEF MInv, OwnersInv, RunsInv, MirrorTypeOK
      <4>2. CASE workers[v].pc \in Owning \/ (workers[v].pc = "ack" /\ workers[v].outcome \in Settled)
        <5>1. At(workers[v]) \in Key
          BY <4>1, <4>2, HeadClaim DEF RunShape, Engaged
        <5>2. inbox'[At(workers[v])] = inbox[At(workers[v])] /\ progress' = progress
          BY <1>1, <2>8, <3>1, <4>2, <5>1
        <5> QED BY <4>1, <5>2 DEF RunOwns
      <4>3. CASE ~(workers[v].pc \in Owning \/ (workers[v].pc = "ack" /\ workers[v].outcome \in Settled))
        BY <4>3 DEF RunOwns, Owning, Holding
      <4> QED BY <4>2, <4>3
    <3>3. \A v \in Worker : v # w => Apart(new, workers[v])
      BY <2>7, <3>1 DEF Apart
    <3>4. RunTimely(new, clock) /\ clock' = clock
      BY <1>1, <1>7, <2>1, <2>13 DEF RunTimely, vars
    <3>5. OwnersInv'
      BY <2>1, <2>2, <2>9, <2>13, <3>2, <3>3, <3>4, OwnersAfter
    <3>6. \A j \in Key : Pending(j)' <=> Pending(j)
      <4>1. workers'[w] = new /\ \A v \in Worker : v # w => workers'[v] = workers[v]
        BY <1>2, <2>1, <2>2, OneRun
      <4> QED BY <1>1, <2>1, <4>1 DEF Pending, run
    <3>7. ChatInv'
      <4>1. ChatInv
        BY <2>13 DEF MInv
      <4> QED BY <1>1, <2>5, <2>6, <2>8, <3>6, <4>1 DEF ChatInv, KeyChat
    <3>8. AckedInv'
      BY <1>1, <2>6, <2>8, <2>13 DEF MInv, AckedInv, vars, Settled
    <3> QED BY <3>5, <3>7, <3>8
  <2>14. /\ progress' \in [Key -> ProgressRow] /\ doubts' \in [Key -> [Part -> Nat]]
         /\ crashes' \in Nat /\ losses' \in Nat
    BY <1>1 DEF MInv, MirrorTypeOK
  <2> QED BY <1>1, <2>1, <2>2, <2>8, <2>11, <2>12, <2>13, <2>14, QuietStep
<1>9. CASE prior = "conflict" /\ Abort(w)
  BY <1>1, <1>4, <1>5, <1>9, AbortStep DEF run
<1>10. CASE prior = "processing" /\ workers' = [workers EXCEPT ![w].batch = @ \ {c}]
  <2> DEFINE new == [run EXCEPT !.batch = run.batch \ {c}]
  <2>1. new \in Run /\ new.pc = "next" /\ new.now = run.now
    BY <1>1, <1>2 DEF Run
  <2>2. workers' = [workers EXCEPT ![w] = new]
    BY <1>2, <1>10 DEF run
  <2> HIDE DEF new
  <2>3. Known(new) = 0
    BY <2>1 DEF Known
  <2>4. /\ RunShape(new) /\ RunKnown(new, posts, shown) /\ RunRight(new, posts, shown, stalled)
        /\ RunOwns(new, inbox, progress) /\ new.pc \notin Owning /\ new.pc # "advance"
    BY <1>6, <2>1, <2>3 DEF RunShape, RunKnown, RunRight, RunOwns, Engaged, Owning, Holding
  <2>5. ~stalled => RunTimely(new, clock)
    BY <1>1, <1>7, <2>1 DEF RunTimely
  <2>6. inbox' = inbox /\ crashes' \in Nat /\ losses' \in Nat /\ workers[w].pc # "advance"
    BY <1>1, <1>4, <1>5, <1>10 DEF run
  <2> QED BY <1>1, <2>1, <2>2, <2>4, <2>5, <2>6, OnlyRunStep
<1>11. CASE /\ prior \in {"processed", "terminal_failed"}
            /\ workers' = [workers EXCEPT ![w].pc = "ack", ![w].outcome = prior]
  <2> DEFINE new == [run EXCEPT !.pc = "ack", !.outcome = prior]
  <2>1. /\ new \in Run /\ new.pc = "ack" /\ new.now = run.now /\ new.outcome = prior
        /\ new.batch = run.batch
    BY <1>2, <1>11 DEF Run, Outcome
  <2>2. workers' = [workers EXCEPT ![w] = new]
    BY <1>2, <1>11 DEF run
  <2> HIDE DEF new
  <2>3. Known(new) = 0 /\ At(new) = k /\ Env(new) = e
    BY <1>3, <2>1 DEF Known, At, Env
  <2>4. inbox[k].state = prior /\ inbox[k].envelope = e
    BY <1>4, <1>11, BeginCases DEF prior, Settled
  <2>5. prior = "processed" => Stands(k, e, posts, shown, stalled)
    BY <1>3, <2>4 DEF MInv, TablesInv
  <2>6. /\ RunShape(new) /\ RunKnown(new, posts, shown) /\ RunRight(new, posts, shown, stalled)
        /\ RunOwns(new, inbox, progress) /\ new.pc \notin Owning /\ new.pc # "advance"
    BY <1>1, <1>6, <1>11, <2>1, <2>3, <2>4, <2>5
       DEF RunShape, RunKnown, RunRight, RunOwns, Engaged, Owning, Holding, Outcome
  <2>7. ~stalled => RunTimely(new, clock)
    BY <1>1, <1>7, <2>1 DEF RunTimely
  <2>8. inbox' = inbox /\ crashes' \in Nat /\ losses' \in Nat /\ workers[w].pc # "advance"
    BY <1>1, <1>4, <1>5, <1>11 DEF run
  <2> QED BY <1>1, <2>1, <2>2, <2>6, <2>7, <2>8, OnlyRunStep
<1> QED BY <1>1, <1>8, <1>9, <1>10, <1>11

\* The run after Continue, as a value.
Continued(run, n) ==
    [run EXCEPT !.next = n,
                !.pc = IF n < Parts(Env(run)) THEN "send" ELSE "finish",
                !.outcome = IF n < Parts(Env(run)) THEN "" ELSE "processed"]

\* A run that goes on behind n parts which stand in the chat knows no more than
\* that.
LEMMA ContinuedRun ==
    ASSUME NEW run \in Run, run.batch # {}, NEW n \in 0..MaxMirrorParts,
           NEW po, NEW sh, NEW st,
           \A i \in Part : i <= n => po[At(run)][i] > 0,
           n > 0 => \E s \in sh[At(run)] : s[1] = Env(run),
           NEW new, new = Continued(run, n)
    PROVE  /\ new \in Run /\ new.batch = run.batch /\ new.now = run.now
           /\ new.rendering = run.rendering /\ new.next = n
           /\ At(new) = At(run) /\ Env(new) = Env(run)
           /\ new.pc \in {"send", "finish"} /\ (new.pc = "send" <=> n < Parts(Env(run)))
           /\ RunShape(new) /\ RunKnown(new, po, sh) /\ RunRight(new, po, sh, st)
<1> DEFINE P == Parts(Env(run))
<1>1. Env(run) \in Envelope
  BY HeadClaim
<1>2. P \in Nat /\ 1 <= P /\ n \in Nat
  BY <1>1, PartsType, MirrorAssumption
<1>3. /\ new.pc = (IF n < P THEN "send" ELSE "finish")
      /\ new.outcome = (IF n < P THEN "" ELSE "processed")
      /\ new.next = n /\ new.batch = run.batch /\ new.now = run.now
      /\ new.rendering = run.rendering
  BY DEF Continued, Run
<1>4. new \in Run
  BY DEF Continued, Run, Outcome
<1>5. At(new) = At(run) /\ Env(new) = Env(run)
  BY <1>3 DEF At, Env
<1>6. RunShape(new) /\ RunRight(new, po, sh, st)
  BY <1>3, <1>5 DEF RunShape, RunRight, Settled
<1>7. Known(new) = IF n < P THEN n ELSE P
  BY <1>3, <1>5 DEF Known
<1> HIDE DEF P
<1>8. RunKnown(new, po, sh)
  <2>1. Known(new) \in Nat /\ Known(new) <= n /\ (Known(new) > 0 => n > 0)
    BY <1>2, <1>7
  <2>2. \A i \in Part : i \in Nat
    BY MirrorAssumption DEF Part
  <2>3. ASSUME NEW i \in Part, i <= Known(new) PROVE i <= n
    BY <1>2, <2>1, <2>2, <2>3
  <2> QED BY <1>5, <2>1, <2>3 DEF RunKnown
<1> QED BY <1>3, <1>4, <1>5, <1>6, <1>8 DEF P

\* What is known of a run that works on a claim.
LEMMA EngagedRun ==
    ASSUME MInv, NEW w \in Worker, workers[w].pc \in Engaged
    PROVE  /\ workers \in [Worker -> Run] /\ workers[w] \in Run /\ workers[w].batch # {}
           /\ At(workers[w]) \in Key /\ Env(workers[w]) \in Envelope
           /\ Head1(w).key = At(workers[w]) /\ Head1(w).envelope = Env(workers[w])
           /\ ~stalled => /\ RunTimely(workers[w], clock)
                          /\ RunOwns(workers[w], inbox, progress)
<1>1. workers \in [Worker -> Run] /\ RunShape(workers[w])
  BY DEF MInv, MirrorTypeOK, RunsInv
<1>2. workers[w].batch # {}
  BY <1>1 DEF RunShape
<1>3. ~stalled => /\ RunTimely(workers[w], clock) /\ RunOwns(workers[w], inbox, progress)
  BY DEF MInv, OwnersInv
<1> QED BY <1>1, <1>2, <1>3, HeadClaim DEF Head1, At, Env

\* decrypt, render_parts and progress.resume
LEMMA ResumeStep ==
    ASSUME MInv, NEW w \in Worker, Resume(w)
    PROVE  MInv'
<1> DEFINE run == workers[w]
           k == At(run)
           e == Env(run)
           row == progress[k]
<1>1. run.pc = "resume"
  BY DEF Resume
<1>2. /\ workers \in [Worker -> Run] /\ run \in Run /\ run.batch # {}
      /\ k \in Key /\ e \in Envelope
      /\ Head1(w).key = k /\ Head1(w).envelope = e
      /\ ~stalled => RunTimely(run, clock) /\ RunOwns(run, inbox, progress)
  BY <1>1, EngagedRun DEF Engaged, Owning, Holding
<1>3. /\ UNCHANGED <<vars, inbox, rendering, posts, shown, doubts, crashes, losses, stalled>>
      /\ \/ /\ row = NoProgress
            /\ progress' = [progress EXCEPT ![k] =
                  [envelope |-> e, rendering |-> run.rendering, next |-> 0]]
            /\ Continue(w, 0)
         \/ /\ row # NoProgress /\ row.envelope = e /\ row.rendering = run.rendering
            /\ Continue(w, row.next) /\ UNCHANGED progress
         \/ /\ workers' = [workers EXCEPT ![w].pc = "finish", ![w].outcome = "terminal_failed"]
            /\ UNCHANGED progress
  BY <1>2 DEF Resume, SameRendering, ResumeAt
<1>4. \A n : Continue(w, n) => workers' = [workers EXCEPT ![w] = Continued(run, n)]
  BY <1>2 DEF Continue, Continued
<1>5. row \in ProgressRow /\ row.next \in 0..MaxMirrorParts /\ 0 \in 0..MaxMirrorParts
  BY <1>2, MirrorAssumption DEF MInv, MirrorTypeOK, ProgressRow
<1>6. inbox \in [Key -> InboxRow] /\ crashes \in Nat /\ losses \in Nat
  BY DEF MInv, MirrorTypeOK
<1>7. \A i \in Part : i \in Nat /\ ~(i <= 0)
  BY MirrorAssumption DEF Part
<1> HIDE DEF run, k, e, row
<1>8. CASE row = NoProgress /\ Continue(w, 0)
           /\ progress' = [progress EXCEPT ![k] =
                  [envelope |-> e, rendering |-> run.rendering, next |-> 0]]
  <2> DEFINE new == Continued(run, 0)
             first == [envelope |-> e, rendering |-> run.rendering, next |-> 0]
  <2> new = Continued(run, 0)
    OBVIOUS
  <2>1. /\ first.envelope = e /\ first.rendering = run.rendering /\ first.next = 0
        /\ first \in ProgressRow
    BY <1>2, <1>5 DEF ProgressRow, Run
  <2>2. progress' = [progress EXCEPT ![k] = first]
    BY <1>8
  <2>3. /\ progress' \in [Key -> ProgressRow] /\ progress'[k] = first
        /\ \A j \in Key : j # k => progress'[j] = progress[j]
    BY <1>2, <2>1, <2>2 DEF MInv, MirrorTypeOK
  <2> HIDE DEF new
  <2>4. /\ new \in Run /\ new.batch = run.batch /\ new.now = run.now
        /\ new.rendering = run.rendering /\ new.next = 0
        /\ At(new) = k /\ Env(new) = e
        /\ new.pc \in {"send", "finish"}
        /\ RunShape(new) /\ RunKnown(new, posts, shown) /\ RunRight(new, posts, shown, stalled)
    BY <1>2, <1>5, <1>7, ContinuedRun DEF k, e
  <2>5. workers' = [workers EXCEPT ![w] = new]
    BY <1>4, <1>8
  <2>6. ASSUME ~stalled PROVE RunOwns(new, inbox', progress')
    <3>1. inbox'[At(new)] = [state |-> "processing", envelope |-> Env(new), updated |-> new.now]
      BY <1>1, <1>2, <1>3, <2>4, <2>6 DEF RunOwns, Holding, k, e
    <3>2. progress'[At(new)] = [envelope |-> Env(new), rendering |-> new.rendering, next |-> new.next]
      BY <2>3, <2>4
    <3> QED BY <2>4, <3>1, <3>2 DEF RunOwns
  <2> HIDE DEF first
  <2>7. TablesInv' /\ CursorBehindChat'
    <3>1. TablesInv'
      BY <1>3, <2>1, <2>3 DEF MInv, TablesInv
    <3>2. \A i \in Part : ~(i <= first.next)
      BY <1>7, <2>1
    <3>3. CursorBehindChat'
      BY <1>3, <2>3, <3>2 DEF MInv, CursorBehindChat
    <3> QED BY <3>1, <3>3
  <2>8. ASSUME ~stalled PROVE OwnersInv' /\ ChatInv' /\ AckedInv'
    <3>0. workers[w].pc \in Owning /\ workers[w].pc # "advance" /\ new.pc # "advance"
      BY <1>1, <2>4 DEF Owning, Holding, run
    <3>1. \A v \in Worker : v # w => RunOwns(workers[v], inbox', progress')
      BY <1>3, <2>3, <2>8, <3>0, OthersOwn DEF k, run
    <3>2. \A v \in Worker : v # w => Apart(new, workers[v])
      BY <2>4, <2>8, <3>0, StaysApart DEF k, run
    <3>3. RunTimely(new, clock) /\ clock' = clock
      BY <1>1, <1>2, <1>3, <2>4, <2>8 DEF RunTimely, vars
    <3>4. OwnersInv'
      BY <2>4, <2>5, <2>6, <2>8, <3>1, <3>2, <3>3, OwnersAfter
    <3>5. /\ \A j \in Key : j # k => (Pending(j)' <=> Pending(j))
          /\ \A j \in Key : j = k => ~Pending(j)'
      BY <2>4, <2>5, <2>8, <3>0, PendingAfter DEF k, run
    <3>6. ASSUME NEW j \in Key, j = k PROVE posts[j] \in [Part -> Nat] /\ doubts[j] \in [Part -> Nat]
                                            /\ shown[j] \in SUBSET (Envelope \X Nat)
      BY DEF MInv, MirrorTypeOK
    <3>7. ChatInv
      BY <2>8 DEF MInv
    <3>8. inbox[k].state \notin Settled
      <4>1. inbox[k] = [state |-> "processing", envelope |-> e, updated |-> run.now]
        BY <1>1, <1>2, <2>8 DEF RunOwns, Holding, k, e
      <4> QED BY <4>1 DEF Settled
    <3>9. /\ \A i \in Part : posts[k][i] = 0
          /\ shown[k] = {}
      <4>1. progress[k] = NoProgress
        BY <1>8 DEF row
      <4>2. \A s \in shown[k] : s[1] = NoMessage
        BY <1>2, <3>7, <3>8, <4>1 DEF ChatInv, KeyChat, NoProgress
      <4>3. \A s \in shown[k] : s[1] \in Envelope
        BY <1>2, <3>6
      <4> QED BY <1>2, <3>7, <3>8, <4>1, <4>2, <4>3, EnvelopeAssumption DEF ChatInv, KeyChat
    <3>10. \A i \in Part : doubts[k][i] \in Nat
      BY <1>2, <3>6
    <3>11. ChatInv'
      <4> SUFFICES ASSUME NEW j \in Key
                   PROVE  KeyChat(posts'[j], shown'[j], doubts'[j], inbox'[j].state,
                                  progress'[j], Pending(j)')
        BY DEF ChatInv
      <4>1. CASE j # k
        BY <1>3, <2>3, <3>5, <3>7, <4>1 DEF ChatInv, KeyChat
      <4>2. CASE j = k
        BY <1>3, <3>9, <3>10, <4>2 DEF KeyChat
      <4> QED BY <4>1, <4>2
    <3>12. AckedInv'
      BY <1>3, <2>8 DEF MInv, AckedInv, vars
    <3> QED BY <3>4, <3>11, <3>12
  <2>9. inbox' \in [Key -> InboxRow] /\ doubts' \in [Key -> [Part -> Nat]] /\ crashes' \in Nat /\ losses' \in Nat
    BY <1>3, <1>6 DEF MInv, MirrorTypeOK
  <2> QED BY <1>3, <2>3, <2>4, <2>5, <2>7, <2>8, <2>9, QuietStep
<1>9. CASE /\ row # NoProgress /\ row.envelope = e /\ row.rendering = run.rendering
           /\ Continue(w, row.next) /\ UNCHANGED progress
  <2> DEFINE new == Continued(run, row.next)
  <2>1. \A i \in Part : i <= row.next => posts[k][i] > 0
    <3> SUFFICES ASSUME NEW i \in Part, i <= row.next PROVE posts[k][i] > 0
      OBVIOUS
    <3>1. i <= i
      BY <1>7
    <3> QED BY <1>2, <3>1 DEF MInv, CursorBehindChat, row
  <2>2. row.next > 0 => \E s \in shown[k] : s[1] = e
    BY <1>2, <1>9 DEF MInv, TablesInv, row
  <2> new = Continued(run, row.next)
    OBVIOUS
  <2> HIDE DEF new
  <2>3. /\ new \in Run /\ new.batch = run.batch /\ new.now = run.now
        /\ new.rendering = run.rendering /\ new.next = row.next
        /\ At(new) = k /\ Env(new) = e
        /\ new.pc \in {"send", "finish"}
        /\ RunShape(new) /\ RunKnown(new, posts, shown) /\ RunRight(new, posts, shown, stalled)
    <3> DEFINE n == row.next
    <3>1. n \in 0..MaxMirrorParts /\ new = Continued(run, n)
      BY <1>5
    <3>2. \A i \in Part : i <= n => posts[At(run)][i] > 0
      BY <2>1 DEF k
    <3>3. n > 0 => \E s \in shown[At(run)] : s[1] = Env(run)
      BY <2>2 DEF k, e
    <3> HIDE DEF n
    <3>4. /\ new \in Run /\ new.batch = run.batch /\ new.now = run.now
          /\ new.rendering = run.rendering /\ new.next = n
          /\ At(new) = At(run) /\ Env(new) = Env(run)
          /\ new.pc \in {"send", "finish"}
          /\ RunShape(new) /\ RunKnown(new, posts, shown) /\ RunRight(new, posts, shown, stalled)
      BY <1>2, <3>1, <3>2, <3>3, ContinuedRun
    <3> QED BY <3>4 DEF k, e, n
  <2>4. workers' = [workers EXCEPT ![w] = new]
    BY <1>4, <1>9
  <2>5. ~stalled => RunTimely(new, clock)
    BY <1>1, <1>2, <2>3 DEF RunTimely
  <2>6. ~stalled => RunOwns(new, inbox, progress)
    <3>1. row = [envelope |-> e, rendering |-> run.rendering, next |-> row.next]
      BY <1>5, <1>9 DEF ProgressRow
    <3>2. new.pc \in {"send", "advance"} =>
            progress[At(new)] = [envelope |-> Env(new), rendering |-> new.rendering, next |-> new.next]
      BY <2>3, <3>1 DEF row
    <3>3. ~stalled => inbox[At(new)] = [state |-> "processing", envelope |-> Env(new), updated |-> new.now]
      BY <1>1, <1>2, <2>3 DEF RunOwns, Holding, k, e
    <3> QED BY <2>3, <3>2, <3>3 DEF RunOwns
  <2>7. new.pc # "advance" /\ workers[w].pc # "advance" /\ workers[w].pc \in Owning
    BY <1>1, <2>3 DEF run, Owning, Holding
  <2>8. crashes' \in Nat /\ losses' \in Nat
    BY <1>3, <1>6
  <2> QED BY <1>3, <1>9, <2>3, <2>4, <2>5, <2>6, <2>7, <2>8, OnlyRunStep DEF k, run
<1>10. CASE /\ workers' = [workers EXCEPT ![w].pc = "finish", ![w].outcome = "terminal_failed"]
            /\ UNCHANGED progress
  <2> DEFINE new == [run EXCEPT !.pc = "finish", !.outcome = "terminal_failed"]
  <2>1. /\ new \in Run /\ new.batch = run.batch /\ new.now = run.now
        /\ new.pc = "finish" /\ new.outcome = "terminal_failed"
    BY <1>2 DEF Run, Outcome
  <2>2. workers' = [workers EXCEPT ![w] = new]
    BY <1>2, <1>10 DEF run
  <2> HIDE DEF new
  <2>3. At(new) = k /\ Env(new) = e /\ Known(new) = 0
    BY <2>1 DEF At, Env, Known, k, e
  <2>4. RunShape(new) /\ RunKnown(new, posts, shown) /\ RunRight(new, posts, shown, stalled)
    BY <1>2, <1>7, <2>1, <2>3 DEF RunShape, RunKnown, RunRight, Settled
  <2>5. ~stalled => RunTimely(new, clock)
    BY <1>1, <1>2, <2>1 DEF RunTimely
  <2>6. ~stalled => RunOwns(new, inbox, progress)
    <3>1. ~stalled => inbox[At(new)] = [state |-> "processing", envelope |-> Env(new), updated |-> new.now]
      BY <1>1, <1>2, <2>1, <2>3 DEF RunOwns, Holding, k, e
    <3> QED BY <2>1, <3>1 DEF RunOwns
  <2>7. new.pc # "advance" /\ workers[w].pc # "advance" /\ workers[w].pc \in Owning
    BY <1>1, <2>1 DEF run, Owning, Holding
  <2>8. crashes' \in Nat /\ losses' \in Nat
    BY <1>3, <1>6
  <2> QED BY <1>3, <1>10, <2>1, <2>2, <2>3, <2>4, <2>5, <2>6, <2>7, <2>8, OnlyRunStep DEF k, run
<1> QED BY <1>3, <1>8, <1>9, <1>10

\* What stands in the chat goes on standing there: posts are never withdrawn,
\* and without a stall nothing is added under the key.
LEMMA StandsGrows ==
    ASSUME NEW k, NEW e \in Envelope, Stands(k, e, posts, shown, stalled),
           stalled => stalled',
           \A i \in Part : posts[k][i] > 0 => posts'[k][i] > 0,
           shown'[k] = shown[k] \/ (stalled /\ shown[k] \subseteq shown'[k])
    PROVE  Stands(k, e, posts', shown', stalled')
<1>1. 1..Parts(e) \subseteq Part
  BY PartsType, MirrorAssumption DEF Part
<1>2. CASE shown'[k] = shown[k]
  BY <1>1, <1>2 DEF Stands
<1>3. CASE stalled /\ shown[k] \subseteq shown'[k]
  BY <1>1, <1>3 DEF Stands
<1> QED BY <1>2, <1>3

\* A part is posted: the run learns of it, or it stays in doubt.
LEMMA PostStep ==
    ASSUME MInv, NEW w \in Worker, NEW new \in Run, workers[w].pc = "send",
           workers' = [workers EXCEPT ![w] = new], new.batch = workers[w].batch,
           new.now = workers[w].now, new.rendering = workers[w].rendering,
           new.next = workers[w].next, new.outcome = workers[w].outcome,
           posts' = [posts EXCEPT ![At(workers[w])][workers[w].next + 1] = @ + 1],
           shown' = [shown EXCEPT ![At(workers[w])] =
                        @ \cup {<<Env(workers[w]), workers[w].rendering>>}],
           \/ new.pc = "advance" /\ doubts' = doubts
           \/ /\ new.pc = "release"
              /\ doubts' = [doubts EXCEPT ![At(workers[w])][workers[w].next + 1] = @ + 1],
           UNCHANGED <<vars, inbox, progress, rendering, crashes, stalled>>, losses' \in Nat
    PROVE  MInv'
<1> DEFINE run == workers[w]
           k == At(run)
           e == Env(run)
           n == run.next
           x == <<e, run.rendering>>
<1>1. /\ workers \in [Worker -> Run] /\ run \in Run /\ run.batch # {}
      /\ k \in Key /\ e \in Envelope
      /\ ~stalled => RunTimely(run, clock) /\ RunOwns(run, inbox, progress)
  BY EngagedRun DEF Engaged, Owning, Holding
<1>2. RunShape(run) /\ RunKnown(run, posts, shown)
  BY DEF MInv, RunsInv
<1>3. n \in Nat /\ n + 1 \in Part /\ n < Parts(e)
  <2>1. n \in 0..MaxMirrorParts /\ n < Parts(e)
    BY <1>1, <1>2 DEF Run, RunShape
  <2> QED BY <1>1, <2>1, PartsType, MirrorAssumption DEF Part
<1>4. run.rendering \in Nat
  BY <1>1 DEF Run
<1>5. /\ posts \in [Key -> [Part -> Nat]] /\ doubts \in [Key -> [Part -> Nat]]
      /\ shown \in [Key -> SUBSET (Envelope \X Nat)]
  BY DEF MInv, MirrorTypeOK
<1>6. \A i \in Part : i \in Nat
  BY MirrorAssumption DEF Part
<1> HIDE DEF run, k, e, n
<1>7. /\ posts' \in [Key -> [Part -> Nat]]
      /\ \A j \in Key : j # k => posts'[j] = posts[j]
      /\ \A i \in Part : i # n + 1 => posts'[k][i] = posts[k][i]
      /\ posts'[k][n + 1] = posts[k][n + 1] + 1
  BY <1>1, <1>3, <1>5 DEF run, k, n
<1>8. /\ shown' \in [Key -> SUBSET (Envelope \X Nat)]
      /\ \A j \in Key : j # k => shown'[j] = shown[j]
      /\ shown'[k] = shown[k] \cup {x}
  BY <1>1, <1>4, <1>5 DEF run, k, e
<1>9. /\ doubts' \in [Key -> [Part -> Nat]]
      /\ \A j \in Key : j # k => doubts'[j] = doubts[j]
      /\ \A i \in Part : i # n + 1 => doubts'[k][i] = doubts[k][i]
      /\ \/ new.pc = "advance" /\ doubts'[k][n + 1] = doubts[k][n + 1]
         \/ new.pc = "release" /\ doubts'[k][n + 1] = doubts[k][n + 1] + 1
  <2>1. CASE new.pc = "advance" /\ doubts' = doubts
    BY <1>5, <2>1
  <2>2. CASE new.pc = "release" /\ doubts' = [doubts EXCEPT ![k][n + 1] = @ + 1]
    BY <1>1, <1>3, <1>5, <2>2
  <2> QED BY <2>1, <2>2 DEF run, k, n
<1>10. /\ \A j \in Key, i \in Part : /\ posts[j][i] \in Nat /\ posts'[j][i] \in Nat
                                     /\ doubts[j][i] \in Nat /\ doubts'[j][i] \in Nat
  BY <1>5, <1>7, <1>9
<1>11. \A j \in Key, i \in Part : posts[j][i] > 0 => posts'[j][i] > 0
  BY <1>3, <1>7, <1>10
<1>12. \A j \in Key : shown[j] \subseteq shown'[j]
  BY <1>8
<1>13. /\ workers' \in [Worker -> Run] /\ workers'[w] = new
       /\ \A v \in Worker : v # w => workers'[v] = workers[v]
  BY <1>1, OneRun
<1>14. At(new) = k /\ Env(new) = e /\ new.batch # {} /\ new.next = n
  BY <1>1 DEF At, Env, run, k, e, n
<1>15. ~stalled => inbox[k] = [state |-> "processing", envelope |-> e, updated |-> run.now]
  BY <1>1 DEF RunOwns, Holding, run, k, e
<1>16. ~stalled => inbox[k].state = "processing"
  BY <1>15
<1>17. ASSUME NEW j \in Key, NEW f \in Envelope, Stands(j, f, posts, shown, stalled),
              j = k => stalled
       PROVE  Stands(j, f, posts', shown', stalled')
  <2>1. shown'[j] = shown[j] \/ (stalled /\ shown[j] \subseteq shown'[j])
    BY <1>8, <1>12, <1>17
  <2>2. stalled => stalled'
    OBVIOUS
  <2>3. \A i \in Part : posts[j][i] > 0 => posts'[j][i] > 0
    BY <1>11
  <2> QED BY <1>17, <2>1, <2>2, <2>3, StandsGrows
<1>18. IInv'
  BY BrokerKept DEF MInv
<1>19. MirrorTypeOK'
  BY <1>7, <1>8, <1>9, <1>13 DEF MInv, MirrorTypeOK
<1>20. RunsInv'
  <2>1. ASSUME NEW v \in Worker, v # w
        PROVE  /\ RunShape(workers[v]) /\ RunKnown(workers[v], posts', shown')
               /\ RunRight(workers[v], posts', shown', stalled')
    <3>1. /\ workers[v] \in Run /\ RunShape(workers[v]) /\ RunKnown(workers[v], posts, shown)
          /\ RunRight(workers[v], posts, shown, stalled)
      BY <1>1 DEF MInv, RunsInv
    <3>2. workers[v].pc \in Engaged => At(workers[v]) \in Key /\ Env(workers[v]) \in Envelope
      BY <3>1, HeadClaim DEF RunShape
    <3>3. workers[v].pc \notin Engaged => Known(workers[v]) = 0
      BY DEF Engaged, Owning, Holding, Known
    <3>4. RunKnown(workers[v], posts', shown')
      <4>1. CASE workers[v].pc \in Engaged
        BY <1>11, <1>12, <3>1, <3>2, <4>1 DEF RunKnown
      <4>2. CASE workers[v].pc \notin Engaged
        <5>1. \A i \in Part : ~(i <= 0)
          BY DEF Part
        <5> QED BY <3>3, <4>2, <5>1 DEF RunKnown
      <4> QED BY <4>1, <4>2
    <3>5. RunRight(workers[v], posts', shown', stalled')
      <4> SUFFICES ASSUME workers[v].pc \in {"clear", "ack"}, workers[v].outcome = "processed"
                   PROVE  Stands(At(workers[v]), Env(workers[v]), posts', shown', stalled')
        BY DEF RunRight
      <4>1. Stands(At(workers[v]), Env(workers[v]), posts, shown, stalled)
        BY <3>1 DEF RunRight
      <4>2. At(workers[v]) \in Key /\ Env(workers[v]) \in Envelope
        BY <3>2 DEF Engaged, Owning
      <4>3. ~stalled => RunOwns(workers[v], inbox, progress)
        BY DEF MInv, OwnersInv
      <4>4. ~stalled => inbox[At(workers[v])].state = "processed"
        BY <4>3 DEF RunOwns, Settled
      <4>5. At(workers[v]) = k => stalled
        BY <1>16, <4>4
      <4> QED BY <1>17, <4>1, <4>2, <4>5
    <3> QED BY <3>1, <3>4, <3>5
  <2>2. RunShape(new) /\ RunKnown(new, posts', shown') /\ RunRight(new, posts', shown', stalled')
    <3>1. RunShape(new) /\ RunRight(new, posts', shown', stalled')
      BY <1>3, <1>9, <1>14 DEF RunShape, RunRight
    <3>2. Known(run) = n
      BY DEF Known, run, n
    <3>3. ASSUME NEW i \in Part, i <= n + 1 PROVE posts'[k][i] > 0
      <4>1. CASE i = n + 1
        BY <1>1, <1>3, <1>7, <1>10, <4>1
      <4>2. CASE i # n + 1
        <5>1. i <= n
          BY <1>3, <1>6, <3>3, <4>2
        <5>2. posts[k][i] > 0
          BY <1>2, <3>2, <5>1 DEF RunKnown, k
        <5> QED BY <1>1, <1>11, <5>2
      <4> QED BY <4>1, <4>2
    <3>4. x \in shown'[k] /\ x[1] = e
      BY <1>8
    <3>5. Known(new) = n + 1 \/ Known(new) = 0
      BY <1>9, <1>14 DEF Known
    <3>6. \A i \in Part : i <= Known(new) => i <= n + 1
      BY <1>3, <1>6, <3>5
    <3>7. RunKnown(new, posts', shown')
      BY <1>14, <3>3, <3>4, <3>6 DEF RunKnown
    <3> QED BY <3>1, <3>7
  <2>3. ASSUME NEW v \in Worker
        PROVE  /\ RunShape(workers'[v]) /\ RunKnown(workers'[v], posts', shown')
               /\ RunRight(workers'[v], posts', shown', stalled')
    BY <1>13, <2>1, <2>2
  <2> QED BY <2>3 DEF RunsInv
<1>21. TablesInv'
  <2> SUFFICES ASSUME NEW j \in Key
               PROVE  /\ progress[j].next > 0 => \E s \in shown'[j] : s[1] = progress[j].envelope
                      /\ inbox[j].state = "processed" =>
                            Stands(j, inbox[j].envelope, posts', shown', stalled')
    BY DEF MInv, TablesInv
  <2>1. progress[j].next > 0 => \E s \in shown'[j] : s[1] = progress[j].envelope
    BY <1>12 DEF MInv, TablesInv
  <2>2. ASSUME inbox[j].state = "processed"
        PROVE  Stands(j, inbox[j].envelope, posts', shown', stalled')
    <3>1. Stands(j, inbox[j].envelope, posts, shown, stalled)
      BY <2>2 DEF MInv, TablesInv
    <3>2. j = k => stalled
      BY <1>16, <2>2
    <3>3. inbox[j].envelope \in Envelope
      BY <2>2 DEF MInv, TablesInv
    <3> QED BY <1>17, <3>1, <3>2, <3>3
  <2> QED BY <2>1, <2>2
<1>22. CursorBehindChat'
  <2> SUFFICES ASSUME NEW j \in Key, NEW i \in Part, NEW m \in Part, i <= m,
                      m <= progress[j].next \/ posts'[j][m] > 0
               PROVE  posts'[j][i] > 0
    BY DEF CursorBehindChat
  <2>1. CASE m <= progress[j].next \/ posts[j][m] > 0
    BY <1>11, <2>1 DEF MInv, CursorBehindChat
  <2>2. CASE j = k /\ m = n + 1
    <3>1. CASE i = n + 1
      BY <1>1, <1>3, <1>7, <1>10, <2>2, <3>1
    <3>2. CASE i # n + 1
      <4>1. i <= n /\ Known(run) = n
        BY <1>3, <1>6, <2>2, <3>2 DEF Known, run, n
      <4>2. posts[k][i] > 0
        BY <1>2, <4>1 DEF RunKnown, k
      <4> QED BY <1>11, <2>2, <4>2
    <3> QED BY <3>1, <3>2
  <2>3. CASE ~(j = k /\ m = n + 1)
    <3>1. posts'[j][m] = posts[j][m]
      BY <1>7, <2>3
    <3> QED BY <2>1, <3>1
  <2> QED BY <2>2, <2>3
<1>23. AcknowledgedIsWhole'
  <2> SUFFICES ASSUME NEW j \in Key, deliveries[<<j, Me>>].state = "acknowledged"
               PROVE  Stands(j, messages[j], posts', shown', stalled')
    BY DEF AcknowledgedIsWhole, StandsInChat, Stands, vars
  <2>1. Stands(j, messages[j], posts, shown, stalled)
    BY StandsIs DEF MInv, AcknowledgedIsWhole
  <2>2. messages[j] \in Envelope
    BY PollingAssumption DEF MInv, IInv, RowsInv, TypeOK, DeliveryId
  <2>3. j = k => stalled
    BY <1>16 DEF MInv, AckedInv
  <2> QED BY <1>17, <2>1, <2>2, <2>3
<1>24. ASSUME ~stalled PROVE OwnersInv' /\ ChatInv' /\ AckedInv'
  <2>0. workers[w].pc \in Owning /\ run = workers[w]
    BY DEF Owning, Holding, run
  <2>1. progress[k] = [envelope |-> e, rendering |-> run.rendering, next |-> n]
    BY <1>1, <1>24 DEF RunOwns, run, k, e, n
  <2>2. OwnersInv'
    <3>1. \A v \in Worker : RunOwns(workers[v], inbox', progress')
      BY <1>24 DEF MInv, OwnersInv
    <3>2. \A v \in Worker : v # w => Apart(new, workers[v])
      BY <1>14, <1>24, <2>0, StaysApart DEF k
    <3>3. RunTimely(new, clock) /\ clock' = clock
      BY <1>1, <1>24 DEF RunTimely, vars, run
    <3>4. RunOwns(new, inbox', progress')
      <4>1. inbox'[At(new)] = [state |-> "processing", envelope |-> Env(new), updated |-> new.now]
        BY <1>14, <1>15, <1>24 DEF run
      <4>2. progress'[At(new)] = [envelope |-> Env(new), rendering |-> new.rendering, next |-> new.next]
        BY <1>14, <2>1 DEF run
      <4> QED BY <1>9, <4>1, <4>2 DEF RunOwns
    <3> QED BY <1>24, <3>1, <3>2, <3>3, <3>4, OwnersAfter
  <2>3. /\ \A j \in Key : j # k => (Pending(j)' <=> Pending(j))
        /\ ~Pending(k)
        /\ \A j \in Key : j = k => (Pending(j)' <=> new.pc = "advance")
    BY <1>14, <1>24, <2>0, PendingAfter DEF k
  <2>4. ChatInv
    BY <1>24 DEF MInv
  <2>5. /\ progress[k].next = n /\ progress[k].envelope = e
        /\ progress[k].rendering = run.rendering /\ progress[k] # NoProgress
    BY <1>1, <2>1, EnvelopeAssumption DEF NoProgress
  <2>6. posts[k][n + 1] <= doubts[k][n + 1]
    <3>1. n + 1 > n
      BY <1>3
    <3> QED BY <1>1, <1>3, <1>16, <1>24, <2>3, <2>4, <2>5, <3>1 DEF ChatInv, KeyChat, Settled
  <2>7. \A s \in shown'[k] : s = x
    BY <1>1, <1>8, <1>16, <1>24, <2>4, <2>5 DEF ChatInv, KeyChat, Settled
  <2>8. ASSUME NEW i \in Part
        PROVE  /\ posts'[k][i] <= 1 + doubts'[k][i]
               /\ i > n /\ (i = n + 1 => new.pc # "advance") => posts'[k][i] <= doubts'[k][i]
    <3>1. CASE i = n + 1
      BY <1>1, <1>3, <1>7, <1>9, <1>10, <2>6, <3>1
    <3>2. CASE i # n + 1
      <4>1. posts'[k][i] = posts[k][i] /\ doubts'[k][i] = doubts[k][i]
        BY <1>7, <1>9, <3>2
      <4>2. posts[k][i] <= 1 + doubts[k][i]
        BY <1>1, <2>4 DEF ChatInv, KeyChat
      <4>3. i > n => posts[k][i] <= doubts[k][i]
        BY <1>1, <1>16, <1>24, <2>4, <2>5, <3>2 DEF ChatInv, KeyChat, Settled
      <4> QED BY <4>1, <4>2, <4>3
    <3> QED BY <3>1, <3>2
  <2>9. ChatInv'
    <3> SUFFICES ASSUME NEW j \in Key
                 PROVE  KeyChat(posts'[j], shown'[j], doubts'[j], inbox'[j].state,
                                progress'[j], Pending(j)')
      BY DEF ChatInv
    <3>1. CASE j # k
      BY <1>7, <1>8, <1>9, <2>3, <2>4, <3>1 DEF ChatInv, KeyChat
    <3>2. CASE j = k
      BY <2>3, <2>5, <2>7, <2>8, <3>2 DEF KeyChat
    <3> QED BY <3>1, <3>2
  <2>10. AckedInv'
    BY <1>24 DEF MInv, AckedInv, vars
  <2> QED BY <2>2, <2>9, <2>10
<1> QED BY <1>18, <1>19, <1>20, <1>21, <1>22, <1>23, <1>24 DEF MInv

\* telegram.send_rendered
LEMMA SendStep ==
    ASSUME MInv, NEW w \in Worker, Send(w)
    PROVE  MInv'
<1> DEFINE run == workers[w]
           k == At(run)
           e == Env(run)
<1>1. run.pc = "send"
  BY DEF Send
<1>2. /\ workers \in [Worker -> Run] /\ run \in Run /\ run.batch # {}
      /\ k \in Key /\ e \in Envelope
      /\ Head1(w).key = k /\ Head1(w).envelope = e
      /\ ~stalled => RunTimely(run, clock) /\ RunOwns(run, inbox, progress)
  BY <1>1, EngagedRun DEF Engaged, Owning, Holding
<1> DEFINE posted == /\ posts' = [posts EXCEPT ![k][run.next + 1] = @ + 1]
                     /\ shown' = [shown EXCEPT ![k] = @ \cup {<<e, run.rendering>>}]
           doubted == doubts' = [doubts EXCEPT ![k][run.next + 1] = @ + 1]
<1>3. /\ UNCHANGED <<vars, inbox, progress, rendering, crashes, stalled>>
      /\ \/ /\ posted /\ workers' = [workers EXCEPT ![w].pc = "advance"]
            /\ UNCHANGED <<doubts, losses>>
         \/ /\ losses' = losses + 1 /\ workers' = [workers EXCEPT ![w].pc = "release"]
            /\ \/ UNCHANGED <<posts, shown, doubts>>
               \/ posted /\ doubted
  BY <1>2 DEF Send, Posted, Doubted
<1>4. crashes \in Nat /\ losses \in Nat
  BY DEF MInv, MirrorTypeOK
<1>5. ASSUME NEW p \in {"advance", "release"}
      PROVE  LET new == [run EXCEPT !.pc = p]
             IN  /\ new \in Run /\ new.pc = p /\ new.batch = run.batch /\ new.now = run.now
                 /\ new.rendering = run.rendering /\ new.next = run.next
                 /\ new.outcome = run.outcome
                 /\ [workers EXCEPT ![w].pc = p] = [workers EXCEPT ![w] = new]
  BY <1>2 DEF Run
<1>6. CASE /\ posted /\ workers' = [workers EXCEPT ![w].pc = "advance"]
           /\ UNCHANGED <<doubts, losses>>
  <2> DEFINE new == [run EXCEPT !.pc = "advance"]
  <2>1. /\ new \in Run /\ new.pc = "advance" /\ new.batch = run.batch /\ new.now = run.now
        /\ new.rendering = run.rendering /\ new.next = run.next /\ new.outcome = run.outcome
        /\ workers' = [workers EXCEPT ![w] = new]
    BY <1>5, <1>6
  <2> HIDE DEF new
  <2>2. losses' \in Nat /\ doubts' = doubts
    BY <1>4, <1>6
  <2> QED BY <1>1, <1>3, <1>6, <2>1, <2>2, PostStep
<1>7. CASE /\ losses' = losses + 1 /\ workers' = [workers EXCEPT ![w].pc = "release"]
           /\ posted /\ doubted
  <2> DEFINE new == [run EXCEPT !.pc = "release"]
  <2>1. /\ new \in Run /\ new.pc = "release" /\ new.batch = run.batch /\ new.now = run.now
        /\ new.rendering = run.rendering /\ new.next = run.next /\ new.outcome = run.outcome
        /\ workers' = [workers EXCEPT ![w] = new]
    BY <1>5, <1>7
  <2> HIDE DEF new
  <2>2. losses' \in Nat
    BY <1>4, <1>7
  <2> QED BY <1>1, <1>3, <1>7, <2>1, <2>2, PostStep
<1>8. CASE /\ losses' = losses + 1 /\ workers' = [workers EXCEPT ![w].pc = "release"]
           /\ UNCHANGED <<posts, shown, doubts>>
  <2> DEFINE new == [run EXCEPT !.pc = "release"]
  <2>1. /\ new \in Run /\ new.pc = "release" /\ new.batch = run.batch /\ new.now = run.now
        /\ workers' = [workers EXCEPT ![w] = new]
    BY <1>5, <1>8
  <2> HIDE DEF new
  <2>2. losses' \in Nat /\ crashes' \in Nat
    BY <1>3, <1>4, <1>8
  <2>3. At(new) = k /\ Env(new) = e /\ Known(new) = 0
    BY <2>1 DEF At, Env, Known
  <2>4. \A i \in Part : ~(i <= 0)
    BY DEF Part
  <2>5. RunShape(new) /\ RunKnown(new, posts, shown) /\ RunRight(new, posts, shown, stalled)
    BY <1>2, <2>1, <2>3, <2>4 DEF RunShape, RunKnown, RunRight
  <2>6. ~stalled => RunTimely(new, clock)
    BY <1>1, <1>2, <2>1 DEF RunTimely
  <2>7. ~stalled => RunOwns(new, inbox, progress)
    <3>1. ~stalled => inbox[At(new)] = [state |-> "processing", envelope |-> Env(new), updated |-> new.now]
      BY <1>1, <1>2, <2>1, <2>3 DEF RunOwns, Holding
    <3> QED BY <2>1, <3>1 DEF RunOwns
  <2>8. new.pc # "advance" /\ workers[w].pc # "advance" /\ workers[w].pc \in Owning
    BY <1>1, <2>1 DEF Owning, Holding
  <2> QED BY <1>3, <1>8, <2>1, <2>2, <2>3, <2>5, <2>6, <2>7, <2>8, OnlyRunStep
<1> QED BY <1>3, <1>6, <1>7, <1>8

\* A posted part is given up on: its run does not record it.
LEMMA DoubtStep ==
    ASSUME MInv, NEW w \in Worker, NEW new \in Run, workers[w].pc = "advance",
           workers' = [workers EXCEPT ![w] = new],
           \/ new = Resting
           \/ new.pc = "release" /\ new.batch = workers[w].batch /\ new.now = workers[w].now,
           doubts' = [doubts EXCEPT ![At(workers[w])][workers[w].next + 1] = @ + 1],
           UNCHANGED <<vars, inbox, progress, posts, shown, rendering, stalled>>,
           crashes' \in Nat, losses' \in Nat
    PROVE  MInv'
<1> DEFINE run == workers[w]
           k == At(run)
           e == Env(run)
           n == run.next
<1>1. /\ workers \in [Worker -> Run] /\ run \in Run /\ run.batch # {}
      /\ k \in Key /\ e \in Envelope
      /\ ~stalled => RunTimely(run, clock) /\ RunOwns(run, inbox, progress)
  BY EngagedRun DEF Engaged, Owning, Holding
<1>2. RunShape(run)
  BY DEF MInv, RunsInv
<1>3. n \in Nat /\ n + 1 \in Part
  <2>1. n \in 0..MaxMirrorParts /\ n < Parts(e)
    BY <1>1, <1>2 DEF Run, RunShape
  <2> QED BY <1>1, <2>1, PartsType, MirrorAssumption DEF Part
<1>4. /\ doubts \in [Key -> [Part -> Nat]] /\ posts \in [Key -> [Part -> Nat]]
      /\ inbox' \in [Key -> InboxRow] /\ progress' \in [Key -> ProgressRow]
  BY DEF MInv, MirrorTypeOK
<1>5. \A i \in Part : i \in Nat /\ ~(i <= 0)
  BY MirrorAssumption DEF Part
<1> HIDE DEF run, k, e, n
<1>6. /\ doubts' \in [Key -> [Part -> Nat]]
      /\ \A j \in Key : j # k => doubts'[j] = doubts[j]
      /\ \A i \in Part : i # n + 1 => doubts'[k][i] = doubts[k][i]
      /\ doubts'[k][n + 1] = doubts[k][n + 1] + 1
  BY <1>1, <1>3, <1>4 DEF run, k, n
<1>7. \A i \in Part : doubts[k][i] \in Nat /\ doubts'[k][i] \in Nat /\ posts[k][i] \in Nat
  BY <1>1, <1>4, <1>6
<1>8. /\ RunShape(new) /\ RunKnown(new, posts, shown) /\ RunRight(new, posts, shown, stalled)
      /\ new.pc # "advance" /\ (new.pc \in Owning => At(new) = k)
      /\ ~stalled => RunTimely(new, clock) /\ RunOwns(new, inbox, progress)
  <2>1. CASE new = Resting
    <3>1. new.pc \notin Owning /\ new.pc # "advance"
      BY <2>1, RestingRun DEF Owning, Holding
    <3> QED BY <2>1, <3>1, RestingRun
  <2>2. CASE new.pc = "release" /\ new.batch = run.batch /\ new.now = run.now
    <3>1. At(new) = k /\ Env(new) = e /\ Known(new) = 0
      BY <2>2 DEF At, Env, Known, k, e
    <3>2. RunShape(new) /\ RunKnown(new, posts, shown) /\ RunRight(new, posts, shown, stalled)
      BY <1>1, <1>5, <2>2, <3>1 DEF RunShape, RunKnown, RunRight
    <3>3. ~stalled => RunTimely(new, clock)
      BY <1>1, <2>2 DEF RunTimely, run
    <3>4. ~stalled => inbox[At(new)] = [state |-> "processing", envelope |-> Env(new), updated |-> new.now]
      BY <1>1, <2>2, <3>1 DEF RunOwns, Holding, k, e, run
    <3>5. ~stalled => RunOwns(new, inbox, progress)
      BY <2>2, <3>4 DEF RunOwns
    <3> QED BY <2>2, <3>1, <3>2, <3>3, <3>5
  <2> QED BY <2>1, <2>2 DEF run
<1>9. TablesInv' /\ CursorBehindChat'
  BY DEF MInv, TablesInv, CursorBehindChat
<1>10. ASSUME ~stalled PROVE OwnersInv' /\ ChatInv' /\ AckedInv'
  <2>0. workers[w].pc \in Owning
    BY DEF Owning, Holding
  <2>1. OwnersInv'
    <3>1. \A v \in Worker : RunOwns(workers[v], inbox', progress')
      BY <1>10 DEF MInv, OwnersInv
    <3>2. \A v \in Worker : v # w => Apart(new, workers[v])
      BY <1>8, <1>10, <2>0, StaysApart DEF k, run
    <3>3. clock' = clock /\ RunTimely(new, clock) /\ RunOwns(new, inbox', progress')
      BY <1>8, <1>10 DEF vars
    <3> QED BY <1>10, <3>1, <3>2, <3>3, OwnersAfter
  <2>2. /\ \A j \in Key : j # k => (Pending(j)' <=> Pending(j))
        /\ \A j \in Key : j = k => ~Pending(j)'
    BY <1>8, <1>10, <2>0, PendingAfter DEF k, run
  <2>3. ChatInv
    BY <1>10 DEF MInv
  <2>4. progress[k] = [envelope |-> e, rendering |-> run.rendering, next |-> n]
    BY <1>1, <1>10 DEF RunOwns, run, k, e, n
  <2>5. progress[k].next = n
    BY <2>4
  <2>6. ASSUME NEW i \in Part
        PROVE  /\ posts[k][i] <= 1 + doubts'[k][i]
               /\ inbox[k].state \notin Settled /\ i > n => posts[k][i] <= doubts'[k][i]
    <3>1. posts[k][i] <= 1 + doubts[k][i]
      BY <1>1, <2>3 DEF ChatInv, KeyChat
    <3>2. CASE i = n + 1
      BY <1>6, <1>7, <3>1, <3>2
    <3>3. CASE i # n + 1
      <4>1. doubts'[k][i] = doubts[k][i]
        BY <1>6, <3>3
      <4>2. inbox[k].state \notin Settled /\ i > n => posts[k][i] <= doubts[k][i]
        BY <1>1, <2>3, <2>5, <3>3 DEF ChatInv, KeyChat
      <4> QED BY <3>1, <4>1, <4>2
    <3> QED BY <3>2, <3>3
  <2>7. ChatInv'
    <3> SUFFICES ASSUME NEW j \in Key
                 PROVE  KeyChat(posts'[j], shown'[j], doubts'[j], inbox'[j].state,
                                progress'[j], Pending(j)')
      BY DEF ChatInv
    <3>1. CASE j # k
      BY <1>6, <2>2, <2>3, <3>1 DEF ChatInv, KeyChat
    <3>2. CASE j = k
      <4>1. \A s, t \in shown[j] : s = t
        BY <2>3 DEF ChatInv, KeyChat
      <4>2. inbox[j].state \notin Settled =>
              /\ progress[j] = NoProgress => \A i \in Part : posts[j][i] = 0
              /\ \A s \in shown[j] : s = <<progress[j].envelope, progress[j].rendering>>
        BY <2>3 DEF ChatInv, KeyChat
      <4> QED BY <2>2, <2>5, <2>6, <3>2, <4>1, <4>2 DEF KeyChat
    <3> QED BY <3>1, <3>2
  <2>8. AckedInv'
    BY <1>10 DEF MInv, AckedInv, vars
  <2> QED BY <2>1, <2>7, <2>8
<1> QED BY <1>4, <1>6, <1>8, <1>9, <1>10, QuietStep

\* progress.advance
LEMMA AdvanceStep ==
    ASSUME MInv, NEW w \in Worker, Advance(w)
    PROVE  MInv'
<1> DEFINE run == workers[w]
           k == At(run)
           e == Env(run)
           n == run.next
           row == progress[k]
           new == Continued(run, n + 1)
           next == [row EXCEPT !.next = n + 1]
<1>1. run.pc = "advance"
  BY DEF Advance
<1>2. /\ workers \in [Worker -> Run] /\ run \in Run /\ run.batch # {}
      /\ k \in Key /\ e \in Envelope
      /\ Head1(w).key = k /\ Head1(w).envelope = e
      /\ ~stalled => RunTimely(run, clock) /\ RunOwns(run, inbox, progress)
  BY <1>1, EngagedRun DEF Engaged, Owning, Holding
<1>3. /\ row # NoProgress /\ row.envelope = e /\ row.rendering = run.rendering /\ row.next = n
      /\ progress' = [progress EXCEPT ![k].next = @ + 1]
      /\ Continue(w, n + 1)
      /\ UNCHANGED <<vars, inbox, rendering, posts, shown, doubts, crashes, losses, stalled>>
  BY <1>2 DEF Advance, CursorMatches, SameRendering
<1>4. workers' = [workers EXCEPT ![w] = new]
  BY <1>2, <1>3 DEF Continue, Continued
<1>5. RunShape(run) /\ RunKnown(run, posts, shown)
  BY DEF MInv, RunsInv
<1>6. n \in Nat /\ n + 1 \in 0..MaxMirrorParts /\ n + 1 > 0
  <2>1. n \in 0..MaxMirrorParts /\ n < Parts(e)
    BY <1>1, <1>2, <1>5 DEF Run, RunShape
  <2> QED BY <1>2, <2>1, PartsType, MirrorAssumption
<1>7. row \in ProgressRow /\ progress \in [Key -> ProgressRow] /\ inbox \in [Key -> InboxRow]
      /\ doubts \in [Key -> [Part -> Nat]] /\ crashes \in Nat /\ losses \in Nat
  BY <1>2 DEF MInv, MirrorTypeOK
<1>8. /\ next \in ProgressRow /\ next.next = n + 1 /\ next.envelope = e
      /\ next.rendering = run.rendering
  BY <1>3, <1>6, <1>7 DEF ProgressRow
<1>9. progress' = [progress EXCEPT ![k] = next]
  BY <1>2, <1>3, <1>7
<1>10. next = [envelope |-> e, rendering |-> run.rendering, next |-> n + 1]
  BY <1>8 DEF ProgressRow
<1> HIDE DEF next
<1>11. /\ progress' \in [Key -> ProgressRow] /\ progress'[k] = next
       /\ \A j \in Key : j # k => progress'[j] = progress[j]
  BY <1>2, <1>7, <1>8, <1>9
<1>12. /\ \A i \in Part : i <= n + 1 => posts[k][i] > 0
       /\ \E s \in shown[k] : s[1] = e
  <2>1. Known(run) = n + 1
    BY <1>1 DEF Known
  <2> QED BY <1>5, <1>6, <2>1 DEF RunKnown
<1>13. /\ new \in Run /\ new.batch = run.batch /\ new.now = run.now
       /\ new.rendering = run.rendering /\ new.next = n + 1
       /\ At(new) = k /\ Env(new) = e
       /\ new.pc \in {"send", "finish"}
       /\ RunShape(new) /\ RunKnown(new, posts, shown) /\ RunRight(new, posts, shown, stalled)
  <2> DEFINE m == n + 1
  <2>1. /\ m \in 0..MaxMirrorParts /\ new = Continued(run, m)
        /\ \A i \in Part : i <= m => posts[At(run)][i] > 0
        /\ m > 0 => \E s \in shown[At(run)] : s[1] = Env(run)
    BY <1>6, <1>12
  <2> HIDE DEF m, new, run
  <2>2. /\ new \in Run /\ new.batch = run.batch /\ new.now = run.now
        /\ new.rendering = run.rendering /\ new.next = m
        /\ At(new) = At(run) /\ Env(new) = Env(run)
        /\ new.pc \in {"send", "finish"}
        /\ RunShape(new) /\ RunKnown(new, posts, shown) /\ RunRight(new, posts, shown, stalled)
    BY <1>2, <2>1, ContinuedRun
  <2> QED BY <2>2 DEF m
<1> HIDE DEF run, k, e, n, row, new
<1>14. \A i \in Part : i \in Nat
  BY MirrorAssumption DEF Part
<1>15. TablesInv'
  BY <1>3, <1>8, <1>11, <1>12 DEF MInv, TablesInv
<1>16. CursorBehindChat'
  <2> SUFFICES ASSUME NEW j \in Key, NEW i \in Part, NEW m \in Part, i <= m,
                      m <= progress'[j].next \/ posts[j][m] > 0
               PROVE  posts[j][i] > 0
    BY <1>3 DEF CursorBehindChat
  <2>1. CASE m <= progress[j].next \/ posts[j][m] > 0
    BY <2>1 DEF MInv, CursorBehindChat
  <2>2. CASE j = k /\ m <= n + 1
    <3>1. i <= n + 1
      BY <1>6, <1>14, <2>2
    <3> QED BY <1>12, <2>2, <3>1
  <2> QED BY <1>8, <1>11, <2>1, <2>2
<1>17. ASSUME ~stalled PROVE OwnersInv' /\ ChatInv' /\ AckedInv'
  <2>0. workers[w].pc \in Owning /\ workers[w].pc = "advance" /\ new.pc # "advance"
    BY <1>1, <1>13 DEF Owning, Holding, run
  <2>1. inbox[k] = [state |-> "processing", envelope |-> e, updated |-> run.now]
    BY <1>1, <1>2, <1>17 DEF RunOwns, Holding, k, e
  <2>2. OwnersInv'
    <3>1. \A v \in Worker : v # w => RunOwns(workers[v], inbox', progress')
      BY <1>3, <1>11, <1>17, <2>0, OthersOwn DEF k, run
    <3>2. \A v \in Worker : v # w => Apart(new, workers[v])
      BY <1>13, <1>17, <2>0, StaysApart DEF k, run
    <3>3. RunTimely(new, clock) /\ clock' = clock
      BY <1>1, <1>2, <1>3, <1>13, <1>17 DEF RunTimely, vars
    <3>4. RunOwns(new, inbox', progress')
      <4>1. inbox'[At(new)] = [state |-> "processing", envelope |-> Env(new), updated |-> new.now]
        BY <1>3, <1>13, <2>1
      <4>2. progress'[At(new)] = [envelope |-> Env(new), rendering |-> new.rendering, next |-> new.next]
        BY <1>10, <1>11, <1>13
      <4> QED BY <1>13, <4>1, <4>2 DEF RunOwns
    <3> QED BY <1>4, <1>13, <1>17, <3>1, <3>2, <3>3, <3>4, OwnersAfter
  <2>3. /\ \A j \in Key : j # k => (Pending(j)' <=> Pending(j))
        /\ \A j \in Key : j = k => ~Pending(j)'
    BY <1>4, <1>13, <1>17, <2>0, PendingAfter DEF k, run
  <2>4. ChatInv
    BY <1>17 DEF MInv
  <2>5. inbox[k].state \notin Settled
    BY <2>1 DEF Settled
  <2>6. KeyChat(posts[k], shown[k], doubts[k], inbox[k].state, progress[k], Pending(k))
    BY <1>2, <2>4 DEF ChatInv
  <2>7. ASSUME NEW i \in Part, i > n + 1 PROVE posts[k][i] <= doubts[k][i]
    <3>1. i > n /\ i # n + 1
      BY <1>6, <1>14, <2>7
    <3> QED BY <1>3, <2>5, <2>6, <3>1 DEF KeyChat, row
  <2>8. next # NoProgress
    BY <1>2, <1>8, EnvelopeAssumption DEF NoProgress
  <2>9. KeyChat(posts[k], shown[k], doubts[k], inbox[k].state, next, FALSE)
    BY <1>3, <1>8, <2>5, <2>6, <2>7, <2>8 DEF KeyChat, row
  <2>10. ASSUME NEW j \in Key
         PROVE  KeyChat(posts'[j], shown'[j], doubts'[j], inbox'[j].state, progress'[j], Pending(j)')
    <3>1. CASE j # k
      BY <1>3, <1>11, <2>3, <2>4, <3>1 DEF ChatInv, KeyChat
    <3>2. CASE j = k
      BY <1>3, <1>11, <2>3, <2>9, <3>2 DEF KeyChat
    <3> QED BY <3>1, <3>2
  <2>11. ChatInv'
    BY <2>10 DEF ChatInv
  <2>12. AckedInv'
    BY <1>3, <1>17 DEF MInv, AckedInv, vars
  <2> QED BY <2>2, <2>11, <2>12
<1>18. /\ inbox' \in [Key -> InboxRow] /\ doubts' \in [Key -> [Part -> Nat]]
       /\ crashes' \in Nat /\ losses' \in Nat
  BY <1>3, <1>7
<1> QED BY <1>3, <1>4, <1>11, <1>13, <1>15, <1>16, <1>17, <1>18, QuietStep

\* mirror_progress_ambiguous
LEMMA AdvanceFailedStep ==
    ASSUME MInv, NEW w \in Worker, AdvanceFailed(w)
    PROVE  MInv'
<1> DEFINE run == workers[w]
           new == [run EXCEPT !.pc = "release"]
<1>1. run.pc = "advance"
  BY DEF AdvanceFailed
<1>2. workers \in [Worker -> Run] /\ run \in Run /\ Head1(w).key = At(run)
  BY <1>1, EngagedRun DEF Engaged, Owning, Holding
<1>3. /\ workers' = [workers EXCEPT ![w] = new]
      /\ doubts' = [doubts EXCEPT ![At(run)][run.next + 1] = @ + 1]
      /\ UNCHANGED <<vars, inbox, progress, rendering, posts, shown, crashes, stalled>>
      /\ losses' \in Nat /\ crashes' \in Nat
  BY <1>2 DEF AdvanceFailed, Doubted, MInv, MirrorTypeOK
<1>4. new \in Run /\ new.pc = "release" /\ new.batch = run.batch /\ new.now = run.now
  BY <1>2 DEF Run
<1> HIDE DEF new
<1> QED BY <1>1, <1>3, <1>4, DoubtStep

\* A run dies.
LEMMA CrashStep ==
    ASSUME MInv, NEW w \in Worker, Crash(w)
    PROVE  MInv'
<1>1. /\ workers' = [workers EXCEPT ![w] = Resting]
      /\ UNCHANGED <<vars, inbox, progress, rendering, posts, shown, losses, stalled>>
      /\ crashes' \in Nat /\ losses' \in Nat
      /\ IF workers[w].pc = "advance" THEN Doubted(w) ELSE UNCHANGED doubts
  BY DEF Crash, MInv, MirrorTypeOK
<1>2. CASE workers[w].pc = "advance"
  <2>1. Head1(w).key = At(workers[w])
    BY <1>2, EngagedRun DEF Engaged, Owning, Holding
  <2>2. doubts' = [doubts EXCEPT ![At(workers[w])][workers[w].next + 1] = @ + 1]
    BY <1>1, <1>2, <2>1 DEF Doubted
  <2> QED BY <1>1, <1>2, <2>2, RestingRun, DoubtStep
<1>3. CASE workers[w].pc # "advance"
  BY <1>1, <1>3, AbortStep DEF Abort
<1> QED BY <1>2, <1>3

\* store.finish
LEMMA FinishStep ==
    ASSUME MInv, NEW w \in Worker, Finish(w)
    PROVE  MInv'
<1> DEFINE run == workers[w]
           k == At(run)
           e == Env(run)
           new == [run EXCEPT !.pc = "clear"]
           done == [inbox[k] EXCEPT !.state = run.outcome, !.updated = run.now]
<1>1. run.pc = "finish"
  BY DEF Finish
<1>2. /\ workers \in [Worker -> Run] /\ run \in Run /\ run.batch # {}
      /\ k \in Key /\ e \in Envelope
      /\ Head1(w).key = k /\ Head1(w).envelope = e
      /\ ~stalled => RunTimely(run, clock) /\ RunOwns(run, inbox, progress)
  BY <1>1, EngagedRun DEF Engaged, Owning, Holding
<1>3. /\ UNCHANGED <<vars, progress, rendering, posts, shown, doubts, crashes, losses, stalled>>
      /\ \/ /\ inbox[k].state # "none"
            /\ inbox' = [inbox EXCEPT ![k].state = run.outcome, ![k].updated = run.now]
            /\ workers' = [workers EXCEPT ![w].pc = "clear"]
         \/ Abort(w) /\ UNCHANGED inbox
  BY <1>2 DEF Finish, InboxFinish
<1>4. /\ inbox \in [Key -> InboxRow] /\ crashes' \in Nat /\ losses' \in Nat
      /\ progress' \in [Key -> ProgressRow] /\ doubts' \in [Key -> [Part -> Nat]]
      /\ shown[k] \in SUBSET (Envelope \X Nat)
  BY <1>2, <1>3 DEF MInv, MirrorTypeOK
<1>5. RunShape(run) /\ RunKnown(run, posts, shown)
  BY DEF MInv, RunsInv
<1>6. CASE Abort(w) /\ UNCHANGED inbox
  BY <1>1, <1>3, <1>4, <1>6, AbortStep
<1>7. CASE /\ inbox[k].state # "none"
           /\ inbox' = [inbox EXCEPT ![k].state = run.outcome, ![k].updated = run.now]
           /\ workers' = [workers EXCEPT ![w].pc = "clear"]
  <2>1. /\ new \in Run /\ new.pc = "clear" /\ new.outcome = run.outcome
        /\ new.batch = run.batch /\ new.now = run.now
        /\ workers' = [workers EXCEPT ![w] = new]
    BY <1>2, <1>7 DEF Run
  <2>2. run.outcome \in Settled
    BY <1>1, <1>5 DEF RunShape
  <2>3. /\ done \in InboxRow /\ done.state = run.outcome /\ done.envelope = inbox[k].envelope
        /\ inbox' = [inbox EXCEPT ![k] = done]
    <3>1. inbox[k] \in InboxRow /\ run.now \in Nat
          /\ run.outcome \in {"none", "processing", "processed", "terminal_failed"}
      BY <1>2, <1>4, <2>2 DEF Run, Settled
    <3> QED BY <1>2, <1>4, <1>7, <3>1 DEF InboxRow
  <2> HIDE DEF done, new
  <2>4. /\ inbox' \in [Key -> InboxRow] /\ inbox'[k] = done
        /\ \A j \in Key : j # k => inbox'[j] = inbox[j]
    BY <1>2, <1>4, <2>3
  <2>5. At(new) = k /\ Env(new) = e /\ Known(new) = 0
    BY <2>1 DEF At, Env, Known
  <2>6. ~stalled => inbox[k] = [state |-> "processing", envelope |-> e, updated |-> run.now]
    BY <1>1, <1>2 DEF RunOwns, Holding
  <2>7. ~stalled => inbox[k].state = "processing" /\ inbox[k].envelope = e
    BY <2>6
  <2>8. ASSUME run.outcome = "processed"
        PROVE  /\ Stands(k, e, posts, shown, stalled)
               /\ Stands(k, inbox[k].envelope, posts, shown, stalled)
    <3>1. Known(run) = Parts(e)
      BY <1>1, <2>8 DEF Known
    <3>2. 1..Parts(e) \subseteq Part /\ Parts(e) > 0 /\ \A i \in 1..Parts(e) : i <= Parts(e)
      BY <1>2, PartsType, MirrorAssumption DEF Part
    <3>3. \A i \in 1..Parts(e) : posts[k][i] > 0
      BY <1>5, <3>1, <3>2 DEF RunKnown
    <3>4. PICK s \in shown[k] : s[1] = e
      BY <1>5, <3>1, <3>2 DEF RunKnown
    <3>5. ~stalled => \A t \in shown[k] : t[1] = e
      <4>1. ~stalled => \A t \in shown[k] : t = s
        BY <1>2, <3>4 DEF MInv, ChatInv, KeyChat
      <4> QED BY <3>4, <4>1
    <3>6. Stands(k, e, posts, shown, stalled)
      BY <3>3, <3>5 DEF Stands
    <3>7. CASE inbox[k].envelope = e
      BY <3>6, <3>7
    <3>8. CASE inbox[k].envelope # e
      <4>1. stalled
        BY <2>7, <3>8
      <4>2. s[1] # inbox[k].envelope
        BY <3>4, <3>8
      <4>3. \E t \in shown[k] : t[1] # inbox[k].envelope
        BY <3>4, <4>2
      <4>4. Stands(k, inbox[k].envelope, posts, shown, stalled)
        BY <4>1, <4>3 DEF Stands
      <4> QED BY <3>6, <4>4
    <3> QED BY <3>6, <3>7, <3>8
  <2>9. \A i \in Part : ~(i <= 0)
    BY DEF Part
  <2>10. RunShape(new) /\ RunKnown(new, posts, shown) /\ RunRight(new, posts, shown, stalled)
    BY <1>2, <2>1, <2>2, <2>5, <2>8, <2>9 DEF RunShape, RunKnown, RunRight
  <2>11. TablesInv'
    <3>1. ASSUME NEW j \in Key
          PROVE  /\ progress'[j].next > 0 => \E s \in shown'[j] : s[1] = progress'[j].envelope
                 /\ inbox'[j].state # "none" => inbox'[j].envelope \in Envelope
                 /\ inbox'[j].state = "processed" =>
                       Stands(j, inbox'[j].envelope, posts', shown', stalled')
      <4>1. CASE j # k
        BY <1>3, <2>4, <4>1 DEF MInv, TablesInv
      <4>2. CASE j = k
        <5>1. inbox[k].envelope \in Envelope
          BY <1>2, <1>7 DEF MInv, TablesInv
        <5> QED BY <1>3, <2>3, <2>4, <2>8, <4>2, <5>1 DEF MInv, TablesInv
      <4> QED BY <4>1, <4>2
    <3> QED BY <3>1 DEF TablesInv
  <2>12. CursorBehindChat'
    BY <1>3 DEF MInv, CursorBehindChat
  <2>13. ASSUME ~stalled PROVE OwnersInv' /\ ChatInv' /\ AckedInv'
    <3>0. workers[w].pc \in Owning /\ workers[w].pc # "advance" /\ new.pc # "advance"
      BY <1>1, <2>1 DEF Owning, Holding
    <3>1. inbox[k].state \notin Settled
      BY <2>7, <2>13 DEF Settled
    <3>2. \A v \in Worker : v # w => RunOwns(workers[v], inbox', progress')
      BY <1>3, <2>4, <2>13, <3>0, <3>1, OthersOwn
    <3>3. \A v \in Worker : v # w => Apart(new, workers[v])
      BY <2>1, <2>5, <2>13, <3>0, StaysApart
    <3>4. RunTimely(new, clock) /\ clock' = clock
      BY <1>1, <1>2, <1>3, <2>1, <2>13 DEF RunTimely, vars
    <3>5. RunOwns(new, inbox', progress')
      BY <2>1, <2>3, <2>4, <2>5, <2>7, <2>13 DEF RunOwns, Holding
    <3>6. OwnersInv'
      BY <2>1, <2>13, <3>2, <3>3, <3>4, <3>5, OwnersAfter
    <3>7. \A j \in Key : j # k => (Pending(j)' <=> Pending(j))
      BY <2>1, <2>5, <2>13, <3>0, PendingAfter
    <3>8. ChatInv
      BY <2>13 DEF MInv
    <3>9. ASSUME NEW j \in Key
          PROVE  KeyChat(posts'[j], shown'[j], doubts'[j], inbox'[j].state, progress'[j], Pending(j)')
      <4>1. CASE j # k
        BY <1>3, <2>4, <3>7, <3>8, <4>1 DEF ChatInv, KeyChat
      <4>2. CASE j = k
        BY <1>3, <2>2, <2>3, <2>4, <3>8, <4>2 DEF ChatInv, KeyChat
      <4> QED BY <4>1, <4>2
    <3>10. ChatInv'
      BY <3>9 DEF ChatInv
    <3>11. AckedInv'
      BY <1>3, <2>4, <2>7, <2>13 DEF MInv, AckedInv, vars
    <3> QED BY <3>6, <3>10, <3>11
  <2> QED BY <1>3, <1>4, <2>1, <2>4, <2>10, <2>11, <2>12, <2>13, QuietStep
<1> QED BY <1>3, <1>6, <1>7

\* progress.clear
LEMMA ClearStep ==
    ASSUME MInv, NEW w \in Worker, Clear(w)
    PROVE  MInv'
<1> DEFINE run == workers[w]
           k == At(run)
           e == Env(run)
           new == [run EXCEPT !.pc = "ack"]
<1>1. run.pc = "clear"
  BY DEF Clear
<1>2. /\ workers \in [Worker -> Run] /\ run \in Run /\ run.batch # {}
      /\ k \in Key /\ e \in Envelope /\ Head1(w).key = k
      /\ ~stalled => RunTimely(run, clock) /\ RunOwns(run, inbox, progress)
  BY <1>1, EngagedRun DEF Engaged, Owning
<1>3. /\ UNCHANGED <<vars, inbox, rendering, posts, shown, doubts, crashes, losses, stalled>>
      /\ progress' = [progress EXCEPT ![k] = NoProgress]
      /\ workers' = [workers EXCEPT ![w].pc = "ack"]
  BY <1>2 DEF Clear
<1>4. /\ inbox' \in [Key -> InboxRow] /\ crashes' \in Nat /\ losses' \in Nat
      /\ progress \in [Key -> ProgressRow] /\ doubts' \in [Key -> [Part -> Nat]]
  BY <1>3 DEF MInv, MirrorTypeOK
<1>5. RunShape(run) /\ RunRight(run, posts, shown, stalled)
  BY DEF MInv, RunsInv
<1>6. /\ new \in Run /\ new.pc = "ack" /\ new.outcome = run.outcome
      /\ new.batch = run.batch /\ new.now = run.now
      /\ workers' = [workers EXCEPT ![w] = new]
  BY <1>2, <1>3 DEF Run
<1> HIDE DEF new
<1>7. At(new) = k /\ Env(new) = e /\ Known(new) = 0
  BY <1>6 DEF At, Env, Known
<1>8. run.outcome \in Settled
  BY <1>1, <1>5 DEF RunShape
<1>9. \A i \in Part : ~(i <= 0)
  BY DEF Part
<1>10. RunShape(new) /\ RunKnown(new, posts, shown) /\ RunRight(new, posts, shown, stalled)
  BY <1>1, <1>2, <1>5, <1>6, <1>7, <1>8, <1>9 DEF RunShape, RunKnown, RunRight, Settled, Outcome
<1>11. NoProgress \in ProgressRow /\ NoProgress.next = 0
  <2>1. 0 \in Nat /\ 0 \in 0..MaxMirrorParts
    BY MirrorAssumption
  <2> QED BY <2>1 DEF NoProgress, ProgressRow
<1>12. /\ progress' \in [Key -> ProgressRow] /\ progress'[k] = NoProgress
       /\ \A j \in Key : j # k => progress'[j] = progress[j]
  BY <1>2, <1>3, <1>4, <1>11
<1>13. TablesInv' /\ CursorBehindChat'
  BY <1>3, <1>9, <1>11, <1>12 DEF MInv, TablesInv, CursorBehindChat
<1>14. ASSUME ~stalled PROVE OwnersInv' /\ ChatInv' /\ AckedInv'
  <2>0. workers[w].pc \in Owning /\ workers[w].pc # "advance" /\ new.pc # "advance" /\ new.pc \notin Owning
    BY <1>1, <1>6 DEF Owning, Holding
  <2>1. \A v \in Worker : v # w => RunOwns(workers[v], inbox', progress')
    BY <1>3, <1>12, <1>14, <2>0, OthersOwn
  <2>2. \A v \in Worker : v # w => Apart(new, workers[v])
    BY <1>6, <1>14, <2>0, StaysApart
  <2>3. RunTimely(new, clock) /\ clock' = clock
    BY <1>1, <1>2, <1>3, <1>6, <1>14 DEF RunTimely, vars
  <2>4. inbox[k].state = run.outcome /\ inbox[k].envelope = e
    BY <1>1, <1>2, <1>8, <1>14 DEF RunOwns
  <2>5. RunOwns(new, inbox', progress')
    BY <1>3, <1>6, <1>7, <2>4 DEF RunOwns, Holding
  <2>6. OwnersInv'
    BY <1>6, <1>14, <2>1, <2>2, <2>3, <2>5, OwnersAfter
  <2>7. \A j \in Key : j # k => (Pending(j)' <=> Pending(j))
    BY <1>6, <1>7, <1>14, <2>0, PendingAfter
  <2>8. ChatInv
    BY <1>14 DEF MInv
  <2>9. ASSUME NEW j \in Key
        PROVE  KeyChat(posts'[j], shown'[j], doubts'[j], inbox'[j].state, progress'[j], Pending(j)')
    <3>1. CASE j # k
      BY <1>3, <1>12, <2>7, <2>8, <3>1 DEF ChatInv, KeyChat
    <3>2. CASE j = k
      BY <1>3, <1>8, <2>4, <2>8, <3>2 DEF ChatInv, KeyChat
    <3> QED BY <3>1, <3>2
  <2>10. ChatInv'
    BY <2>9 DEF ChatInv
  <2>11. AckedInv'
    BY <1>3, <1>14 DEF MInv, AckedInv, vars
  <2> QED BY <2>6, <2>10, <2>11
<1> QED BY <1>3, <1>4, <1>6, <1>10, <1>12, <1>13, <1>14, QuietStep

\* store.release after a failed part
LEMMA ReleaseStep ==
    ASSUME MInv, NEW w \in Worker, Release(w)
    PROVE  MInv'
<1> DEFINE run == workers[w]
           k == At(run)
           e == Env(run)
           new == [run EXCEPT !.pc = "ack", !.outcome = "retryable_failed"]
           left == IF inbox[k].state = "processing" THEN NoInboxRow ELSE inbox[k]
<1>1. run.pc = "release"
  BY DEF Release
<1>2. /\ workers \in [Worker -> Run] /\ run \in Run /\ run.batch # {}
      /\ k \in Key /\ e \in Envelope /\ Head1(w).key = k
      /\ ~stalled => RunTimely(run, clock) /\ RunOwns(run, inbox, progress)
  BY <1>1, EngagedRun DEF Engaged, Owning, Holding
<1>3. /\ UNCHANGED <<vars, progress, rendering, posts, shown, doubts, crashes, losses, stalled>>
      /\ inbox' = [inbox EXCEPT ![k] = left]
      /\ workers' = [workers EXCEPT ![w].pc = "ack", ![w].outcome = "retryable_failed"]
  BY <1>2 DEF Release, InboxRelease
<1>4. /\ inbox \in [Key -> InboxRow] /\ crashes' \in Nat /\ losses' \in Nat
      /\ progress' \in [Key -> ProgressRow] /\ doubts' \in [Key -> [Part -> Nat]]
  BY <1>3 DEF MInv, MirrorTypeOK
<1>5. /\ new \in Run /\ new.pc = "ack" /\ new.outcome = "retryable_failed"
      /\ new.batch = run.batch /\ new.now = run.now
      /\ workers' = [workers EXCEPT ![w] = new]
  BY <1>2, <1>3 DEF Run, Outcome
<1> HIDE DEF new
<1>6. left \in InboxRow /\ left.state \in {"none", inbox[k].state}
      /\ (left.state # "none" => left = inbox[k])
      /\ (inbox[k].state = "processing" => left.state = "none")
  <2>1. NoInboxRow \in InboxRow /\ NoInboxRow.state = "none"
    <3>1. 0 \in Nat
      OBVIOUS
    <3> QED BY <3>1 DEF NoInboxRow, InboxRow
  <2>2. inbox[k] \in InboxRow
    BY <1>2, <1>4
  <2> QED BY <2>1, <2>2
<1> HIDE DEF left
<1>7. /\ inbox' \in [Key -> InboxRow] /\ inbox'[k] = left
      /\ \A j \in Key : j # k => inbox'[j] = inbox[j]
  BY <1>2, <1>3, <1>4, <1>6
<1>8. At(new) = k /\ Env(new) = e /\ Known(new) = 0
  BY <1>5 DEF At, Env, Known
<1>9. \A i \in Part : ~(i <= 0)
  BY DEF Part
<1>10. RunShape(new) /\ RunKnown(new, posts, shown) /\ RunRight(new, posts, shown, stalled)
  BY <1>2, <1>5, <1>8, <1>9 DEF RunShape, RunKnown, RunRight, Settled, Outcome
<1>11. TablesInv' /\ CursorBehindChat'
  BY <1>2, <1>3, <1>6, <1>7 DEF MInv, TablesInv, CursorBehindChat
<1>12. ASSUME ~stalled PROVE OwnersInv' /\ ChatInv' /\ AckedInv'
  <2>0. workers[w].pc \in Owning /\ workers[w].pc # "advance" /\ new.pc # "advance" /\ new.pc \notin Owning
    BY <1>1, <1>5 DEF Owning, Holding
  <2>1. inbox[k] = [state |-> "processing", envelope |-> e, updated |-> run.now]
    BY <1>1, <1>2, <1>12 DEF RunOwns, Holding
  <2>2. inbox[k].state = "processing" /\ inbox[k].state \notin Settled /\ left.state = "none"
    BY <1>6, <2>1 DEF Settled
  <2>3. \A v \in Worker : v # w => RunOwns(workers[v], inbox', progress')
    BY <1>3, <1>7, <1>12, <2>0, <2>2, OthersOwn
  <2>4. \A v \in Worker : v # w => Apart(new, workers[v])
    BY <1>5, <1>12, <2>0, StaysApart
  <2>5. RunTimely(new, clock) /\ clock' = clock
    BY <1>1, <1>2, <1>3, <1>5, <1>12 DEF RunTimely, vars
  <2>6. RunOwns(new, inbox', progress')
    BY <1>5 DEF RunOwns, Holding, Settled
  <2>7. OwnersInv'
    BY <1>5, <1>12, <2>3, <2>4, <2>5, <2>6, OwnersAfter
  <2>8. /\ \A j \in Key : j # k => (Pending(j)' <=> Pending(j))
        /\ ~Pending(k) /\ \A j \in Key : j = k => ~Pending(j)'
    BY <1>5, <1>8, <1>12, <2>0, PendingAfter
  <2>9. ChatInv
    BY <1>12 DEF MInv
  <2>10. ASSUME NEW j \in Key
         PROVE  KeyChat(posts'[j], shown'[j], doubts'[j], inbox'[j].state, progress'[j], Pending(j)')
    <3>1. CASE j # k
      BY <1>3, <1>7, <2>8, <2>9, <3>1 DEF ChatInv, KeyChat
    <3>2. CASE j = k
      <4>1. KeyChat(posts[k], shown[k], doubts[k], inbox[k].state, progress[k], Pending(k))
        BY <1>2, <2>9 DEF ChatInv
      <4> QED BY <1>3, <1>7, <2>2, <2>8, <3>2, <4>1 DEF KeyChat
    <3> QED BY <3>1, <3>2
  <2>11. ChatInv'
    BY <2>10 DEF ChatInv
  <2>12. AckedInv'
    BY <1>3, <1>7, <1>12, <2>2 DEF MInv, AckedInv, vars
  <2> QED BY <2>7, <2>11, <2>12
<1> QED BY <1>3, <1>4, <1>5, <1>7, <1>10, <1>11, <1>12, QuietStep

-----------------------------------------------------------------------------
(* The hub, the clock and the whole system *)

\* An operation of the hub, by one run or by nobody, that leaves the tables of
\* the host alone: what it holds as acknowledged must be in the chat.
LEMMA HubOperation ==
    ASSUME MInv, IInv', clock' = clock,
           UNCHANGED <<inbox, progress, rendering, posts, shown, doubts, crashes, losses, stalled>>,
           \A k \in Key : deliveries'[<<k, Me>>].state = "acknowledged" =>
              /\ Stands(k, messages'[k], posts, shown, stalled)
              /\ stalled \/ (inbox[k].state = "processed" /\ inbox[k].envelope = messages'[k]),
           \/ UNCHANGED workers
           \/ \E w \in Worker, new \in Run :
                 /\ workers' = [workers EXCEPT ![w] = new]
                 /\ new.pc = "next" /\ workers[w].pc # "advance"
                 /\ stalled \/ RunTimely(new, clock)
    PROVE  MInv'
<1>1. TablesInv' /\ CursorBehindChat'
  BY DEF MInv, TablesInv, CursorBehindChat
<1>2. AcknowledgedIsWhole'
  BY DEF AcknowledgedIsWhole, StandsInChat, Stands
<1>3. ~stalled => AckedInv'
  BY DEF AckedInv
<1>4. CASE UNCHANGED workers
  <2>1. MirrorTypeOK' /\ RunsInv'
    BY <1>4 DEF MInv, MirrorTypeOK, RunsInv
  <2>2. ~stalled => OwnersInv'
    BY <1>4 DEF MInv, OwnersInv
  <2>3. \A k \in Key : Pending(k)' <=> Pending(k)
    BY <1>4 DEF Pending
  <2>4. ~stalled => ChatInv'
    BY <2>3 DEF MInv, ChatInv, KeyChat
  <2> QED BY <1>1, <1>2, <1>3, <2>1, <2>2, <2>4 DEF MInv
<1>5. ASSUME NEW w \in Worker, NEW new \in Run, workers' = [workers EXCEPT ![w] = new],
             new.pc = "next", workers[w].pc # "advance", stalled \/ RunTimely(new, clock)
      PROVE  MInv'
  <2>1. /\ workers' \in [Worker -> Run] /\ workers'[w] = new
        /\ \A v \in Worker : v # w => workers'[v] = workers[v]
    BY <1>5, OneRun DEF MInv, MirrorTypeOK
  <2>2. MirrorTypeOK'
    BY <2>1 DEF MInv, MirrorTypeOK
  <2>3. \A i \in Part : ~(i <= 0)
    BY DEF Part
  <2>4. Known(new) = 0
    BY <1>5 DEF Known
  <2>5. /\ RunShape(new) /\ RunKnown(new, posts, shown) /\ RunRight(new, posts, shown, stalled)
        /\ RunOwns(new, inbox, progress) /\ new.pc \notin Owning
    BY <1>5, <2>3, <2>4 DEF RunShape, RunKnown, RunRight, RunOwns, Engaged, Owning, Holding
  <2>6. RunsInv'
    BY <1>5, <2>5, QuietRuns
  <2>7. ASSUME ~stalled PROVE OwnersInv' /\ ChatInv'
    <3>1. \A v \in Worker : RunOwns(workers[v], inbox', progress')
      BY <2>7 DEF MInv, OwnersInv
    <3>2. \A v \in Worker : v # w => Apart(new, workers[v])
      BY <2>5 DEF Apart
    <3>3. OwnersInv'
      BY <1>5, <2>5, <2>7, <3>1, <3>2, OwnersAfter
    <3>4. \A k \in Key : Pending(k)' <=> Pending(k)
      BY <1>5, <2>1 DEF Pending
    <3>5. ChatInv
      BY <2>7 DEF MInv
    <3> QED BY <3>3, <3>4, <3>5 DEF ChatInv, KeyChat
  <2> QED BY <1>1, <1>2, <1>3, <2>2, <2>6, <2>7 DEF MInv
<1> QED BY <1>4, <1>5

\* Admission, retention and claims acknowledge nothing, and what they leave
\* acknowledged is still the same message.
LEMMA StillAcknowledged ==
    ASSUME MInv, NEW k \in Key, deliveries'[<<k, Me>>].state = "acknowledged",
           deliveries[<<k, Me>>].state = "acknowledged", messages'[k] = messages[k]
    PROVE  /\ Stands(k, messages'[k], posts, shown, stalled)
           /\ stalled \/ (inbox[k].state = "processed" /\ inbox[k].envelope = messages'[k])
<1>1. Stands(k, messages[k], posts, shown, stalled)
  BY StandsIs DEF MInv, AcknowledgedIsWhole
<1> QED BY <1>1 DEF MInv, AckedInv

\* EnqueueAny and MaintenanceAny
LEMMA HubStep ==
    ASSUME MInv, Hub
    PROVE  MInv'
<1>1. UNCHANGED <<inbox, progress, rendering, posts, shown, doubts, crashes, losses, stalled, workers>>
  BY DEF Hub, mirrorVars
<1>2. clock \in Nat /\ IInv /\ Me \in Agent
  BY PollingAssumption DEF MInv, IInv, TypeOK
<1>3. \A k \in Key : <<k, Me>> \in DeliveryId
  BY <1>2 DEF DeliveryId
<1>4. ASSUME NEW e \in Envelope, Enqueue(e, clock)
      PROVE  /\ IInv' /\ clock' = clock
             /\ \A k \in Key : deliveries'[<<k, Me>>].state = "acknowledged" =>
                   deliveries[<<k, Me>>].state = "acknowledged" /\ messages'[k] = messages[k]
  <2>1. IInv' /\ clock' = clock
    BY <1>2, <1>4, EnqueueStep DEF Enqueue
  <2>2. CASE UNCHANGED <<messages, deliveries>>
    BY <2>1, <2>2
  <2>3. CASE messages[KeyOf[e]] = NoMessage /\ InsertMessage(e, clock)
    <3>1. NewRow(e, Me, clock).state = "queued"
      BY DEF NewRow, NoRow
    <3>2. ASSUME NEW k \in Key, deliveries'[<<k, Me>>].state = "acknowledged"
          PROVE  deliveries[<<k, Me>>].state = "acknowledged" /\ messages'[k] = messages[k]
      <4>1. deliveries[<<k, Me>>].state = "acknowledged"
        BY <1>3, <2>3, <3>1, <3>2 DEF InsertMessage
      <4>2. messages[k] # NoMessage
        BY <1>2, <1>3, <4>1 DEF IInv, RowsInv
      <4>3. messages \in [Key -> Envelope \cup {NoMessage}]
        BY <1>2 DEF IInv, TypeOK
      <4> QED BY <2>3, <4>1, <4>2, <4>3 DEF InsertMessage
    <3> QED BY <2>1, <3>2
  <2> QED BY <1>4, <2>2, <2>3 DEF Enqueue
<1>5. ASSUME NEW retain \in Nat, Maintenance(clock - retain, clock)
      PROVE  /\ IInv' /\ clock' = clock
             /\ \A k \in Key : deliveries'[<<k, Me>>].state = "acknowledged" =>
                   deliveries[<<k, Me>>].state = "acknowledged" /\ messages'[k] = messages[k]
  <2> DEFINE rows   == Expired(clock)
             purged == {k \in Key : Purgeable(rows, k, clock - retain)}
  <2>1. /\ clock' = clock
        /\ messages' = [k \in Key |-> IF k \in purged THEN NoMessage ELSE messages[k]]
        /\ deliveries' = [d \in DeliveryId |-> IF d[1] \in purged THEN NoRow ELSE rows[d]]
    BY <1>5 DEF Maintenance
  <2>2. IInv'
    BY <1>2, <1>5, MaintenanceStep
  <2>3. \A d \in DeliveryId : ExpiryOf(deliveries[d], rows[d])
    BY <1>2, ExpiredTable DEF IInv
  <2>4. NoRow.state = "none"
    BY DEF NoRow
  <2> HIDE DEF rows, purged
  <2>5. ASSUME NEW k \in Key, deliveries'[<<k, Me>>].state = "acknowledged"
        PROVE  deliveries[<<k, Me>>].state = "acknowledged" /\ messages'[k] = messages[k]
    <3>1. k \notin purged /\ deliveries'[<<k, Me>>] = rows[<<k, Me>>]
      BY <1>3, <2>1, <2>4, <2>5
    <3> QED BY <1>3, <2>1, <2>3, <2>5, <3>1 DEF ExpiryOf
  <2> QED BY <2>1, <2>2, <2>5
<1>6. /\ IInv' /\ clock' = clock
      /\ \A k \in Key : deliveries'[<<k, Me>>].state = "acknowledged" =>
            deliveries[<<k, Me>>].state = "acknowledged" /\ messages'[k] = messages[k]
  BY <1>4, <1>5, PolicyAssumption DEF Hub, EnqueueAny, MaintenanceAny
<1>7. \A k \in Key : deliveries'[<<k, Me>>].state = "acknowledged" =>
         /\ Stands(k, messages'[k], posts, shown, stalled)
         /\ stalled \/ (inbox[k].state = "processed" /\ inbox[k].envelope = messages'[k])
  BY <1>6, StillAcknowledged
<1> QED BY <1>1, <1>6, <1>7, HubOperation

\* The claim of a poll acknowledges nothing and grants well-formed claims.
LEMMA PollStep ==
    ASSUME MInv, NEW w \in Worker, Poll(w)
    PROVE  MInv'
<1> DEFINE new == [Resting EXCEPT !.pc = "next", !.now = clock,
                                  !.rendering = rendering, !.batch = Granted]
<1>1. /\ workers[w].pc = "idle" /\ Claim(Me, PollLimit, PollLease, clock)
      /\ workers' = [workers EXCEPT ![w] = new]
      /\ UNCHANGED <<inbox, progress, rendering, posts, shown, doubts, crashes, losses, stalled>>
  BY DEF Poll, ClaimBatch
<1>2. /\ clock \in Nat /\ rendering \in Nat /\ IInv
      /\ Me \in Agent /\ PollLease \in Nat
  BY PollingAssumption DEF MInv, MirrorTypeOK, IInv, TypeOK
<1>3. \A k \in Key : <<k, Me>> \in DeliveryId
  BY <1>2 DEF DeliveryId
<1>4. IInv'
  BY <1>1, <1>2, ClaimStep
<1>5. UNCHANGED <<clock, messages>>
  BY <1>1 DEF Claim
<1>6. Granted \in SUBSET ClaimItem
  <2>1. ASSUME NEW k \in Key, deliveries'[<<k, Me>>].state = "claimed"
        PROVE  messages[k] \in Envelope /\ deliveries'[<<k, Me>>].lease \in Lease
    <3>1. messages' \in [Key -> Envelope \cup {NoMessage}] /\ deliveries' \in [DeliveryId -> Row]
      BY <1>4 DEF IInv, TypeOK
    <3>2. messages'[k] # NoMessage
      BY <1>3, <1>4, <2>1 DEF IInv, RowsInv
    <3> QED BY <1>3, <1>5, <3>1, <3>2 DEF Row
  <2>2. ASSUME NEW c \in Granted PROVE c \in ClaimItem
    <3>1. PICK k \in Key :
             /\ deliveries'[<<k, Me>>].state = "claimed"
             /\ c = [key |-> k, envelope |-> messages[k], lease |-> deliveries'[<<k, Me>>].lease]
      BY <2>2 DEF Granted
    <3> QED BY <2>1, <3>1 DEF ClaimItem
  <2> QED BY <2>2
<1>7. new \in Run
  <2>1. 0 \in 0..MaxMirrorParts
    BY MirrorAssumption
  <2> HIDE DEF Granted
  <2> QED BY <1>2, <1>6, <2>1 DEF Resting, Run
<1>8. new.pc = "next" /\ RunTimely(new, clock)
  <2>1. new.pc = "next" /\ new.now = clock
    BY DEF Resting
  <2> HIDE DEF new
  <2> QED BY <1>2, <2>1, PollingAssumption DEF RunTimely
<1> HIDE DEF new
<1>9. ASSUME NEW k \in Key, deliveries'[<<k, Me>>].state = "acknowledged"
      PROVE  deliveries[<<k, Me>>].state = "acknowledged" /\ messages'[k] = messages[k]
  <2> DEFINE d == <<k, Me>>
             rows == Expired(clock)
  <2>1. d \in DeliveryId
    BY <1>3
  <2>2. ExpiryOf(deliveries[d], rows[d])
    BY <1>2, <2>1, ExpiredTable DEF IInv
  <2>3. deliveries'[d] = rows[d] \/ deliveries'[d].state = "claimed"
    BY <1>1, <1>2, <2>1, ClaimRows
  <2> HIDE DEF rows, d
  <2>4. deliveries'[d].state = "acknowledged"
    BY <1>9 DEF d
  <2>5. deliveries[d].state = "acknowledged"
    BY <2>2, <2>3, <2>4 DEF ExpiryOf
  <2> QED BY <1>5, <2>5 DEF d
<1>10. \A k \in Key : deliveries'[<<k, Me>>].state = "acknowledged" =>
          /\ Stands(k, messages'[k], posts, shown, stalled)
          /\ stalled \/ (inbox[k].state = "processed" /\ inbox[k].envelope = messages'[k])
  BY <1>9, StillAcknowledged
<1>11. \E v \in Worker, run \in Run :
          /\ workers' = [workers EXCEPT ![v] = run]
          /\ run.pc = "next" /\ workers[v].pc # "advance"
          /\ stalled \/ RunTimely(run, clock)
  BY <1>1, <1>7, <1>8
<1> QED BY <1>1, <1>4, <1>5, <1>10, <1>11, HubOperation

\* An accepted ack of "processed" is right about the chat, for the envelope
\* the hub holds: the hub compares it with the one the run has worked on.
LEMMA SendAckStep ==
    ASSUME MInv, NEW w \in Worker, SendAck(w)
    PROVE  MInv'
<1> DEFINE run == workers[w]
           new == [run EXCEPT !.pc = "next", !.outcome = "", !.next = 0,
                              !.batch = @ \ {Head1(w)}]
           a == Ack1(w)
           c == FirstClaim(run.batch)
<1>1. /\ run.pc = "ack" /\ Acknowledge(a, clock) /\ clock \in Nat
      /\ workers' = [workers EXCEPT ![w] = new]
      /\ UNCHANGED <<inbox, progress, rendering, posts, shown, doubts, crashes, losses, stalled>>
  BY DEF SendAck, MInv, IInv, TypeOK
<1>2. /\ run \in Run /\ RunShape(run) /\ RunRight(run, posts, shown, stalled)
      /\ stalled \/ (RunOwns(run, inbox, progress) /\ RunTimely(run, clock))
      /\ IInv
  BY DEF MInv, RunsInv, OwnersInv, MirrorTypeOK
<1>3. run.batch # {} /\ run.outcome \in Outcome
  BY <1>1, <1>2 DEF RunShape, Engaged
<1>4. c \in ClaimItem /\ At(run) = c.key /\ Env(run) = c.envelope
  BY <1>2, <1>3, HeadClaim DEF At, Env
<1>5. a = [receiver |-> Me, key |-> c.key, lease |-> c.lease, envelope |-> c.envelope,
           outcome |-> run.outcome, issued |-> run.now]
  BY DEF Ack1, MakeAck, Head1
<1>6. new \in Run /\ new.pc = "next" /\ (stalled \/ RunTimely(new, clock))
  <2>1. 0 \in 0..MaxMirrorParts
    BY MirrorAssumption
  <2>2. new \in Run /\ new.pc = "next" /\ new.now = run.now
    <3> HIDE DEF Head1, run
    <3> QED BY <1>2, <2>1 DEF Run
  <2>3. run.pc # "idle"
    BY <1>1
  <2> HIDE DEF new, run
  <2> QED BY <1>2, <2>2, <2>3 DEF RunTimely
<1> HIDE DEF new, c, run, a
<1>7. a \in Ack
  BY <1>2, <1>3, <1>4, <1>5, PollingAssumption DEF Ack, ClaimItem, Run
<1>8. IInv'
  BY <1>1, <1>2, <1>7, AcknowledgeStep
<1> DEFINE d == <<c.key, Me>>
<1>9. /\ d \in DeliveryId /\ c.key \in Key /\ UNCHANGED <<clock, messages>>
      /\ messages[c.key] = c.envelope
      /\ deliveries[d].state = "claimed"
      /\ deliveries' = [deliveries EXCEPT ![d] = Settle(@, run.outcome, clock)]
  BY <1>1, <1>4, <1>5, PollingAssumption DEF Acknowledge, HoldsLease, DeliveryId, ClaimItem
<1>10. deliveries \in [DeliveryId -> Row] /\ deliveries[d] \in Row /\ RowOK(deliveries[d])
  BY <1>2, <1>9 DEF IInv, TypeOK, RowsInv
<1>11. deliveries'[d].state = "acknowledged" => run.outcome = "processed"
  <2>1. Settle(deliveries[d], run.outcome, clock).state = "acknowledged" => run.outcome = "processed"
    BY <1>1, <1>3, <1>9, <1>10, SettleRow
  <2> QED BY <1>9, <1>10, <2>1
<1>12. ASSUME NEW k \in Key, deliveries'[<<k, Me>>].state = "acknowledged"
       PROVE  /\ Stands(k, messages'[k], posts, shown, stalled)
              /\ stalled \/ (inbox[k].state = "processed" /\ inbox[k].envelope = messages'[k])
  <2>1. CASE k = c.key
    <3>1. run.outcome = "processed"
      BY <1>11, <1>12, <2>1
    <3>2. Stands(c.key, c.envelope, posts, shown, stalled)
      BY <1>1, <1>2, <1>4, <3>1 DEF RunRight
    <3>3. stalled \/ (inbox[c.key].state = "processed" /\ inbox[c.key].envelope = c.envelope)
      BY <1>1, <1>2, <1>4, <3>1 DEF RunOwns, Settled
    <3> QED BY <1>9, <2>1, <3>2, <3>3
  <2>2. CASE k # c.key
    <3>1. <<k, Me>> \in DeliveryId /\ <<k, Me>> # d
      BY <2>2, PollingAssumption DEF DeliveryId
    <3>2. deliveries'[<<k, Me>>] = deliveries[<<k, Me>>]
      BY <1>9, <1>10, <3>1
    <3> QED BY <1>9, <1>12, <3>2, StillAcknowledged
  <2> QED BY <2>1, <2>2
<1>13. workers[w].pc # "advance"
  BY <1>1 DEF run
<1>14. \E v \in Worker, r \in Run :
          /\ workers' = [workers EXCEPT ![v] = r]
          /\ r.pc = "next" /\ workers[v].pc # "advance"
          /\ stalled \/ RunTimely(r, clock)
  BY <1>1, <1>6, <1>13
<1> QED BY <1>1, <1>8, <1>9, <1>12, <1>14, HubOperation

\* The hub refuses an ack, or never sees it.
LEMMA AckFailedStep ==
    ASSUME MInv, NEW w \in Worker, AckFailed(w)
    PROVE  MInv'
<1>1. losses' \in Nat /\ crashes' \in Nat
  BY DEF AckFailed, MInv, MirrorTypeOK
<1> QED BY <1>1, AbortStep DEF AckFailed

\* A run has handled all of its claims.
LEMMA ReturnStep ==
    ASSUME MInv, NEW w \in Worker, Return(w)
    PROVE  MInv'
<1>1. losses' \in Nat /\ crashes' \in Nat
  BY DEF Return, MInv, MirrorTypeOK
<1> QED BY <1>1, AbortStep DEF Return, Abort

\* A deployment concerns only the runs that begin later.
LEMMA UpgradeStep ==
    ASSUME MInv, Upgrade
    PROVE  MInv'
<1>1. /\ UNCHANGED <<vars, inbox, workers, progress, posts, shown, doubts, crashes, losses, stalled>>
      /\ rendering' \in Nat
  BY DEF Upgrade, MInv, MirrorTypeOK
<1>2. IInv'
  BY <1>1, BrokerKept DEF MInv
<1>3. MirrorTypeOK' /\ RunsInv' /\ TablesInv' /\ CursorBehindChat'
  BY <1>1 DEF MInv, MirrorTypeOK, RunsInv, TablesInv, CursorBehindChat
<1>4. AcknowledgedIsWhole'
  BY <1>1 DEF MInv, AcknowledgedIsWhole, StandsInChat, vars
<1>5. \A k \in Key : Pending(k)' <=> Pending(k)
  BY <1>1 DEF Pending
<1>6. ~stalled => OwnersInv' /\ ChatInv' /\ AckedInv'
  BY <1>1, <1>5 DEF MInv, OwnersInv, ChatInv, KeyChat, AckedInv, vars
<1> QED BY <1>1, <1>2, <1>3, <1>4, <1>6 DEF MInv

\* A stall only weakens what must stand in the chat.
LEMMA StandsStalled ==
    ASSUME NEW k, NEW e, NEW po, NEW sh, NEW st \in BOOLEAN, NEW nst \in BOOLEAN,
           st => nst, Stands(k, e, po, sh, st)
    PROVE  Stands(k, e, po, sh, nst)
BY DEF Stands

\* Time passes: the moment a busy run outlasts the processing timeout is
\* recorded as a stall.
LEMMA TimePassesStep ==
    ASSUME MInv, TimePasses
    PROVE  MInv'
<1>1. /\ UNCHANGED <<highWater, messages, deliveries, nextSeq, ackEvents, cursors>>
      /\ UNCHANGED <<inbox, workers, progress, rendering, posts, shown, doubts, crashes, losses>>
      /\ clock' = clock + 1 /\ clock \in Nat /\ clock' \in Nat
  BY DEF TimePasses, Tick, MInv, IInv, TypeOK
<1>2. stalled' = (stalled \/ \E w \in Worker : Late(workers[w]))
  BY DEF TimePasses
<1>3. stalled \in BOOLEAN /\ stalled' \in BOOLEAN /\ (stalled => stalled')
  BY <1>2 DEF MInv, MirrorTypeOK
<1>4. IInv'
  BY <1>1 DEF MInv, IInv, TypeOK, RowsInv, LedgerInv, CursorOnTerminal
<1>5. MirrorTypeOK' /\ CursorBehindChat'
  BY <1>1, <1>3 DEF MInv, MirrorTypeOK, CursorBehindChat
<1>6. RunsInv'
  <2>1. ASSUME NEW w \in Worker PROVE RunRight(workers[w], posts, shown, stalled')
    <3>1. RunRight(workers[w], posts, shown, stalled)
      BY DEF MInv, RunsInv
    <3> QED BY <1>3, <3>1, StandsStalled DEF RunRight
  <2> QED BY <1>1, <2>1 DEF MInv, RunsInv
<1>7. TablesInv'
  <2>1. ASSUME NEW k \in Key, inbox[k].state = "processed"
        PROVE  Stands(k, inbox[k].envelope, posts, shown, stalled')
    <3>1. Stands(k, inbox[k].envelope, posts, shown, stalled)
      BY <2>1 DEF MInv, TablesInv
    <3> QED BY <1>3, <3>1, StandsStalled
  <2> QED BY <1>1, <2>1 DEF MInv, TablesInv
<1>8. AcknowledgedIsWhole'
  <2>1. ASSUME NEW k \in Key, deliveries[<<k, Me>>].state = "acknowledged"
        PROVE  Stands(k, messages[k], posts, shown, stalled')
    <3>1. Stands(k, messages[k], posts, shown, stalled)
      BY <2>1, StandsIs DEF MInv, AcknowledgedIsWhole
    <3> QED BY <1>3, <3>1, StandsStalled
  <2> QED BY <1>1, <2>1 DEF AcknowledgedIsWhole, StandsInChat, Stands
<1>9. ASSUME ~stalled' PROVE OwnersInv' /\ ChatInv' /\ AckedInv'
  <2>1. ~stalled /\ OwnersInv /\ ChatInv /\ AckedInv
    BY <1>3, <1>9 DEF MInv
  <2>2. ASSUME NEW w \in Worker PROVE RunTimely(workers[w], clock')
    <3>1. RunTimely(workers[w], clock) /\ ~Late(workers[w]) /\ workers[w].now \in Nat
      BY <1>2, <1>9, <2>1 DEF OwnersInv, MInv, MirrorTypeOK, Run
    <3> QED BY <1>1, <3>1, PollingAssumption DEF RunTimely, Late
  <2>3. OwnersInv'
    BY <1>1, <2>1, <2>2 DEF OwnersInv
  <2>4. \A k \in Key : Pending(k)' <=> Pending(k)
    BY <1>1 DEF Pending
  <2>5. ChatInv' /\ AckedInv'
    BY <1>1, <2>1, <2>4 DEF ChatInv, KeyChat, AckedInv
  <2> QED BY <2>3, <2>5
<1> QED BY <1>4, <1>5, <1>6, <1>7, <1>8, <1>9 DEF MInv

\* The empty chat, the empty tables and the resting runs.
LEMMA InitMInv == MirrorInit => MInv
<1> SUFFICES ASSUME MirrorInit PROVE MInv
  OBVIOUS
<1>1. IInv
  BY InitIInv DEF MirrorInit
<1>2. NoInboxRow \in InboxRow /\ NoProgress \in ProgressRow
  BY MirrorAssumption DEF NoInboxRow, InboxRow, NoProgress, ProgressRow
<1>3. MirrorTypeOK
  <2>1. posts \in [Key -> [Part -> Nat]] /\ doubts \in [Key -> [Part -> Nat]]
    BY DEF MirrorInit
  <2> QED BY <1>2, <2>1, RestingRun DEF MirrorInit, MirrorTypeOK
<1>4. RunsInv
  BY RestingRun DEF MirrorInit, RunsInv
<1>5. /\ \A k \in Key : inbox[k].state = "none" /\ progress[k] = NoProgress /\ progress[k].next = 0
      /\ \A k \in Key : shown[k] = {} /\ \A i \in Part : posts[k][i] = 0 /\ doubts[k][i] = 0
      /\ \A w \in Worker : workers[w] = Resting
  BY DEF MirrorInit, NoInboxRow, NoProgress
<1>6. TablesInv
  BY <1>5 DEF TablesInv
<1>7. CursorBehindChat
  BY <1>5 DEF CursorBehindChat, Part
<1>8. \A k \in Key : deliveries[<<k, Me>>].state = "none"
  BY PollingAssumption DEF MirrorInit, Init, DeliveryId, NoRow
<1>9. AcknowledgedIsWhole /\ AckedInv
  BY <1>8 DEF AcknowledgedIsWhole, AckedInv
<1>10. OwnersInv
  BY <1>5, RestingRun DEF OwnersInv, Apart, Owning, Holding
<1>11. ChatInv
  BY <1>5 DEF ChatInv, KeyChat
<1> QED BY <1>1, <1>3, <1>4, <1>6, <1>7, <1>9, <1>10, <1>11 DEF MInv

\* Every step keeps the invariant.
LEMMA NextMInv == MInv /\ [MirrorNext]_everything => MInv'
<1> SUFFICES ASSUME MInv, [MirrorNext]_everything PROVE MInv'
  OBVIOUS
<1>1. CASE TimePasses \/ Hub \/ Upgrade
  BY <1>1, TimePassesStep, HubStep, UpgradeStep
<1>2. ASSUME NEW w \in Worker, Steps(w) PROVE MInv'
  BY <1>2, PollStep, BeginStep, ResumeStep, SendStep, AdvanceStep, AdvanceFailedStep,
     FinishStep, ClearStep, ReleaseStep, SendAckStep, AckFailedStep, ReturnStep DEF Steps
<1>3. ASSUME NEW w \in Worker, Crash(w) PROVE MInv'
  BY <1>3, CrashStep
<1>4. CASE UNCHANGED everything
  <2>1. UNCHANGED <<vars, inbox, stalled, workers, progress, rendering, posts, shown, doubts, crashes, losses>>
    BY <1>4 DEF everything, mirrorVars
  <2>2. IInv'
    BY <2>1, BrokerKept DEF MInv
  <2>3. MirrorTypeOK' /\ RunsInv' /\ TablesInv' /\ CursorBehindChat'
    BY <2>1 DEF MInv, MirrorTypeOK, RunsInv, TablesInv, CursorBehindChat
  <2>4. AcknowledgedIsWhole'
    BY <2>1 DEF MInv, AcknowledgedIsWhole, StandsInChat, vars
  <2>5. \A k \in Key : Pending(k)' <=> Pending(k)
    BY <2>1 DEF Pending
  <2>6. ~stalled => OwnersInv' /\ ChatInv' /\ AckedInv'
    BY <2>1, <2>5 DEF MInv, OwnersInv, ChatInv, KeyChat, AckedInv, vars
  <2> QED BY <2>1, <2>2, <2>3, <2>4, <2>6 DEF MInv
<1> QED BY <1>1, <1>2, <1>3, <1>4 DEF MirrorNext

-----------------------------------------------------------------------------
(* The theorems *)

\* The inductive invariant holds in every reachable state of the mirror and
\* the hub, whatever runs overlap, die or stall, whatever exchange with
\* Telegram or the hub is lost, and whenever another rendering is deployed.
THEOREM MirrorInvariance == MirrorSpec => []MInv
<1> QED BY InitMInv, NextMInv, PTL DEF MirrorSpec

\* The mirror's tables, its runs and the chat are well formed: in particular
\* deliver_rendered_parts never addresses a part beyond MAX_MIRROR_PARTS.
THEOREM MirrorTypes == MirrorSpec => []MirrorTypeOK
<1>1. MInv => MirrorTypeOK
  BY DEF MInv
<1> QED BY <1>1, MirrorInvariance, PTL

\* The cursor of mirror_part_progress is never ahead of the chat and the chat
\* has no gaps, over any retry, take-over, crash or stall.
THEOREM CursorNeverAhead == MirrorSpec => []CursorBehindChat
<1>1. MInv => CursorBehindChat
  BY DEF MInv
<1> QED BY <1>1, MirrorInvariance, PTL

\* Until a run outlasts the processing timeout, every repetition of a part is
\* paid for by an earlier post of that part whose answer was lost: what was
\* confirmed and recorded by advance is never posted again.
THEOREM ConfirmedNotRepeated == MirrorSpec => []ConfirmedOnce
<1>1. MInv => ConfirmedOnce
  BY DEF MInv, ChatInv, KeyChat, ConfirmedOnce
<1> QED BY <1>1, MirrorInvariance, PTL

\* What the hub holds as acknowledged by the mirror stands in the chat as a
\* whole; the exception is a key that shows other bytes after a stall.
THEOREM AcknowledgedStands == MirrorSpec => []AcknowledgedIsWhole
<1>1. MInv => AcknowledgedIsWhole
  BY DEF MInv
<1> QED BY <1>1, MirrorInvariance, PTL

\* Until a run outlasts the processing timeout, the chat shows a key in one
\* rendering of one envelope, over upgrades and reuse of a purged key.
THEOREM OneRenderingShown == MirrorSpec => []OneRendering
<1>1. ASSUME MInv PROVE OneRendering
  <2>1. ASSUME ~stalled, NEW k \in Key PROVE Cardinality(shown[k]) <= 1
    <3>1. \A s, t \in shown[k] : s = t
      <4>1. KeyChat(posts[k], shown[k], doubts[k], inbox[k].state, progress[k], Pending(k))
        BY <1>1, <2>1 DEF MInv, ChatInv
      <4> QED BY <4>1 DEF KeyChat
    <3>2. CASE shown[k] = {}
      BY <3>2, FS_EmptySet
    <3>3. CASE shown[k] # {}
      <4>1. PICK s \in shown[k] : TRUE
        BY <3>3
      <4>2. shown[k] = {s}
        BY <3>1, <4>1
      <4>3. Cardinality({s}) = 1
        BY FS_Singleton
      <4> QED BY <4>2, <4>3
    <3> QED BY <3>2, <3>3
  <2> QED BY <2>1 DEF OneRendering
<1> QED BY <1>1, MirrorInvariance, PTL

\* The hub keeps its promises towards the mirror: attempts are capped, a lease
\* is spent once, an acknowledgement has its ack event and a cursor rests on
\* settled deliveries, with the mirror as the recipient.
THEOREM MirrorKeepsBroker ==
    MirrorSpec => [](AttemptCap /\ LeaseSpentOnce /\ AcknowledgedHasProof /\ CursorOnTerminal)
<1>1. MInv => AttemptCap /\ LeaseSpentOnce /\ AcknowledgedHasProof /\ CursorOnTerminal
  BY IInvImplies DEF MInv
<1> QED BY <1>1, MirrorInvariance, PTL
=============================================================================
