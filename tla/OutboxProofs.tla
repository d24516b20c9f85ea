---------------------------- MODULE OutboxProofs ----------------------------
(***************************************************************************)
(* Machine-checked proofs about Outbox, for every set of envelopes and     *)
(* sender processes and every policy.                                      *)
(***************************************************************************)
EXTENDS Outbox, FiniteSetTheorems, WellFoundedInduction, TLAPS

-----------------------------------------------------------------------------
(* The inductive invariant *)

Staged == {e \in Envelope : outbox[e].state # "none"}

\* Row ids are given out one by one.
IdsInv ==
    /\ IsFiniteSet(Staged)
    /\ \A e \in Staged : outbox[e].id <= Cardinality(Staged)
    /\ \A e, f \in Staged : outbox[e].id = outbox[f].id => e = f

\* A process in a batch holds at most one item for an envelope, all of them
\* staged.
BatchOK(p) ==
    /\ procs[p].pc \in {"post", "complete"} => procs[p].batch # {}
    /\ \A i \in procs[p].batch : i.envelope \in Staged
    /\ \A i, j \in procs[p].batch : i.envelope = j.envelope => i = j

BatchInv == \A p \in Process : BatchOK(p)

\* Why no retry would help.
Cause(p, e) ==
    e \in Refused \cup Unrouted \/ left[e] = 0 \/ e \in admitted \/ Expired(p)

\* What a process is about to write down is true of the item it works on.
ResultOK(p) ==
    procs[p].pc = "complete" =>
        /\ procs[p].result # ""
        /\ procs[p].result = "receipt" => HeadItem(p).envelope \in admitted
        /\ procs[p].result = "terminal" => Cause(p, HeadItem(p).envelope)

ResultInv == \A p \in Process : ResultOK(p)

OInv == TypeOK /\ IdsInv /\ BatchInv /\ ResultInv /\ SentWasAdmitted

-----------------------------------------------------------------------------
(* The item a process works on *)

\* A non-empty set of natural numbers has a least element.
LEMMA NatMin ==
    ASSUME NEW T \in SUBSET Nat, T # {}
    PROVE  \E m \in T : \A n \in T : m <= n
<1> DEFINE R == OpToRel(<, Nat)
<1>1. IsWellFoundedOn(R, Nat)
  BY NatLessThanWellFounded
<1>2. ASSUME NEW m \in Nat, NEW n \in Nat, ~(<<n, m>> \in R) PROVE m <= n
  BY <1>2 DEF OpToRel
<1> HIDE DEF R
<1>3. PICK m \in T : \A n \in T : ~(<<n, m>> \in R)
  BY <1>1, WFMin
<1>4. ASSUME NEW n \in T PROVE m <= n
  <2>1. m \in Nat /\ n \in Nat /\ ~(<<n, m>> \in R)
    BY <1>3
  <2> QED BY <1>2, <2>1
<1> QED BY <1>4

\* HeadItem as a function of the table and the batch.
HeadOf(tab, batch) ==
    CHOOSE i \in batch : \A j \in batch : tab[i.envelope].id <= tab[j.envelope].id

\* A batch has an item with the least row id.
LEMMA HeadExists ==
    ASSUME NEW tab \in [Envelope -> Row], NEW batch \in SUBSET Item, batch # {}
    PROVE  /\ HeadOf(tab, batch) \in batch
           /\ \A j \in batch : tab[HeadOf(tab, batch).envelope].id <= tab[j.envelope].id
<1> DEFINE T == {tab[i.envelope].id : i \in batch}
<1>1. T \in SUBSET Nat /\ T # {}
  BY DEF Item, Row
<1>2. PICK m \in T : \A n \in T : m <= n
  BY <1>1, NatMin
<1>3. PICK i \in batch : \A j \in batch : tab[i.envelope].id <= tab[j.envelope].id
  BY <1>2
<1> QED BY <1>3 DEF HeadOf

\* Which one it is depends on the row ids alone.
LEMMA HeadSame ==
    ASSUME NEW tab \in [Envelope -> Row], NEW new \in [Envelope -> Row],
           NEW batch \in SUBSET Item, batch # {},
           \A i \in batch : new[i.envelope].id = tab[i.envelope].id,
           \A i, j \in batch : tab[i.envelope].id = tab[j.envelope].id => i = j
    PROVE  HeadOf(new, batch) = HeadOf(tab, batch)
<1> DEFINE i == HeadOf(tab, batch)
           j == HeadOf(new, batch)
<1>1. i \in batch /\ \A h \in batch : tab[i.envelope].id <= tab[h.envelope].id
  BY HeadExists
<1>2. j \in batch /\ \A h \in batch : new[j.envelope].id <= new[h.envelope].id
  BY HeadExists
<1> HIDE DEF i, j
<1>3. tab[i.envelope].id \in Nat /\ tab[j.envelope].id \in Nat
  BY <1>1, <1>2 DEF Item, Row
<1>4. tab[i.envelope].id = tab[j.envelope].id
  BY <1>1, <1>2, <1>3
<1>5. i = j
  BY <1>1, <1>2, <1>4
<1> QED BY <1>5 DEF i, j

\* The item a busy process works on is one of its staged rows.
LEMMA HeadStaged ==
    ASSUME OInv, NEW p \in Process, procs[p].pc \in {"post", "complete"}
    PROVE  /\ HeadItem(p) \in procs[p].batch
           /\ HeadItem(p).envelope \in Staged
           /\ HeadItem(p).envelope \in Envelope
<1>1. /\ outbox \in [Envelope -> Row] /\ procs[p].batch \in SUBSET Item
      /\ procs[p].batch # {}
      /\ \A i \in procs[p].batch : i.envelope \in Staged
  BY DEF OInv, TypeOK, BatchInv, BatchOK, Proc
<1>2. HeadItem(p) = HeadOf(outbox, procs[p].batch)
  BY DEF HeadItem, HeadOf
<1>3. HeadItem(p) \in procs[p].batch
  BY <1>1, <1>2, HeadExists
<1> QED BY <1>1, <1>3 DEF Staged

\* The item of a process that keeps its batch stays, whatever happens to the
\* table, since rows keep their ids.
LEMMA HeadKept ==
    ASSUME OInv, NEW p \in Process, procs[p].pc \in {"post", "complete"},
           procs'[p].batch = procs[p].batch, outbox' \in [Envelope -> Row],
           \A e \in Staged : outbox'[e].id = outbox[e].id
    PROVE  HeadItem(p)' = HeadItem(p)
<1> DEFINE batch == procs[p].batch
<1>1. /\ outbox \in [Envelope -> Row] /\ batch \in SUBSET Item /\ batch # {}
      /\ \A i \in batch : i.envelope \in Staged
      /\ \A i, j \in batch : i.envelope = j.envelope => i = j
      /\ \A e, f \in Staged : outbox[e].id = outbox[f].id => e = f
  BY DEF OInv, TypeOK, BatchInv, BatchOK, Proc, IdsInv
<1>2. HeadItem(p) = HeadOf(outbox, batch)
  BY DEF HeadItem, HeadOf
<1>3. HeadItem(p)' = HeadOf(outbox', batch)
  BY DEF HeadItem, HeadOf
<1> HIDE DEF batch
<1>4. HeadOf(outbox', batch) = HeadOf(outbox, batch)
  BY <1>1, HeadSame
<1> QED BY <1>2, <1>3, <1>4

-----------------------------------------------------------------------------
(* What the operations do to a row *)

\* A row keeps its id, never becomes absent, and is marked sent by nothing
\* but a completion.
Moved(row, new) ==
    /\ new \in Row
    /\ new.id = row.id
    /\ (new.state = "none") <=> (row.state = "none")
    /\ new.state = "sent" => row.state = "sent"
    /\ row.state \in Settled => new = row
    /\ new.state = "dead_letter" => row.state = "dead_letter" \/ row.attempts >= MaxAttempts

LEMMA MovedSelf == ASSUME NEW row \in Row PROVE Moved(row, row)
BY DEF Moved

\* A lapsed lease.
LEMMA LapseRow ==
    ASSUME NEW row \in Row, NEW age \in Nat
    PROVE  Moved(row, Lapse(row, age)) /\ Lapse(row, age).attempts = row.attempts
<1> -age \in Int OBVIOUS
<1> 0 \in Int OBVIOUS
<1> 0 \in Nat OBVIOUS
<1>1. CASE ~(row.state = "sending" /\ row.leaseFor + age <= 0)
  BY <1>1 DEF Lapse, Moved
<1>2. CASE row.state = "sending" /\ row.leaseFor + age <= 0 /\ row.attempts >= MaxAttempts
  <2> DEFINE new == [row EXCEPT !.state = "dead_letter", !.lease = 0, !.leaseFor = 0]
  <2>1. Lapse(row, age) = new
    BY <1>2 DEF Lapse
  <2>2. /\ new \in Row /\ new.id = row.id /\ new.state = "dead_letter"
        /\ new.attempts = row.attempts
    BY DEF Row
  <2> HIDE DEF new
  <2> QED BY <1>2, <2>1, <2>2 DEF Moved, Settled
<1>3. CASE row.state = "sending" /\ row.leaseFor + age <= 0 /\ ~(row.attempts >= MaxAttempts)
  <2> DEFINE new == [row EXCEPT !.state = "pending", !.wait = -age, !.lease = 0, !.leaseFor = 0]
  <2>1. Lapse(row, age) = new
    BY <1>3 DEF Lapse
  <2>2. new \in Row /\ new.id = row.id /\ new.state = "pending" /\ new.attempts = row.attempts
    BY DEF Row
  <2> HIDE DEF new
  <2> QED BY <1>3, <2>1, <2>2 DEF Moved, Settled
<1> QED BY <1>1, <1>2, <1>3

\* A granted lease.
LEMMA GrantRow ==
    ASSUME NEW row \in Row, NEW age \in Nat, row.state = "pending"
    PROVE  Moved(row, Grant(row, age))
<1> DEFINE new == Grant(row, age)
<1> 0 \in Int OBVIOUS
<1>1. LeaseMs - age \in Int /\ row.attempts + 1 \in Nat
  BY OutboxAssumption DEF Row
<1>2. new \in Row /\ new.id = row.id /\ new.state = "sending"
  BY <1>1 DEF Grant, Row
<1> HIDE DEF new
<1>3. Moved(row, new)
  BY <1>2 DEF Moved, Settled
<1> QED BY <1>3 DEF new

\* The passing of time.
LEMMA ElapseRow ==
    ASSUME NEW row \in Row
    PROVE  Moved(row, Elapse(row))
<1> -MaxStall \in Int BY OutboxAssumption
<1>1. CASE row.state = "pending"
  <2> DEFINE n == Down(row.wait, -MaxStall)
             new == [row EXCEPT !.wait = n]
  <2>1. n \in Int
    BY DEF Down, Row
  <2>2. Elapse(row) = new
    BY <1>1 DEF Elapse
  <2> HIDE DEF n
  <2>3. new \in Row /\ new.id = row.id /\ new.state = row.state
    BY <2>1 DEF Row
  <2> QED BY <1>1, <2>2, <2>3 DEF Moved, Settled
<1>2. CASE row.state = "sending"
  <2> DEFINE n == Down(row.leaseFor, -MaxStall)
             new == [row EXCEPT !.leaseFor = n]
  <2>1. n \in Int
    BY DEF Down, Row
  <2>2. Elapse(row) = new
    BY <1>2 DEF Elapse
  <2> HIDE DEF n
  <2>3. new \in Row /\ new.id = row.id /\ new.state = row.state
    BY <2>1 DEF Row
  <2> QED BY <1>2, <2>2, <2>3 DEF Moved, Settled
<1>3. CASE row.state \notin {"pending", "sending"}
  BY <1>3, MovedSelf DEF Elapse
<1> QED BY <1>1, <1>2, <1>3

\* claim_outbox moves every row on.
LEMMA ClaimRows ==
    ASSUME outbox \in [Envelope -> Row], NEW E \in SUBSET Envelope, NEW n, NEW age \in Nat,
           ClaimOutbox(E, n, age)
    PROVE  /\ outbox' \in [Envelope -> Row]
           /\ \A e \in Envelope : Moved(outbox[e], outbox'[e])
           /\ Claimable(E, n, age) \subseteq E
           /\ \A e \in Claimable(E, n, age) : outbox[e].state # "none"
<1> DEFINE C == Claimable(E, n, age)
<1>1. C \subseteq E /\ \A e \in C : Lapse(outbox[e], age).state = "pending"
  BY DEF Claimable
<1>2. outbox' = [e \in Envelope |-> IF e \in C THEN Grant(Lapse(outbox[e], age), age)
                                               ELSE Lapse(outbox[e], age)]
  BY DEF ClaimOutbox
<1> HIDE DEF C
<1>3. ASSUME NEW e \in Envelope
      PROVE  Moved(outbox[e], outbox'[e]) /\ (e \in C => outbox[e].state # "none")
  <2> DEFINE row == outbox[e]
             mid == Lapse(row, age)
  <2>1. row \in Row
    OBVIOUS
  <2>2. Moved(row, mid) /\ mid.attempts = row.attempts
    BY <2>1, LapseRow
  <2>3. outbox'[e] = IF e \in C THEN Grant(mid, age) ELSE mid
    BY <1>2
  <2>4. e \in C => mid.state = "pending"
    BY <1>1
  <2> HIDE DEF row, mid
  <2>5. e \in C => Moved(mid, Grant(mid, age))
    BY <2>2, <2>4, GrantRow DEF Moved
  <2>6. Moved(row, outbox'[e]) /\ (e \in C => row.state # "none")
    BY <2>2, <2>3, <2>4, <2>5 DEF Moved, Settled
  <2> QED BY <2>6 DEF row
<1>4. outbox' \in [Envelope -> Row]
  BY <1>2, <1>3 DEF Moved
<1> QED BY <1>1, <1>3, <1>4 DEF C

\* Retry delays, as far as the process's age leaves of them.
LEMMA DelayType ==
    ASSUME NEW n \in Nat, NEW age \in Nat
    PROVE  Since(Backoff(n), age) \in Int
<1>1. Backoff(n) \in Int
  <2> DEFINE x == IF n = 0 THEN 0 ELSE n - 1
  <2>1. x \in Nat
    OBVIOUS
  <2> HIDE DEF x
  <2>2. 2 ^ x \in Int
    BY <2>1
  <2> DEFINE y == 2 ^ x
  <2>3. RetryBase * y \in Int
    <3>1. y \in Int
      BY <2>2
    <3> HIDE DEF y
    <3> QED BY <3>1, OutboxAssumption
  <2> QED BY <2>3, OutboxAssumption DEF Backoff, x
<1> HIDE DEF Backoff
<1> QED BY <1>1, OutboxAssumption DEF Since

\* complete_outbox changes the row it holds the lease of: to sent for a
\* receipt, to dead_letter for a terminal result or spent attempts.
LEMMA CompleteRow ==
    ASSUME outbox \in [Envelope -> Row], NEW i \in Item, NEW age \in Nat,
           NEW result \in {"receipt", "retry", "terminal"},
           CompleteOutbox(i, result, age)
    PROVE  LET row == outbox[i.envelope]
               new == outbox'[i.envelope]
           IN  /\ outbox' \in [Envelope -> Row]
               /\ \A e \in Envelope : e # i.envelope => outbox'[e] = outbox[e]
               /\ new.id = row.id /\ new.state # "none"
               /\ new.state = "sent" => result = "receipt"
               /\ new.state = "dead_letter" => result = "terminal" \/ row.attempts >= MaxAttempts
<1> DEFINE row  == outbox[i.envelope]
           done == [row EXCEPT !.lease = 0, !.leaseFor = 0, !.wait = 0]
           delay == Since(Backoff(row.attempts), age)
           new  == CASE result = "receipt" -> [done EXCEPT !.state = "sent"]
                     [] result = "terminal" \/ (result = "retry" /\ row.attempts >= MaxAttempts) ->
                          [done EXCEPT !.state = "dead_letter"]
                     [] result = "retry" /\ row.attempts < MaxAttempts ->
                          [done EXCEPT !.state = "pending", !.wait = delay]
<1> 0 \in Int OBVIOUS
<1> 0 \in Nat OBVIOUS
<1>1. i.envelope \in Envelope /\ row \in Row
  BY DEF Item
<1>2. row.attempts \in Nat /\ MaxAttempts \in Nat
  BY <1>1, OutboxAssumption DEF Row
<1>3. delay \in Int
  BY <1>2, DelayType
<1>4. done \in Row /\ done.id = row.id
  <2> HIDE DEF row
  <2> QED BY <1>1 DEF Row
<1>5. outbox' = [outbox EXCEPT ![i.envelope] = new]
  BY DEF CompleteOutbox
<1> HIDE DEF row, done, delay
<1>6. /\ new \in Row /\ new.id = row.id /\ new.state # "none"
      /\ new.state = "sent" => result = "receipt"
      /\ new.state = "dead_letter" => result = "terminal" \/ row.attempts >= MaxAttempts
  <2>1. CASE result = "receipt"
    <3>1. new = [done EXCEPT !.state = "sent"]
      BY <2>1
    <3> QED BY <1>4, <2>1, <3>1 DEF Row
  <2>2. CASE result = "terminal" \/ (result = "retry" /\ row.attempts >= MaxAttempts)
    <3>1. new = [done EXCEPT !.state = "dead_letter"]
      BY <1>2, <2>2
    <3> QED BY <1>4, <2>2, <3>1 DEF Row
  <2>3. CASE result = "retry" /\ ~(row.attempts >= MaxAttempts)
    <3>1. new = [done EXCEPT !.state = "pending", !.wait = delay]
      BY <1>2, <2>3
    <3> DEFINE put == [done EXCEPT !.state = "pending", !.wait = delay]
    <3>2. put \in Row
      BY <1>3, <1>4 DEF Row
    <3>3. put.state = "pending" /\ put.id = done.id
      BY <1>4 DEF Row
    <3> HIDE DEF new, put
    <3> QED BY <1>4, <3>1, <3>2, <3>3 DEF put
  <2> QED BY <2>1, <2>2, <2>3
<1> HIDE DEF new
<1>7. outbox'[i.envelope] = new /\ outbox' \in [Envelope -> Row]
      /\ \A e \in Envelope : e # i.envelope => outbox'[e] = outbox[e]
  BY <1>1, <1>5, <1>6
<1> QED BY <1>6, <1>7 DEF row

-----------------------------------------------------------------------------
(* The invariant, in general *)

\* Rows that keep their ids keep them apart.
LEMMA IdsKept ==
    ASSUME OInv,
           \A e \in Envelope : /\ outbox'[e].id = outbox[e].id
                               /\ (outbox'[e].state = "none") <=> (outbox[e].state = "none")
    PROVE  IdsInv' /\ Staged' = Staged
<1>1. Staged' = Staged
  BY DEF Staged
<1> QED BY <1>1 DEF OInv, IdsInv, Staged

\* A process whose next step is still the same.
LEMMA ProcessKept ==
    ASSUME OInv, NEW p \in Process, outbox' \in [Envelope -> Row],
           \A e \in Staged : e \in Staged' /\ outbox'[e].id = outbox[e].id,
           admitted \subseteq admitted', \A e \in Envelope : left[e] = 0 => left'[e] = 0,
           procs'[p].pc = procs[p].pc, procs'[p].batch = procs[p].batch,
           procs'[p].result = procs[p].result,
           procs'[p].age \in Nat, procs'[p].age >= procs[p].age
    PROVE  BatchOK(p)' /\ ResultOK(p)'
<1>1. BatchOK(p) /\ ResultOK(p) /\ procs[p].age \in Nat /\ AuthTtl \in Nat
  BY OutboxAssumption DEF OInv, BatchInv, ResultInv, TypeOK, Proc
<1>2. BatchOK(p)'
  BY <1>1 DEF BatchOK
<1>3. ASSUME procs[p].pc = "complete"
      PROVE  HeadItem(p)' = HeadItem(p) /\ HeadItem(p).envelope \in Envelope
  BY <1>3, HeadKept, HeadStaged
<1>4. ASSUME NEW e \in Envelope, Cause(p, e) PROVE Cause(p, e)'
  BY <1>1, <1>4 DEF Cause, Expired
<1>5. ResultOK(p)'
  <2> SUFFICES ASSUME procs'[p].pc = "complete" PROVE ResultOK(p)'
    BY DEF ResultOK
  <2>1. PICK e \in Envelope : e = HeadItem(p).envelope
    BY <1>3
  <2>2. HeadItem(p)'.envelope = e
    BY <1>3, <2>1
  <2>3. procs[p].result = "terminal" => Cause(p, e)'
    BY <1>1, <1>4, <2>1 DEF ResultOK
  <2>4. procs[p].result = "terminal" => Cause(p, HeadItem(p).envelope)'
    BY <2>2, <2>3 DEF Cause
  <2> QED BY <1>1, <2>1, <2>2, <2>4 DEF ResultOK
<1> QED BY <1>2, <1>5

\* A step of one process that leaves the table as it is.
LEMMA ProcessStep ==
    ASSUME OInv, NEW p \in Process, UNCHANGED <<outbox, left>>,
           admitted \subseteq admitted', admitted' \subseteq Envelope,
           NEW new \in Proc, procs' = [procs EXCEPT ![p] = new],
           BatchOK(p)', ResultOK(p)'
    PROVE  OInv'
<1>1. /\ outbox \in [Envelope -> Row] /\ procs \in [Process -> Proc]
      /\ left \in [Envelope -> Nat]
  BY DEF OInv, TypeOK
<1>2. TypeOK'
  BY <1>1 DEF TypeOK
<1>3. IdsInv' /\ Staged' = Staged
  BY IdsKept
<1>4. ASSUME NEW u \in Process PROVE BatchOK(u)' /\ ResultOK(u)'
  <2>1. CASE u = p
    BY <2>1
  <2>2. CASE u # p
    <3>1. procs'[u] = procs[u] /\ procs[u].age \in Nat
      BY <1>1, <2>2 DEF Proc
    <3> QED BY <1>1, <1>3, <3>1, ProcessKept
  <2> QED BY <2>1, <2>2
<1>5. SentWasAdmitted'
  BY DEF OInv, SentWasAdmitted
<1> QED BY <1>2, <1>3, <1>4, <1>5 DEF OInv, BatchInv, ResultInv

\* A process that rests has nothing to keep.
LEMMA QuietOK ==
    /\ Quiet \in Proc
    /\ \A p \in Process : procs'[p] = Quiet => BatchOK(p)' /\ ResultOK(p)'
<1>1. Quiet \in Proc
  <2>1. 1 \in 1..Endpoint
    BY OutboxAssumption
  <2> QED BY <2>1 DEF Quiet, Proc
<1>2. Quiet.pc = "idle" /\ Quiet.batch = {}
  BY DEF Quiet
<1> QED BY <1>1, <1>2 DEF BatchOK, ResultOK

\* A POST ends with an outcome that holds of the item.
LEMMA OutcomeStep ==
    ASSUME OInv, NEW p \in Process, procs[p].pc = "post", UNCHANGED <<outbox, left>>,
           NEW result \in {"receipt", "retry", "terminal"}, Outcome(p, result),
           admitted \subseteq admitted', admitted' \subseteq Envelope,
           result = "receipt" => HeadItem(p).envelope \in admitted',
           result = "terminal" => \/ HeadItem(p).envelope \in Refused \cup Unrouted \cup admitted'
                                  \/ left[HeadItem(p).envelope] = 0
                                  \/ Expired(p)
    PROVE  OInv'
<1> DEFINE new == [procs[p] EXCEPT !.pc = "complete", !.result = result]
<1>1. procs \in [Process -> Proc] /\ outbox \in [Envelope -> Row]
  BY DEF OInv, TypeOK
<1>2. procs' = [procs EXCEPT ![p] = new]
  BY <1>1 DEF Outcome
<1>3. new \in Proc
  BY <1>1 DEF Proc
<1>4. /\ new.pc = "complete" /\ new.result = result /\ new.batch = procs[p].batch
      /\ new.age = procs[p].age
  BY <1>1 DEF Proc
<1> HIDE DEF new
<1>5. procs'[p] = new
  BY <1>1, <1>2
<1>6. HeadItem(p)' = HeadItem(p)
  BY <1>1, <1>4, <1>5, HeadKept
<1>7. BatchOK(p)'
  <2>1. Staged' = Staged
    BY DEF Staged
  <2> QED BY <1>4, <1>5, <2>1 DEF OInv, BatchInv, BatchOK
<1>8. ResultOK(p)'
  BY <1>4, <1>5, <1>6 DEF ResultOK, Cause, Expired
<1> QED BY <1>2, <1>3, <1>7, <1>8, ProcessStep

\* The POSTs.
LEMMA PostStep ==
    ASSUME OInv, NEW p \in Process,
           PostUnroutable(p) \/ PostReceipt(p) \/ PostUnavailable(p) \/ PostRejected(p)
    PROVE  OInv'
<1> DEFINE e == HeadItem(p).envelope
<1>1. procs[p].pc = "post" /\ UNCHANGED <<outbox, left>>
  BY DEF PostUnroutable, PostReceipt, PostUnavailable, PostRejected
<1>2. e \in Envelope /\ admitted \subseteq Envelope /\ left[e] \in Nat
  BY <1>1, HeadStaged DEF OInv, TypeOK
<1>3. Commit(p) => admitted \subseteq admitted' /\ admitted' \subseteq Envelope /\ e \in admitted'
  BY <1>2 DEF Commit
<1>4. UNCHANGED admitted => admitted \subseteq admitted' /\ admitted' \subseteq Envelope
  BY <1>2
<1>5. ~Accepts(p) => e \in Refused \/ left[e] = 0 \/ Expired(p)
  BY <1>2 DEF Accepts
<1>6. Unroutable(p) => e \in Unrouted
  BY DEF Unroutable
<1> HIDE DEF e
<1>7. CASE PostUnroutable(p)
  <2>1. Outcome(p, "terminal") /\ UNCHANGED admitted /\ Unroutable(p)
    BY <1>7 DEF PostUnroutable
  <2> QED BY <1>1, <1>4, <1>6, <2>1, OutcomeStep DEF e
<1>8. CASE PostReceipt(p)
  <2>1. Outcome(p, "receipt") /\ Commit(p)
    BY <1>8 DEF PostReceipt
  <2> QED BY <1>1, <1>3, <2>1, OutcomeStep DEF e
<1>9. CASE PostRejected(p)
  <2>1. /\ Outcome(p, "terminal")
        /\ (~Accepts(p) /\ UNCHANGED admitted) \/ Commit(p)
    BY <1>9 DEF PostRejected
  <2>2. /\ admitted \subseteq admitted' /\ admitted' \subseteq Envelope
        /\ e \in Refused \cup Unrouted \cup admitted' \/ left[e] = 0 \/ Expired(p)
    BY <1>3, <1>4, <1>5, <2>1
  <2> QED BY <1>1, <2>1, <2>2, OutcomeStep DEF e
<1>10. CASE PostUnavailable(p)
  <2>1. /\ admitted \subseteq admitted' /\ admitted' \subseteq Envelope
        /\ IF procs[p].route < Endpoint
           THEN procs' = [procs EXCEPT ![p].route = @ + 1]
           ELSE Outcome(p, "retry")
    BY <1>3, <1>4, <1>10 DEF PostUnavailable
  <2>2. CASE ~(procs[p].route < Endpoint)
    BY <1>1, <2>1, <2>2, OutcomeStep
  <2>3. CASE procs[p].route < Endpoint
    <3> DEFINE new == [procs[p] EXCEPT !.route = @ + 1]
    <3>1. procs \in [Process -> Proc] /\ outbox \in [Envelope -> Row]
      BY DEF OInv, TypeOK
    <3>2. procs[p].route + 1 \in 1..Endpoint
      <4>1. procs[p].route \in 1..Endpoint /\ Endpoint \in Nat
        BY <3>1, OutboxAssumption DEF Proc
      <4> QED BY <2>3, <4>1
    <3>3. new \in Proc /\ new.pc = "post" /\ new.batch = procs[p].batch
      BY <1>1, <3>1, <3>2 DEF Proc
    <3>4. procs' = [procs EXCEPT ![p] = new] /\ procs'[p] = new
      BY <2>1, <2>3, <3>1
    <3> HIDE DEF new
    <3>5. Staged' = Staged
      BY <1>1 DEF Staged
    <3>6. BatchOK(p)' /\ ResultOK(p)'
      BY <1>1, <3>3, <3>4, <3>5 DEF OInv, BatchInv, BatchOK, ResultOK
    <3> QED BY <1>1, <2>1, <3>3, <3>4, <3>6, ProcessStep
  <2> QED BY <2>2, <2>3
<1> QED BY <1>7, <1>8, <1>9, <1>10

\* A process that dies, or gives up after a lost lease.
LEMMA StopStep ==
    ASSUME OInv, NEW p \in Process, CompleteConflict(p) \/ Crash(p)
    PROVE  OInv'
<1>1. procs' = [procs EXCEPT ![p] = Quiet] /\ UNCHANGED <<outbox, left, admitted>>
  BY DEF CompleteConflict, Crash
<1>2. procs'[p] = Quiet /\ admitted \subseteq Envelope
  BY <1>1 DEF OInv, TypeOK
<1> QED BY <1>1, <1>2, QuietOK, ProcessStep

\* A step that moves rows on and gives one process a new batch or none.
LEMMA TableStep ==
    ASSUME OInv, UNCHANGED <<left, admitted>>, outbox' \in [Envelope -> Row],
           \A e \in Envelope : /\ outbox'[e].id = outbox[e].id
                               /\ (outbox'[e].state = "none") <=> (outbox[e].state = "none")
                               /\ outbox'[e].state = "sent" => e \in admitted,
           NEW p \in Process, NEW new \in Proc, procs' = [procs EXCEPT ![p] = new],
           BatchOK(p)', ResultOK(p)'
    PROVE  OInv'
<1>1. /\ outbox \in [Envelope -> Row] /\ procs \in [Process -> Proc]
      /\ left \in [Envelope -> Nat] /\ admitted \subseteq Envelope
  BY DEF OInv, TypeOK
<1>2. TypeOK'
  BY <1>1 DEF TypeOK
<1>3. IdsInv' /\ Staged' = Staged
  BY IdsKept
<1>4. \A e \in Staged : e \in Staged' /\ outbox'[e].id = outbox[e].id
  BY <1>3 DEF Staged
<1>5. ASSUME NEW u \in Process PROVE BatchOK(u)' /\ ResultOK(u)'
  <2>1. CASE u = p
    BY <2>1
  <2>2. CASE u # p
    <3>1. procs'[u] = procs[u] /\ procs[u].age \in Nat
      BY <1>1, <2>2 DEF Proc
    <3> QED BY <1>1, <1>4, <3>1, ProcessKept
  <2> QED BY <2>1, <2>2
<1>6. SentWasAdmitted'
  BY DEF SentWasAdmitted
<1> QED BY <1>2, <1>3, <1>5, <1>6 DEF OInv, BatchInv, ResultInv

\* A claim, by either loop, hands the process a batch of staged rows.
LEMMA ClaimStep ==
    ASSUME OInv, UNCHANGED <<left, admitted>>, NEW E \in SUBSET Envelope, NEW n,
           NEW age \in Nat, ClaimOutbox(E, n, age), NEW p \in Process, NEW new \in Proc,
           procs' = [procs EXCEPT ![p] = new],
           \/ new = Quiet
           \/ /\ new.pc = "post" /\ new.batch = ClaimedItems(E, n, age)
              /\ Claimable(E, n, age) # {}
    PROVE  OInv'
<1>1. /\ outbox \in [Envelope -> Row] /\ procs \in [Process -> Proc]
  BY DEF OInv, TypeOK
<1>2. /\ outbox' \in [Envelope -> Row]
      /\ \A e \in Envelope : Moved(outbox[e], outbox'[e])
      /\ Claimable(E, n, age) \subseteq E
      /\ \A e \in Claimable(E, n, age) : outbox[e].state # "none"
  BY <1>1, ClaimRows
<1>3. \A e \in Envelope : /\ outbox'[e].id = outbox[e].id
                          /\ (outbox'[e].state = "none") <=> (outbox[e].state = "none")
                          /\ outbox'[e].state = "sent" => e \in admitted
  BY <1>2 DEF Moved, OInv, SentWasAdmitted
<1>4. procs'[p] = new
  BY <1>1
<1>5. BatchOK(p)' /\ ResultOK(p)'
  <2>1. CASE new = Quiet
    BY <1>4, <2>1, QuietOK
  <2>2. CASE /\ new.pc = "post" /\ new.batch = ClaimedItems(E, n, age)
             /\ Claimable(E, n, age) # {}
    <3> DEFINE C == Claimable(E, n, age)
               item(e) == [envelope |-> e, lease |-> outbox[e].attempts + 1]
    <3>0. new.batch = {item(e) : e \in C} /\ C # {} /\ \A e \in C : item(e).envelope = e
      BY <2>2 DEF ClaimedItems
    <3>1. new.batch # {} /\ \A i, j \in new.batch : i.envelope = j.envelope => i = j
      <4> HIDE DEF C, item
      <4> QED BY <3>0
    <3>2. \A i \in new.batch : i.envelope \in Claimable(E, n, age)
      BY <2>2 DEF ClaimedItems
    <3>3. \A i \in new.batch : i.envelope \in Staged'
      BY <1>2, <1>3, <3>2 DEF Staged
    <3> QED BY <1>4, <2>2, <3>1, <3>3 DEF BatchOK, ResultOK
  <2> QED BY <2>1, <2>2
<1> QED BY <1>2, <1>3, <1>5, TableStep

\* What a claim hands over is a batch.
LEMMA ClaimedType ==
    ASSUME outbox \in [Envelope -> Row], NEW E \in SUBSET Envelope, NEW n, NEW age
    PROVE  ClaimedItems(E, n, age) \in SUBSET Item
<1>1. Claimable(E, n, age) \subseteq Envelope
  BY DEF Claimable
<1>2. \A e \in Envelope : outbox[e].attempts + 1 \in Nat
  BY DEF Row
<1> QED BY <1>1, <1>2 DEF ClaimedItems, Item

LEMMA SendClaimStep == ASSUME OInv, NEW p \in Process, SendClaim(p) PROVE OInv'
<1> DEFINE E == procs[p].staged
           t == procs[p].age
           items == ClaimedItems(E, 1, t)
           new == IF Claimable(E, 1, t) = {} THEN Quiet
                  ELSE [procs[p] EXCEPT !.pc = "post", !.staged = {}, !.batch = items]
<1>1. outbox \in [Envelope -> Row] /\ procs \in [Process -> Proc]
  BY DEF OInv, TypeOK
<1>2. E \in SUBSET Envelope /\ t \in Nat
  BY <1>1 DEF Proc
<1>3. /\ ClaimOutbox(E, 1, t) /\ procs' = [procs EXCEPT ![p] = new]
      /\ UNCHANGED <<left, admitted>>
  BY <1>1 DEF SendClaim
<1>4. items \in SUBSET Item
  BY <1>1, <1>2, ClaimedType
<1> HIDE DEF items
<1>5. new \in Proc
  BY <1>1, <1>4, QuietOK DEF Proc
<1>6. new # Quiet => /\ new.pc = "post" /\ new.batch = items /\ Claimable(E, 1, t) # {}
  BY <1>1 DEF Proc
<1> HIDE DEF new, E, t
<1> QED BY <1>2, <1>3, <1>5, <1>6, ClaimStep DEF items

LEMMA FlushStep == ASSUME OInv, NEW p \in Process, Flush(p) PROVE OInv'
<1> DEFINE items == ClaimedItems(Envelope, Limit, 0)
           new == IF Claimable(Envelope, Limit, 0) = {} THEN Quiet
                  ELSE [Quiet EXCEPT !.pc = "post", !.flush = TRUE, !.batch = items]
<1>1. outbox \in [Envelope -> Row] /\ procs \in [Process -> Proc]
  BY DEF OInv, TypeOK
<1>2. /\ ClaimOutbox(Envelope, Limit, 0) /\ procs' = [procs EXCEPT ![p] = new]
      /\ UNCHANGED <<left, admitted>>
  BY DEF Flush
<1>3. items \in SUBSET Item
  BY <1>1, ClaimedType
<1> HIDE DEF items
<1>4. new \in Proc
  BY <1>3, QuietOK DEF Proc
<1>5. new # Quiet => /\ new.pc = "post" /\ new.batch = items
                     /\ Claimable(Envelope, Limit, 0) # {}
  BY DEF Quiet
<1> HIDE DEF new
<1>6. Envelope \in SUBSET Envelope /\ 0 \in Nat
  OBVIOUS
<1> QED BY <1>2, <1>4, <1>5, <1>6, ClaimStep DEF items

\* The answer is written down, and the next item of the batch comes up.
LEMMA CompleteStep == ASSUME OInv, NEW p \in Process, Complete(p) PROVE OInv'
<1> DEFINE i    == HeadItem(p)
           rest == procs[p].batch \ {i}
           age  == procs[p].age
           new  == IF rest = {} THEN Quiet
                   ELSE [procs[p] EXCEPT !.pc = "post", !.batch = rest, !.route = 1,
                                         !.result = ""]
<1>1. outbox \in [Envelope -> Row] /\ procs \in [Process -> Proc]
  BY DEF OInv, TypeOK
<1>2. /\ procs[p].pc = "complete" /\ HoldsLease(i)
      /\ CompleteOutbox(i, procs[p].result, age)
      /\ procs' = [procs EXCEPT ![p] = new] /\ UNCHANGED <<left, admitted>>
  BY <1>1 DEF Complete
<1>3. i \in procs[p].batch /\ procs[p].batch \subseteq Item /\ i \in Item /\ age \in Nat
  BY <1>1, <1>2, HeadStaged DEF Proc
<1>4. procs[p].result \in {"receipt", "retry", "terminal"}
      /\ (procs[p].result = "receipt" => i.envelope \in admitted)
  BY <1>1, <1>2 DEF OInv, ResultInv, ResultOK, Proc
<1>5. new \in Proc
  <2>1. 1 \in 1..Endpoint
    BY OutboxAssumption
  <2> QED BY <1>1, <1>3, <2>1, QuietOK DEF Proc
<1>6. new # Quiet => new.pc = "post" /\ new.batch = rest /\ rest # {}
  BY <1>1 DEF Proc
<1>7. rest \subseteq procs[p].batch
  OBVIOUS
<1>8. outbox[i.envelope].state = "sending"
  BY <1>2 DEF HoldsLease
<1> HIDE DEF i, age, new, rest
<1>9. /\ outbox' \in [Envelope -> Row]
      /\ \A e \in Envelope : e # i.envelope => outbox'[e] = outbox[e]
      /\ outbox'[i.envelope].id = outbox[i.envelope].id
      /\ outbox'[i.envelope].state # "none"
      /\ outbox'[i.envelope].state = "sent" => procs[p].result = "receipt"
  BY <1>1, <1>2, <1>3, <1>4, CompleteRow
<1>10. \A e \in Envelope : /\ outbox'[e].id = outbox[e].id
                           /\ (outbox'[e].state = "none") <=> (outbox[e].state = "none")
                           /\ outbox'[e].state = "sent" => e \in admitted
  BY <1>4, <1>8, <1>9 DEF OInv, SentWasAdmitted
<1>11. procs'[p] = new
  BY <1>1, <1>2
<1>12. BatchOK(p)' /\ ResultOK(p)'
  <2>1. CASE new = Quiet
    BY <1>11, <2>1, QuietOK
  <2>2. CASE new # Quiet
    <3>1. \A j \in rest : j.envelope \in Staged'
      BY <1>7, <1>10 DEF OInv, BatchInv, BatchOK, Staged
    <3>2. \A j, k \in rest : j.envelope = k.envelope => j = k
      BY <1>7 DEF OInv, BatchInv, BatchOK
    <3> QED BY <1>6, <1>11, <2>2, <3>1, <3>2 DEF BatchOK, ResultOK
  <2> QED BY <2>1, <2>2
<1> QED BY <1>2, <1>5, <1>9, <1>10, <1>12, TableStep

\* A new row gets the next id; a row that is there is left alone.
LEMMA SendStageStep ==
    ASSUME OInv, NEW p \in Process, NEW e \in Envelope, SendStage(p, e)
    PROVE  OInv'
<1> DEFINE id  == 1 + Cardinality(Staged)
           row == [NoRow EXCEPT !.state = "pending", !.id = id]
           new == [Quiet EXCEPT !.pc = "staged", !.staged = {e}]
<1>1. /\ outbox \in [Envelope -> Row] /\ procs \in [Process -> Proc]
      /\ left \in [Envelope -> Nat] /\ admitted \subseteq Envelope
  BY DEF OInv, TypeOK
<1>2. /\ procs' = [procs EXCEPT ![p] = new] /\ UNCHANGED <<left, admitted>>
      /\ outbox' = IF outbox[e].state # "none" THEN outbox ELSE [outbox EXCEPT ![e] = row]
  BY DEF SendStage, StageOutbox, Staged
<1>3. new \in Proc /\ new.pc = "staged" /\ new.batch = {}
  BY QuietOK DEF Quiet, Proc
<1>4. IsFiniteSet(Staged) /\ Cardinality(Staged) \in Nat /\ id \in Nat
  BY FS_CardinalityType DEF OInv, IdsInv
<1> 0 \in Int OBVIOUS
<1> 0 \in Nat OBVIOUS
<1> HIDE DEF id
<1>5. row \in Row /\ row.state = "pending" /\ row.id = id
  BY <1>4 DEF NoRow, Row
<1> HIDE DEF row, new
<1>6. procs'[p] = new
  BY <1>1, <1>2
<1>7. TypeOK'
  BY <1>1, <1>2, <1>3, <1>5 DEF TypeOK
<1>8. \A f \in Staged : f \in Staged' /\ outbox'[f].id = outbox[f].id
  BY <1>1, <1>2 DEF Staged
<1>9. IdsInv'
  <2>1. CASE outbox[e].state # "none"
    BY <1>2, <2>1 DEF OInv, IdsInv, Staged
  <2>2. CASE outbox[e].state = "none"
    <3>1. Staged' = Staged \cup {e} /\ e \notin Staged
      BY <1>1, <1>2, <1>5, <2>2 DEF Staged
    <3>2. IsFiniteSet(Staged') /\ Cardinality(Staged') = Cardinality(Staged) + 1
      BY <1>4, <3>1, FS_AddElement
    <3>3. outbox'[e].id = Cardinality(Staged) + 1
      BY <1>1, <1>2, <1>4, <1>5, <2>2 DEF id
    <3>4. \A f \in Staged : /\ outbox'[f].id \in Nat /\ outbox'[f].id <= Cardinality(Staged)
                            /\ outbox'[f].id = outbox[f].id
      BY <1>1, <1>8 DEF OInv, IdsInv, Staged, Row
    <3>5. \A f \in Staged' : outbox'[f].id <= Cardinality(Staged')
      BY <1>4, <3>1, <3>2, <3>3, <3>4
    <3>6. \A f, g \in Staged' : outbox'[f].id = outbox'[g].id => f = g
      <4>1. \A f, g \in Staged : outbox'[f].id = outbox'[g].id => f = g
        BY <3>4 DEF OInv, IdsInv
      <4>2. \A f \in Staged : outbox'[f].id # outbox'[e].id
        BY <1>4, <3>3, <3>4
      <4> QED BY <3>1, <4>1, <4>2
    <3> QED BY <3>2, <3>5, <3>6 DEF IdsInv
  <2> QED BY <2>1, <2>2
<1>10. ASSUME NEW u \in Process PROVE BatchOK(u)' /\ ResultOK(u)'
  <2>1. CASE u = p
    BY <1>3, <1>6, <2>1 DEF BatchOK, ResultOK
  <2>2. CASE u # p
    <3>1. procs'[u] = procs[u] /\ procs[u].age \in Nat
      BY <1>1, <1>2, <2>2 DEF Proc
    <3>2. outbox' \in [Envelope -> Row]
      BY <1>7 DEF TypeOK
    <3> QED BY <1>2, <1>8, <3>1, <3>2, ProcessKept
  <2> QED BY <2>1, <2>2
<1>11. SentWasAdmitted'
  BY <1>1, <1>2, <1>5 DEF OInv, SentWasAdmitted
<1> QED BY <1>7, <1>9, <1>10, <1>11 DEF OInv, BatchInv, ResultInv

\* Timers run down, processes grow older.
LEMMA TickStep == ASSUME OInv, Tick PROVE OInv'
<1>1. /\ outbox \in [Envelope -> Row] /\ procs \in [Process -> Proc]
      /\ left \in [Envelope -> Nat] /\ admitted \subseteq Envelope
  BY DEF OInv, TypeOK
<1>2. /\ outbox' = [e \in Envelope |-> Elapse(outbox[e])]
      /\ procs' = [p \in Process |-> Older(procs[p])]
      /\ left' = [e \in Envelope |-> Down(left[e], 0)] /\ admitted' = admitted
  BY DEF Tick
<1>3. \A e \in Envelope : Moved(outbox[e], outbox'[e])
  BY <1>1, <1>2, ElapseRow
<1>4. outbox' \in [Envelope -> Row]
  BY <1>2, <1>3 DEF Moved
<1>5. \A e \in Envelope : left'[e] \in Nat /\ (left[e] = 0 => left'[e] = 0)
  BY <1>1, <1>2 DEF Down
<1>6. ASSUME NEW p \in Process
      PROVE  /\ procs'[p] \in Proc /\ procs'[p].pc = procs[p].pc
             /\ procs'[p].batch = procs[p].batch /\ procs'[p].result = procs[p].result
             /\ procs'[p].age \in Nat /\ procs'[p].age >= procs[p].age
  <2> DEFINE pr == procs[p]
             older == [pr EXCEPT !.age = @ + 1]
  <2>1. pr \in Proc
    BY <1>1
  <2>2. procs'[p] = pr \/ procs'[p] = older
    BY <1>2 DEF Older
  <2> HIDE DEF pr
  <2>3. pr.age \in Nat /\ pr.age + 1 \in Nat
    <3>1. pr.age \in Nat
      BY <2>1 DEF Proc
    <3> QED BY <3>1
  <2>4. /\ older \in Proc /\ older.pc = pr.pc /\ older.batch = pr.batch
        /\ older.result = pr.result /\ older.age = pr.age + 1
    BY <2>1, <2>3 DEF Proc
  <2> HIDE DEF older
  <2>5. /\ procs'[p] \in Proc /\ procs'[p].pc = pr.pc
        /\ procs'[p].batch = pr.batch /\ procs'[p].result = pr.result
        /\ procs'[p].age \in Nat /\ procs'[p].age >= pr.age
    BY <2>1, <2>2, <2>3, <2>4
  <2> QED BY <2>5 DEF pr
<1>7. TypeOK'
  BY <1>1, <1>2, <1>4, <1>5, <1>6 DEF TypeOK
<1>8. IdsInv' /\ Staged' = Staged
  BY <1>3, IdsKept DEF Moved
<1>9. \A e \in Staged : e \in Staged' /\ outbox'[e].id = outbox[e].id
  BY <1>3, <1>8 DEF Moved, Staged
<1>10. ASSUME NEW p \in Process PROVE BatchOK(p)' /\ ResultOK(p)'
  BY <1>2, <1>4, <1>5, <1>6, <1>9, ProcessKept
<1>11. SentWasAdmitted'
  BY <1>2, <1>3 DEF Moved, OInv, SentWasAdmitted
<1> QED BY <1>7, <1>8, <1>10, <1>11 DEF OInv, BatchInv, ResultInv

LEMMA NextOInv == OInv /\ [Next]_vars => OInv'
<1> SUFFICES ASSUME OInv, [Next]_vars PROVE OInv'
  OBVIOUS
<1>1. CASE UNCHANGED vars
  <2>1. TypeOK' /\ IdsInv' /\ SentWasAdmitted'
    BY <1>1 DEF vars, OInv, TypeOK, IdsInv, Staged, SentWasAdmitted
  <2>2. ASSUME NEW p \in Process PROVE BatchOK(p)' /\ ResultOK(p)'
    <3>1. outbox \in [Envelope -> Row] /\ procs[p].age \in Nat
      BY DEF OInv, TypeOK, Proc
    <3> QED BY <1>1, <3>1, ProcessKept DEF vars, Staged
  <2> QED BY <2>1, <2>2 DEF OInv, BatchInv, ResultInv
<1>2. CASE \E p \in Process, e \in Envelope : SendStage(p, e)
  BY <1>2, SendStageStep
<1>3. CASE \E p \in Process : Flush(p)
  BY <1>3, FlushStep
<1>4. CASE \E p \in Process : Step(p)
  BY <1>4, SendClaimStep, PostStep, CompleteStep, StopStep DEF Step
<1>5. CASE \E p \in Process : Crash(p)
  BY <1>5, StopStep
<1>6. CASE Tick
  BY <1>6, TickStep
<1> QED BY <1>1, <1>2, <1>3, <1>4, <1>5, <1>6 DEF Next

-----------------------------------------------------------------------------
(* Theorems *)

\* The inductive invariant holds in every reachable state: rows have ids of
\* their own, a batch holds staged rows once each, and what a process is
\* about to write down is true of the row it writes it to.
THEOREM OutboxInvariance == Spec => []OInv
<1>1. Init => OInv
  <2> SUFFICES ASSUME Init PROVE OInv
    OBVIOUS
  <2> 0 \in Int OBVIOUS
  <2> 0 \in Nat OBVIOUS
  <2>1. NoRow \in Row /\ NoRow.state = "none"
    BY DEF NoRow, Row
  <2>2. Quiet \in Proc /\ Quiet.pc = "idle" /\ Quiet.batch = {}
    BY QuietOK DEF Quiet
  <2>3. TypeOK
    BY <2>1, <2>2, OutboxAssumption DEF Init, TypeOK
  <2>4. Staged = {}
    BY <2>1 DEF Init, Staged
  <2>5. IdsInv
    BY <2>4, FS_EmptySet DEF IdsInv
  <2>6. BatchInv /\ ResultInv
    BY <2>2 DEF Init, BatchInv, BatchOK, ResultInv, ResultOK
  <2>7. SentWasAdmitted
    BY <2>1 DEF Init, SentWasAdmitted
  <2> QED BY <2>3, <2>5, <2>6, <2>7 DEF OInv
<1> QED BY <1>1, NextOInv, PTL DEF Spec

\* A row that says sent was committed by an endpoint, whatever answers were
\* lost, whichever process died and whoever completed it late.
THEOREM SentOnlyIfAdmitted == Spec => []SentWasAdmitted
<1>1. OInv => SentWasAdmitted
  BY DEF OInv
<1> QED BY <1>1, OutboxInvariance, PTL

\* What a step may do to a row.
LEMMA RowStep ==
    ASSUME OInv, [Next]_vars, NEW e \in Envelope
    PROVE  \/ outbox[e].state = "none" /\ outbox'[e].state # "dead_letter"
           \/ Moved(outbox[e], outbox'[e])
           \/ \E p \in Process :
                 /\ procs[p].pc = "complete" /\ HeadItem(p).envelope = e
                 /\ outbox[e].state = "sending"
                 /\ outbox'[e].state = "dead_letter"
                       => procs[p].result = "terminal" \/ outbox[e].attempts >= MaxAttempts
<1>1. outbox \in [Envelope -> Row] /\ procs \in [Process -> Proc] /\ outbox[e] \in Row
  BY DEF OInv, TypeOK
<1>2. outbox' = outbox => Moved(outbox[e], outbox'[e])
  BY <1>1, MovedSelf
<1>3. ASSUME NEW p \in Process, NEW f \in Envelope, SendStage(p, f)
      PROVE  \/ outbox[e].state = "none" /\ outbox'[e].state # "dead_letter"
             \/ outbox'[e] = outbox[e]
  BY <1>1, <1>3 DEF SendStage, StageOutbox, NoRow
<1>4. ASSUME NEW p \in Process, SendClaim(p) PROVE Moved(outbox[e], outbox'[e])
  <2>1. PICK E \in SUBSET Envelope, t \in Nat : E = procs[p].staged /\ t = procs[p].age
    BY <1>1 DEF Proc
  <2>2. ClaimOutbox(E, 1, t)
    BY <1>4, <2>1 DEF SendClaim
  <2> QED BY <1>1, <2>2, ClaimRows
<1>5. ASSUME NEW p \in Process, Flush(p) PROVE Moved(outbox[e], outbox'[e])
  <2>1. ClaimOutbox(Envelope, Limit, 0) /\ Envelope \in SUBSET Envelope /\ 0 \in Nat
    BY <1>5 DEF Flush
  <2> QED BY <1>1, <2>1, ClaimRows
<1>6. ASSUME NEW p \in Process, Complete(p)
      PROVE  \/ outbox'[e] = outbox[e]
             \/ /\ procs[p].pc = "complete" /\ HeadItem(p).envelope = e
                /\ outbox[e].state = "sending"
                /\ outbox'[e].state = "dead_letter"
                      => procs[p].result = "terminal" \/ outbox[e].attempts >= MaxAttempts
  <2> DEFINE i == HeadItem(p)
  <2>1. /\ procs[p].pc = "complete" /\ HoldsLease(i)
        /\ CompleteOutbox(i, procs[p].result, procs[p].age)
    BY <1>6 DEF Complete
  <2>2. i \in Item /\ procs[p].age \in Nat
    BY <1>1, <2>1, HeadStaged DEF Proc
  <2>3. procs[p].result \in {"receipt", "retry", "terminal"}
    BY <1>1, <2>1 DEF OInv, ResultInv, ResultOK, Proc
  <2> HIDE DEF i
  <2>4. /\ \A f \in Envelope : f # i.envelope => outbox'[f] = outbox[f]
        /\ outbox'[i.envelope].state = "dead_letter"
              => procs[p].result = "terminal" \/ outbox[i.envelope].attempts >= MaxAttempts
    BY <1>1, <2>1, <2>2, <2>3, CompleteRow
  <2>5. outbox[i.envelope].state = "sending"
    BY <2>1 DEF HoldsLease
  <2> QED BY <2>1, <2>4, <2>5 DEF i
<1>7. Tick => Moved(outbox[e], outbox'[e])
  BY <1>1, ElapseRow DEF Tick
<1>8. CASE UNCHANGED vars
  BY <1>2, <1>8 DEF vars
<1>9. ASSUME NEW p \in Process,
             \/ PostUnroutable(p) \/ PostReceipt(p) \/ PostUnavailable(p) \/ PostRejected(p)
             \/ CompleteConflict(p) \/ Crash(p)
      PROVE  outbox' = outbox
  BY <1>9 DEF PostUnroutable, PostReceipt, PostUnavailable, PostRejected, CompleteConflict, Crash
<1>10. outbox'[e] = outbox[e] => Moved(outbox[e], outbox'[e])
  BY <1>1, MovedSelf
<1> QED BY <1>2, <1>3, <1>4, <1>5, <1>6, <1>7, <1>8, <1>9, <1>10 DEF Next, Step

\* A settled row never changes, whether it is staged again, a late completion
\* arrives or a lease that was once granted on it lapses.
THEOREM SettledStays == Spec => SettledIsFinal
<1>1. OInv /\ [Next]_vars =>
        \A e \in Envelope : outbox[e].state \in Settled => outbox'[e] = outbox[e]
  BY RowStep DEF Moved, Settled
<1> QED BY <1>1, OutboxInvariance, PTL DEF SettledIsFinal, Spec

\* A row with attempts left is given up only for a cause no retry would cure,
\* after an endpoint has it, or by a process that outlived its requests.
THEOREM GivingUpHasCause == Spec => GivenUpForCause
<1>1. ASSUME OInv, [Next]_vars, NEW e \in Envelope,
             outbox[e].state # "dead_letter", outbox'[e].state = "dead_letter",
             outbox[e].attempts < MaxAttempts
      PROVE  \/ e \in Refused \cup Unrouted \/ left[e] = 0 \/ e \in admitted
             \/ \E p \in Process : procs[p].pc = "complete" /\ HeadItem(p).envelope = e
                                      /\ Expired(p)
  <2>1. outbox[e] \in Row /\ outbox[e].attempts \in Nat /\ MaxAttempts \in Nat
    <3>1. outbox[e] \in Row
      BY <1>1 DEF OInv, TypeOK
    <3> QED BY <3>1, OutboxAssumption DEF Row
  <2>2. ~Moved(outbox[e], outbox'[e])
    BY <1>1, <2>1 DEF Moved
  <2>3. PICK p \in Process : /\ procs[p].pc = "complete" /\ HeadItem(p).envelope = e
                             /\ procs[p].result = "terminal" \/ outbox[e].attempts >= MaxAttempts
    BY <1>1, <2>2, RowStep
  <2>4. procs[p].result = "terminal"
    BY <1>1, <2>1, <2>3
  <2>5. Cause(p, e)
    BY <1>1, <2>3, <2>4 DEF OInv, ResultInv, ResultOK
  <2> QED BY <2>3, <2>5 DEF Cause
<1>2. OInv /\ [Next]_vars =>
        \A e \in Envelope :
          /\ outbox[e].state # "dead_letter" /\ outbox'[e].state = "dead_letter"
          /\ outbox[e].attempts < MaxAttempts
          => \/ e \in Refused \cup Unrouted \/ left[e] = 0 \/ e \in admitted
             \/ \E p \in Process : procs[p].pc = "complete" /\ HeadItem(p).envelope = e
                                      /\ Expired(p)
  BY <1>1
<1> QED BY <1>2, OutboxInvariance, PTL DEF GivenUpForCause, Spec
=============================================================================
