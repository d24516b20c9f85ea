--------------------------- MODULE RotationProofs ---------------------------
(***************************************************************************)
(* Machine-checked proofs about Rotation, for every finite set of agents,  *)
(* every first directory and every choice of times and limits.             *)
(***************************************************************************)
EXTENDS Rotation, FiniteSetTheorems, SequenceTheorems, WellFoundedInduction, TLAPS

-----------------------------------------------------------------------------
(* The inductive invariant *)

\* A rotation adds one key of each purpose to every agent, a recovery none:
\* the two lists grow together, by at most one key for each directory.
Grown(d, n) ==
    \A a \in Agent :
        /\ Len(d.keys[<<a, "sig">>]) - Len(First.keys[<<a, "sig">>])
             = Len(d.keys[<<a, "enc">>]) - Len(First.keys[<<a, "enc">>])
        /\ Len(d.keys[<<a, "sig">>]) - Len(First.keys[<<a, "sig">>]) \in 0..n

\* The bundle holds the private half of key n of list p under the key's ID.
Holds(b, p, n, pub) ==
    IF p = "sig" THEN b.kid = n /\ b.sig = pub ELSE n \in DOMAIN b.enc /\ b.enc[n] = pub

InCustody(d, disk) ==
    \A a \in Agent, p \in Purpose :
        \A n \in DOMAIN d.keys[<<a, p>>] \ DOMAIN First.keys[<<a, p>>] :
            \E b \in disk[a] : Holds(b, p, n, d.keys[<<a, p>>][n].pub)

Covers(d) ==
    \A x \in Owned : \A t \in d.issued .. (d.expires - 1) : ActiveKey(d.keys[x], t) # 0

\* The key after a step of governance keeps its bytes and start, may end
\* earlier and may be revoked.
Narrowed(k, l) ==
    /\ l.pub = k.pub /\ l.from = k.from /\ l.until <= k.until
    /\ l.status # k.status => l.status = "revoked"

Shrunk(d, c) ==
    \A x \in Owned : /\ Len(d.keys[x]) <= Len(c.keys[x])
                     /\ \A n \in DOMAIN d.keys[x] : Narrowed(d.keys[x][n], c.keys[x][n])

DirsInv ==
    /\ dirs \in Seq(Directory) /\ Epoch >= 1
    /\ \A e \in 1..Epoch : Grown(dirs[e], e - 1) /\ InCustody(dirs[e], staged)
    /\ \A e \in 2..Epoch : Shrunk(dirs[e - 1], dirs[e]) /\ Covers(dirs[e])

DraftInv ==
    \/ draft = NoDraft
    \/ /\ draft \in Directory /\ draft.base = Epoch
       /\ Grown(draft, Epoch) /\ InCustody(draft, staged)
       /\ Shrunk(Newest, draft) /\ Covers(draft)

\* What an announcement offers is on its agent's disk, under the key IDs that
\* follow the lists of the directory it is based on.
AnnouncementOK(m, D, disk, t) ==
    /\ m \in Announcement /\ m.base \in 1..Len(D) /\ m.issued <= t
    /\ \A p \in Purpose : m.previous[p] \in DOMAIN D[m.base].keys[<<m.agent, p>>]
    /\ \E b \in disk[m.agent] :
          \A p \in Purpose : Holds(b, p, Len(D[m.base].keys[<<m.agent, p>>]) + 1, m.pub)

AnnouncedInv == \A m \in announced : AnnouncementOK(m, dirs, staged, now)

\* The newest encryption key of a bundle belongs to the same ceremony as its
\* signing key.
Top(a, b) == b.kid - Len(First.keys[<<a, "sig">>]) + Len(First.keys[<<a, "enc">>])

Bundle(a, b) ==
    /\ b = [agent |-> b.agent, kid |-> b.kid, sig |-> b.sig, enc |-> b.enc]
    /\ b.agent = a /\ IsBundle(b)
    /\ Top(a, b) \in DOMAIN b.enc /\ \A n \in DOMAIN b.enc : n <= Top(a, b)

\* A signed directory vouches for every key of the bundle.
Vouches(d, a, b) ==
    LET sig == d.keys[<<a, "sig">>]
        enc == d.keys[<<a, "enc">>]
    IN  /\ b.kid \in DOMAIN sig /\ sig[b.kid].pub = b.sig
        /\ \A n \in DOMAIN b.enc : n \in DOMAIN enc /\ enc[n].pub = b.enc[n]

Governed(a, b, D) == \E e \in 1..Len(D) : Vouches(D[e], a, b)

BundlesInv ==
    /\ current = [a \in Agent |-> current[a]]
    /\ staged = [a \in Agent |-> staged[a]]
    /\ \A a \in Agent : /\ Bundle(a, current[a]) /\ Governed(a, current[a], dirs)
                        /\ IsFiniteSet(staged[a]) /\ \A b \in staged[a] : Bundle(a, b)

\* What an activate has found out so far.
OpOK(o, D, disk, saved) ==
    /\ o = [pc |-> o.pc, old |-> o.old, new |-> o.new]
    /\ o.pc \in {"locking", "backup", "commit"}
    /\ o.new.agent \in Agent /\ o.new \in disk[o.new.agent]
    /\ Bundle(o.new.agent, o.old) /\ Bundle(o.new.agent, o.new)
    /\ Governed(o.new.agent, o.new, D)
    /\ o.pc # "locking" => o.old.kid # o.new.kid /\ Retains(o.old, o.new)
    /\ o.pc = "commit" => saved[o.new.agent][o.new.kid] = o.old

OpsInv ==
    /\ ops = [p \in Operator |-> ops[p]]
    /\ \A p \in Operator : ops[p] = Idle \/ OpOK(ops[p], dirs, staged, backups)

\* A bundle that was replaced is in one of the backups.
FilesInv ==
    /\ backups = [a \in Agent |-> [n \in Kid |-> backups[a][n]]]
    /\ was = [a \in Agent |-> was[a]]
    /\ \A a \in Agent, n \in Kid : backups[a][n] \in {Absent, Torn} \/ Bundle(a, backups[a][n])
    /\ \A a \in Agent : \A b \in was[a] : Bundle(a, b) /\ \E n \in Kid : backups[a][n] = b

CountsInv ==
    now \in 0..MaxTime /\ crashes \in 0..MaxCrashes /\ installed \in [Agent -> 1..Epoch]

RInv ==
    /\ CountsInv /\ DirsInv /\ DraftInv /\ AnnouncedInv /\ BundlesInv /\ OpsInv /\ FilesInv

-----------------------------------------------------------------------------
(* Greatest elements *)

\* A non-empty set of natural numbers has a least element.
LEMMA NatMin ==
    ASSUME NEW T \in SUBSET Nat, T # {}
    PROVE  \E m \in T : \A n \in T : m <= n
<1> DEFINE R == OpToRel(<, Nat)
<1>1. IsWellFoundedOn(R, Nat)
  BY NatLessThanWellFounded
<1>2. ASSUME NEW m \in Nat, NEW n \in Nat, ~(<<n, m>> \in R) PROVE m <= n
  BY <1>2 DEF OpToRel
<1> HIDE DEF R
<1>3. PICK m \in T : \A n \in T : ~(<<n, m>> \in R)
  BY <1>1, WFMin
<1>4. ASSUME NEW n \in T PROVE m <= n
  <2>1. m \in Nat /\ n \in Nat /\ ~(<<n, m>> \in R)
    BY <1>3
  <2> QED BY <1>2, <2>1
<1> QED BY <1>4

\* A non-empty set of natural numbers with an upper bound has a maximum.
LEMMA MaxExists ==
    ASSUME NEW T \in SUBSET Nat, T # {}, NEW bound \in Nat, \A n \in T : n <= bound
    PROVE  Max(T) \in T /\ \A n \in T : n <= Max(T)
<1> DEFINE U == {bound - n : n \in T}
<1>1. \A n \in T : n \in Nat /\ bound - n \in Nat
  OBVIOUS
<1>2. U \in SUBSET Nat /\ U # {}
  BY <1>1
<1>3. PICK u \in U : \A v \in U : u <= v
  <2> HIDE DEF U
  <2> QED BY <1>2, NatMin
<1>4. PICK m \in T : u = bound - m
  BY <1>3
<1>5. ASSUME NEW n \in T PROVE m >= n
  <2>1. bound - n \in U
    OBVIOUS
  <2>2. u <= bound - n
    BY <1>3, <2>1
  <2> QED BY <1>1, <1>4, <2>2
<1>6. Max(T) \in T /\ \A n \in T : Max(T) >= n
  BY <1>5 DEF Max
<1> QED BY <1>1, <1>6

\* Finitely many natural numbers have an upper bound.
LEMMA FiniteBound ==
    ASSUME NEW T \in SUBSET Nat, IsFiniteSet(T)
    PROVE  \E bound \in Nat : \A n \in T : n <= bound
<1> DEFINE Bounded(f, k) == \E bound \in Nat : \A i \in 1..k : f[i] <= bound
           Bad == {k \in Nat : \E f \in [1..k -> Nat] : ~Bounded(f, k)}
<1>1. ASSUME NEW k \in Bad, \A l \in Bad : k <= l PROVE FALSE
  <2>1. k \in Nat
    OBVIOUS
  <2>2. PICK f \in [1..k -> Nat] : ~Bounded(f, k)
    OBVIOUS
  <2>3. \A h : Bounded(h, 0)
    <3>1. 0 \in Nat /\ 1..0 = {}
      OBVIOUS
    <3> QED BY <3>1
  <2>4. \A c \in Nat : \E i \in 1..k : ~(f[i] <= c)
    BY <2>2
  <2>5. \A l \in Nat : l \notin Bad => \A h \in [1..l -> Nat] : Bounded(h, l)
    OBVIOUS
  <2> HIDE DEF Bad
  <2>6. k # 0
    BY <2>2, <2>3
  <2>7. k - 1 \in Nat
    BY <2>1, <2>6
  <2>8. k - 1 \notin Bad
    BY <1>1, <2>1, <2>7
  <2> DEFINE g == [i \in 1..(k - 1) |-> f[i]]
  <2>9. \A i \in 1..(k - 1) : i \in 1..k
    BY <2>1
  <2>10. g \in [1..(k - 1) -> Nat]
    BY <2>9
  <2>11. Bounded(g, k - 1)
    <3> HIDE DEF Bounded, g
    <3> QED BY <2>5, <2>7, <2>8, <2>10
  <2>12. PICK b \in Nat : \A i \in 1..(k - 1) : f[i] <= b
    BY <2>11
  <2>13. k \in 1..k
    BY <2>1, <2>6
  <2> HIDE DEF Bounded
  <2>14. PICK c \in Nat : b <= c /\ f[k] <= c
    <3>1. f[k] \in Nat
      BY <2>13
    <3>2. CASE b <= f[k]
      BY <3>1, <3>2
    <3>3. CASE ~(b <= f[k])
      BY <3>1, <3>3
    <3> QED BY <3>2, <3>3
  <2>15. ASSUME NEW i \in 1..k PROVE f[i] <= c
    <3>1. CASE i = k
      BY <2>14, <3>1
    <3>2. CASE i # k
      <4>1. i \in 1..(k - 1) /\ f[i] \in Nat
        BY <2>1, <3>2
      <4>2. f[i] <= b
        BY <2>12, <4>1
      <4> QED BY <2>14, <4>1, <4>2
    <3> QED BY <3>1, <3>2
  <2> QED BY <2>4, <2>15
<1>2. Bad \in SUBSET Nat
  OBVIOUS
<1>3. Bad = {}
  <2> HIDE DEF Bad
  <2> QED BY <1>1, <1>2, NatMin
<1>4. PICK k \in Nat : \E f \in [1..k -> T] : \A y \in T : \E i \in 1..k : f[i] = y
  <2>1. PICK n \in Nat : ExistsSurjection(1..n, T)
    BY FS_NatSurjection
  <2> QED BY <2>1 DEF ExistsSurjection, Surjection
<1>5. PICK f \in [1..k -> T] : \A y \in T : \E i \in 1..k : f[i] = y
  BY <1>4
<1>6. f \in [1..k -> Nat]
  OBVIOUS
<1>7. Bounded(f, k)
  BY <1>3, <1>6
<1> QED BY <1>5, <1>7

-----------------------------------------------------------------------------
(* Keys, directories and key IDs *)

\* The parts of a directory.
LEMMA DirectoryParts ==
    ASSUME NEW d \in Directory
    PROVE  /\ d.base \in Nat /\ d.issued \in Nat /\ d.expires \in Nat
           /\ d.keys \in [Owned -> Seq(Key)]
           /\ d.groups \in [Group -> Seq({"active", "retired"})]
BY DEF Directory

\* The list of an agent's keys of one purpose.
LEMMA KeyList ==
    ASSUME NEW d \in Directory, NEW x \in Owned
    PROVE  /\ d.keys[x] \in Seq(Key) /\ Len(d.keys[x]) \in Nat
           /\ DOMAIN d.keys[x] = 1..Len(d.keys[x])
           /\ \A n \in 1..Len(d.keys[x]) : d.keys[x][n] \in Key
<1>1. d.keys[x] \in Seq(Key)
  BY DirectoryParts
<1> DEFINE s == d.keys[x]
<1> HIDE DEF s
<1>2. s \in Seq(Key) => /\ Len(s) \in Nat /\ DOMAIN s = 1..Len(s)
                        /\ \A n \in 1..Len(s) : s[n] \in Key
  BY LenProperties, ElementOfSeq
<1> QED BY <1>1, <1>2 DEF s

LEMMA OwnedPairs ==
    /\ \A a \in Agent, p \in Purpose : <<a, p>> \in Owned
    /\ \A x \in Owned : x[1] \in Agent /\ x[2] \in Purpose /\ x = <<x[1], x[2]>>
    /\ Purpose = {"sig", "enc"}
BY DEF Owned, Purpose

\* Directory.active_key is a key of the list that is open at the time, if
\* there is one.
LEMMA ActiveKeyIs ==
    ASSUME NEW keys \in Seq(Key), NEW t \in Int
    PROVE  /\ ActiveKey(keys, t) \in 0..Len(keys)
           /\ ActiveKey(keys, t) # 0 =>
                 ActiveKey(keys, t) \in DOMAIN keys /\ KeyOpen(keys[ActiveKey(keys, t)], t)
           /\ ActiveKey(keys, t) = 0 => \A n \in DOMAIN keys : ~KeyOpen(keys[n], t)
<1> DEFINE T == {0} \cup {n \in DOMAIN keys : KeyOpen(keys[n], t)}
<1>1. Len(keys) \in Nat /\ DOMAIN keys = 1..Len(keys)
  BY LenProperties
<1>2. T \in SUBSET Nat /\ T # {} /\ \A n \in T : n <= Len(keys)
  BY <1>1
<1>3. Max(T) \in T /\ \A n \in T : n <= Max(T)
  <2> HIDE DEF T
  <2> QED BY <1>1, <1>2, MaxExists
<1>4. ActiveKey(keys, t) = Max(T)
  BY DEF ActiveKey
<1> DEFINE m == Max(T)
<1> HIDE DEF m
<1>5. m \in T /\ \A n \in T : n <= m
  BY <1>3 DEF m
<1>6. m \in 0..Len(keys) /\ (m # 0 => m \in DOMAIN keys /\ KeyOpen(keys[m], t))
  BY <1>1, <1>2, <1>5
<1>7. m = 0 => \A n \in DOMAIN keys : ~KeyOpen(keys[n], t)
  BY <1>1, <1>5
<1> QED BY <1>4, <1>6, <1>7 DEF m

\* Every list a directory can hold has its place in Kid.
LEMMA KidIs ==
    ASSUME NEW x \in Owned, NEW n \in Nat \ {0}, n <= Len(First.keys[x]) + MaxDirs
    PROVE  n \in Kid
<1> DEFINE T == {Len(First.keys[y]) : y \in Owned}
<1>1. \A y \in Owned : Len(First.keys[y]) \in Nat
  BY KeyList, RotationAssumption
<1>2. T \in SUBSET Nat /\ T # {}
  BY <1>1
<1>3. IsFiniteSet(Owned)
  <2>1. IsFiniteSet(Purpose)
    <3>1. IsFiniteSet({"sig"}) /\ Purpose = {"sig"} \cup {"enc"}
      BY FS_Singleton DEF Purpose
    <3> QED BY <3>1, FS_AddElement
  <2> QED BY <2>1, FS_Product, RotationAssumption DEF Owned
<1>4. IsFiniteSet(T)
  <2> DEFINE f == [y \in Owned |-> Len(First.keys[y])]
  <2>1. f \in Surjection(Owned, T)
    BY DEF Surjection
  <2> QED BY <1>3, <2>1, FS_Surjection
<1>5. PICK bound \in Nat : \A m \in T : m <= bound
  BY <1>2, <1>4, FiniteBound
<1>6. Max(T) \in T /\ \A m \in T : m <= Max(T)
  <2> HIDE DEF T
  <2> QED BY <1>2, <1>5, MaxExists
<1>7. Kid = 1..(MaxDirs + Max(T))
  BY DEF Kid
<1>8. Max(T) \in Nat /\ Len(First.keys[x]) <= Max(T)
  BY <1>2, <1>6
<1> HIDE DEF T
<1> QED BY <1>1, <1>7, <1>8, RotationAssumption

-----------------------------------------------------------------------------
(* What later steps leave alone *)

\* Directories are only appended, staged bundles only added, and a backup
\* that exists is never written again.
Extends(D, E) == Len(D) <= Len(E) /\ \A e \in 1..Len(D) : E[e] = D[e]
Grows(disk, more) == \A a \in Agent : disk[a] \subseteq more[a]
Keeps(saved, more) ==
    \A a \in Agent, n \in Kid : saved[a][n] # Absent => more[a][n] = saved[a][n]

\* A bundle is neither of the marks for a file without one.
LEMMA BundleIsFile ==
    ASSUME NEW a, NEW b, Bundle(a, b)
    PROVE  b # Absent /\ b # Torn
<1>1. DOMAIN b = {"agent", "kid", "sig", "enc"}
  BY DEF Bundle
<1>2. DOMAIN Absent = {"file"} /\ DOMAIN Torn = {"file"}
  BY DEF Absent, Torn
<1>3. "agent" # "file"
  OBVIOUS
<1> QED BY <1>1, <1>2, <1>3

LEMMA CustodyKept ==
    ASSUME NEW d, NEW disk, NEW more, Grows(disk, more), InCustody(d, disk)
    PROVE  InCustody(d, more)
BY DEF Grows, InCustody

LEMMA GovernedKept ==
    ASSUME NEW D \in Seq(Directory), NEW E \in Seq(Directory), Extends(D, E),
           NEW a, NEW b, Governed(a, b, D)
    PROVE  Governed(a, b, E)
<1>1. Len(D) \in Nat /\ Len(E) \in Nat
  BY LenProperties
<1>2. PICK e \in 1..Len(D) : Vouches(D[e], a, b)
  BY DEF Governed
<1>3. e \in 1..Len(E) /\ E[e] = D[e]
  BY <1>1 DEF Extends
<1> QED BY <1>2, <1>3 DEF Governed

LEMMA AnnouncementKept ==
    ASSUME NEW D \in Seq(Directory), NEW E \in Seq(Directory), Extends(D, E),
           NEW disk, NEW more, Grows(disk, more), NEW t \in Nat, NEW u \in Nat, t <= u,
           NEW m, AnnouncementOK(m, D, disk, t)
    PROVE  AnnouncementOK(m, E, more, u)
<1>1. Len(D) \in Nat /\ Len(E) \in Nat
  BY LenProperties
<1>2. m.agent \in Agent /\ m.issued \in Nat /\ m.base \in 1..Len(D)
  BY DEF AnnouncementOK, Announcement
<1>3. m.base \in 1..Len(E) /\ E[m.base] = D[m.base] /\ m.issued <= u
  BY <1>1, <1>2 DEF Extends, AnnouncementOK
<1>4. disk[m.agent] \subseteq more[m.agent]
  BY <1>2 DEF Grows
<1> QED BY <1>3, <1>4 DEF AnnouncementOK

LEMMA OpKept ==
    ASSUME NEW D \in Seq(Directory), NEW E \in Seq(Directory), Extends(D, E),
           NEW disk, NEW more, Grows(disk, more), NEW saved, NEW also, Keeps(saved, also),
           NEW o, OpOK(o, D, disk, saved)
    PROVE  OpOK(o, E, more, also)
<1>1. Governed(o.new.agent, o.new, E)
  BY GovernedKept DEF OpOK
<1>2. o.new \in more[o.new.agent]
  BY DEF Grows, OpOK
<1>3. o.pc = "commit" => also[o.new.agent][o.new.kid] = o.old
  <2>1. o.old # Absent
    BY BundleIsFile DEF OpOK
  <2>2. o.new.agent \in Agent /\ o.new.kid \in Kid
    BY DEF OpOK, Bundle, IsBundle
  <2> QED BY <2>1, <2>2 DEF OpOK, Keeps
<1> QED BY <1>1, <1>2, <1>3 DEF OpOK

\* What the parts of the invariant say of the state a step leads to, as far
\* as the step leaves their subjects alone.
LEMMA Kept ==
    ASSUME RInv, dirs' \in Seq(Directory), Extends(dirs, dirs'), Grows(staged, staged'),
           now' \in Nat, now <= now', Keeps(backups, backups')
    PROVE  /\ \A m \in announced : AnnouncementOK(m, dirs', staged', now')
           /\ \A a \in Agent : Governed(a, current[a], dirs')
           /\ \A p \in Operator : ops[p] = Idle \/ OpOK(ops[p], dirs', staged', backups')
           /\ \A d : InCustody(d, staged) => InCustody(d, staged')
<1>1. dirs \in Seq(Directory) /\ now \in Nat
  BY DEF RInv, DirsInv, CountsInv
<1>2. \A m \in announced : AnnouncementOK(m, dirs', staged', now')
  BY <1>1, AnnouncementKept DEF RInv, AnnouncedInv
<1>3. \A a \in Agent : Governed(a, current[a], dirs')
  BY <1>1, GovernedKept DEF RInv, BundlesInv
<1>4. \A p \in Operator : ops[p] = Idle \/ OpOK(ops[p], dirs', staged', backups')
  BY <1>1, OpKept DEF RInv, OpsInv
<1>5. \A d : InCustody(d, staged) => InCustody(d, staged')
  BY CustodyKept
<1> QED BY <1>2, <1>3, <1>4, <1>5

\* Nothing at all extends everything.
LEMMA Same ==
    /\ dirs' = dirs /\ RInv => dirs' \in Seq(Directory) /\ Extends(dirs, dirs')
    /\ staged' = staged => Grows(staged, staged')
    /\ backups' = backups => Keeps(backups, backups')
    /\ now' = now /\ RInv => now' \in Nat /\ now <= now'
BY DEF RInv, DirsInv, CountsInv, Extends, Grows, Keeps

-----------------------------------------------------------------------------
(* activate *)

\* A step of one activate.
LEMMA OpStep ==
    ASSUME RInv, UNCHANGED <<now, dirs, draft, installed, staged, announced>>,
           crashes' \in 0..MaxCrashes, Keeps(backups, backups'), FilesInv',
           NEW p \in Operator, NEW o, ops' = [ops EXCEPT ![p] = o],
           o = Idle \/ OpOK(o, dirs, staged, backups'),
           current' = [a \in Agent |-> current'[a]],
           \A a \in Agent : Bundle(a, current'[a]) /\ Governed(a, current'[a], dirs)
    PROVE  RInv'
<1>1. /\ \A m \in announced : AnnouncementOK(m, dirs', staged', now')
      /\ \A u \in Operator : ops[u] = Idle \/ OpOK(ops[u], dirs', staged', backups')
      /\ \A d : InCustody(d, staged) => InCustody(d, staged')
  BY Same, Kept
<1>2. CountsInv' /\ DirsInv' /\ DraftInv'
  BY DEF RInv, CountsInv, DirsInv, DraftInv, Epoch, Newest
<1>3. AnnouncedInv'
  BY <1>1 DEF AnnouncedInv
<1>4. BundlesInv'
  BY DEF RInv, BundlesInv
<1>5. OpsInv'
  <2>1. ops = [u \in Operator |-> ops[u]]
    BY DEF RInv, OpsInv
  <2>2. ops' = [u \in Operator |-> ops'[u]] /\ \A u \in Operator : ops'[u] = IF u = p THEN o ELSE ops[u]
    BY <2>1
  <2> QED BY <1>1, <2>2 DEF OpsInv
<1> QED BY <1>2, <1>3, <1>4, <1>5 DEF RInv

\* A step of an activate that writes no file.
LEMMA OpOnlyStep ==
    ASSUME RInv, UNCHANGED <<now, dirs, draft, installed, files, announced>>,
           crashes' \in 0..MaxCrashes, NEW p \in Operator, NEW o, ops' = [ops EXCEPT ![p] = o],
           o = Idle \/ OpOK(o, dirs, staged, backups)
    PROVE  RInv'
<1>1. UNCHANGED <<current, staged, backups, was>>
  BY DEF files
<1>2. Keeps(backups, backups') /\ FilesInv'
  BY <1>1, Same DEF RInv, FilesInv
<1>3. /\ current' = [a \in Agent |-> current'[a]]
      /\ \A a \in Agent : Bundle(a, current'[a]) /\ Governed(a, current'[a], dirs)
  BY <1>1 DEF RInv, BundlesInv
<1>4. o = Idle \/ OpOK(o, dirs, staged, backups')
  BY <1>1
<1> QED BY <1>1, <1>2, <1>3, <1>4, OpStep

LEMMA DirOf ==
    ASSUME RInv
    PROVE  /\ Epoch \in Nat \ {0} /\ Newest \in Directory /\ Newest = dirs[Epoch]
           /\ \A e \in 1..Epoch : dirs[e] \in Directory
           /\ \A a \in Agent : installed[a] \in 1..Epoch /\ dirs[installed[a]] \in Directory
<1>1. dirs \in Seq(Directory) /\ Epoch >= 1 /\ Epoch = Len(dirs)
  BY DEF RInv, DirsInv, Epoch
<1>2. Epoch \in Nat \ {0} /\ \A e \in 1..Epoch : dirs[e] \in Directory
  BY <1>1, LenProperties, ElementOfSeq
<1>3. \A a \in Agent : installed[a] \in 1..Epoch
  BY DEF RInv, CountsInv
<1> QED BY <1>2, <1>3 DEF Newest

\* What verify_against finds out.
LEMMA VerifiedIs ==
    ASSUME NEW b, NEW d \in Directory, NEW t, NEW a \in Agent, b.agent = a,
           VerifyAgainst(b, d, t)
    PROVE  /\ Vouches(d, a, b)
           /\ ActiveKey(d.keys[<<a, "sig">>], t) = b.kid
           /\ ActiveKey(d.keys[<<a, "enc">>], t) \in DOMAIN b.enc
BY DEF VerifyAgainst, Vouches

LEMMA ActivateStartStep ==
    ASSUME RInv, NEW p \in Operator, NEW a \in Agent, NEW b \in staged[a], ActivateStart(p, b)
    PROVE  RInv'
<1> DEFINE o == [pc |-> "locking", old |-> b, new |-> b]
<1>1. Bundle(a, b) /\ b.agent = a
  BY DEF RInv, BundlesInv, Bundle
<1>2. /\ VerifyAgainst(b, dirs[installed[a]], now) /\ ops' = [ops EXCEPT ![p] = o]
      /\ UNCHANGED <<now, dirs, draft, installed, files, announced, crashes>>
  BY <1>1 DEF ActivateStart
<1>3. Governed(a, b, dirs)
  <2>1. installed[a] \in 1..Len(dirs) /\ dirs[installed[a]] \in Directory
    BY DirOf DEF Epoch
  <2>2. Vouches(dirs[installed[a]], a, b)
    BY <1>1, <1>2, <2>1, VerifiedIs
  <2> QED BY <2>1, <2>2 DEF Governed
<1>4. OpOK(o, dirs, staged, backups)
  BY <1>1, <1>3 DEF OpOK
<1>5. crashes' \in 0..MaxCrashes
  BY <1>2 DEF RInv, CountsInv
<1> HIDE DEF o
<1> QED BY <1>2, <1>4, <1>5, OpOnlyStep

LEMMA ActivateLockStep == ASSUME RInv, NEW p \in Operator, ActivateLock(p) PROVE RInv'
<1> DEFINE op  == ops[p]
           old == current[op.new.agent]
           o   == IF old.kid # op.new.kid /\ Retains(old, op.new)
                  THEN [op EXCEPT !.pc = "backup", !.old = old] ELSE Idle
<1>1. /\ op.pc = "locking" /\ ops' = [ops EXCEPT ![p] = o]
      /\ UNCHANGED <<now, dirs, draft, installed, files, announced, crashes>>
  BY DEF ActivateLock
<1>2. OpOK(op, dirs, staged, backups)
  BY <1>1 DEF RInv, OpsInv, Idle
<1>3. Bundle(op.new.agent, old)
  BY <1>2 DEF RInv, BundlesInv, OpOK
<1>4. o = Idle \/ OpOK(o, dirs, staged, backups)
  <2> HIDE DEF op, old
  <2>1. CASE ~(old.kid # op.new.kid /\ Retains(old, op.new))
    BY <2>1
  <2>2. CASE old.kid # op.new.kid /\ Retains(old, op.new)
    <3>1. o = [op EXCEPT !.pc = "backup", !.old = old]
      BY <2>2
    <3>2. op = [pc |-> op.pc, old |-> op.old, new |-> op.new]
      BY <1>2 DEF OpOK
    <3>3. o = [pc |-> "backup", old |-> old, new |-> op.new]
      BY <3>1, <3>2
    <3> HIDE DEF o
    <3>4. o.pc = "backup" /\ o.old = old /\ o.new = op.new
      BY <3>3
    <3> QED BY <1>2, <1>3, <2>2, <3>3, <3>4 DEF OpOK
  <2> QED BY <2>1, <2>2
<1>5. crashes' \in 0..MaxCrashes
  BY <1>1 DEF RInv, CountsInv
<1> HIDE DEF o
<1> QED BY <1>1, <1>4, <1>5, OpOnlyStep

LEMMA DieCount == ASSUME RInv, Die PROVE crashes' \in 0..MaxCrashes
BY RotationAssumption DEF RInv, CountsInv, Die

\* The commit record of a step: the same activate, one step further.
LEMMA ProceedOp ==
    ASSUME RInv, NEW p \in Operator, ops[p].pc = "backup", ops' = [ops EXCEPT ![p].pc = "commit"]
    PROVE  /\ OpOK(ops[p], dirs, staged, backups)
           /\ ops' = [ops EXCEPT ![p] = [pc |-> "commit", old |-> ops[p].old, new |-> ops[p].new]]
<1>1. OpOK(ops[p], dirs, staged, backups) /\ ops = [u \in Operator |-> ops[u]]
  BY DEF RInv, OpsInv, Idle
<1> DEFINE op == ops[p]
<1>2. op = [pc |-> op.pc, old |-> op.old, new |-> op.new]
  BY <1>1 DEF OpOK
<1>3. ops' = [ops EXCEPT ![p] = [op EXCEPT !.pc = "commit"]]
  BY <1>1
<1> HIDE DEF op
<1>4. [op EXCEPT !.pc = "commit"] = [pc |-> "commit", old |-> op.old, new |-> op.new]
  BY <1>2
<1> QED BY <1>1, <1>3, <1>4 DEF op

LEMMA ActivateBackupStep == ASSUME RInv, NEW p \in Operator, ActivateBackup(p) PROVE RInv'
<1> DEFINE old == ops[p].old
           new == ops[p].new
           a   == new.agent
           o   == [pc |-> "commit", old |-> old, new |-> new]
<1>1. /\ ops[p].pc = "backup"
      /\ UNCHANGED <<now, dirs, draft, installed, current, staged, was, announced>>
      /\ \/ /\ Backup(p) = Absent /\ backups' = [backups EXCEPT ![a][new.kid] = old]
            /\ ops' = [ops EXCEPT ![p].pc = "commit"] /\ UNCHANGED crashes
         \/ /\ Backup(p) = Absent /\ backups' = [backups EXCEPT ![a][new.kid] = Torn]
            /\ Leave(p) /\ Die
         \/ /\ BackedUp(p) /\ ops' = [ops EXCEPT ![p].pc = "commit"]
            /\ UNCHANGED <<backups, crashes>>
         \/ Leave(p) /\ UNCHANGED <<backups, crashes>>
  BY DEF ActivateBackup
<1>2. OpOK(ops[p], dirs, staged, backups)
  BY <1>1 DEF RInv, OpsInv, Idle
<1>3. /\ a \in Agent /\ new.kid \in Kid /\ Bundle(a, old) /\ Bundle(a, new)
      /\ new \in staged[a] /\ Governed(a, new, dirs) /\ old.kid # new.kid /\ Retains(old, new)
  BY <1>1, <1>2 DEF OpOK, Bundle, IsBundle
<1>4. Backup(p) = backups[a][new.kid]
  BY DEF Backup
<1>5. /\ backups = [c \in Agent |-> [n \in Kid |-> backups[c][n]]]
      /\ \A c \in Agent, n \in Kid : backups[c][n] \in {Absent, Torn} \/ Bundle(c, backups[c][n])
      /\ \A c \in Agent : \A b \in was[c] : Bundle(c, b) /\ \E n \in Kid : backups[c][n] = b
  BY DEF RInv, FilesInv
<1>6. /\ current' = [c \in Agent |-> current'[c]]
      /\ \A c \in Agent : Bundle(c, current'[c]) /\ Governed(c, current'[c], dirs)
  BY <1>1 DEF RInv, BundlesInv
<1>7. crashes \in 0..MaxCrashes /\ was = [c \in Agent |-> was[c]]
  BY DEF RInv, CountsInv, FilesInv
<1>8. \A saved : saved[a][new.kid] = old => OpOK(o, dirs, staged, saved)
  <2> HIDE DEF old, new, a
  <2>1. o.pc = "commit" /\ o.old = old /\ o.new = new
    OBVIOUS
  <2> QED BY <1>3, <2>1 DEF OpOK, a
<1>9. ops[p].pc = "backup" /\ ops' = [ops EXCEPT ![p].pc = "commit"] =>
        ops' = [ops EXCEPT ![p] = o]
  BY ProceedOp
<1> HIDE DEF o, old, new, a
<1>10. ASSUME NEW f, f = Torn \/ Bundle(a, f), Backup(p) = Absent,
              backups' = [backups EXCEPT ![a][new.kid] = f]
       PROVE  Keeps(backups, backups') /\ FilesInv' /\ backups'[a][new.kid] = f
  <2>1. \A c \in Agent, n \in Kid : backups'[c][n] = IF c = a /\ n = new.kid THEN f ELSE backups[c][n]
    BY <1>3, <1>5, <1>10
  <2>2. backups' = [c \in Agent |-> [n \in Kid |-> backups'[c][n]]]
    <3> DEFINE row == [backups[a] EXCEPT ![new.kid] = f]
    <3>1. backups' = [c \in Agent |-> IF c = a THEN row ELSE backups[c]]
      BY <1>5, <1>10
    <3>2. \A c \in Agent : backups[c] = [n \in Kid |-> backups[c][n]]
      BY <1>5
    <3>3. row = [n \in Kid |-> row[n]]
      BY <1>3, <3>2
    <3> HIDE DEF row
    <3>4. \A c \in Agent : backups'[c] = [n \in Kid |-> backups'[c][n]]
      BY <3>1, <3>2, <3>3
    <3> QED BY <3>1, <3>4
  <2>3. Keeps(backups, backups')
    <3> SUFFICES ASSUME NEW c \in Agent, NEW n \in Kid, backups[c][n] # Absent
                 PROVE  backups'[c][n] = backups[c][n]
      BY DEF Keeps
    <3>1. backups[a][new.kid] = Absent
      BY <1>4, <1>10
    <3> QED BY <2>1, <3>1
  <2>4. \A c \in Agent, n \in Kid : backups'[c][n] \in {Absent, Torn} \/ Bundle(c, backups'[c][n])
    BY <1>3, <1>5, <1>10, <2>1
  <2>5. \A c \in Agent : \A b \in was[c] : Bundle(c, b) /\ \E n \in Kid : backups'[c][n] = b
    BY <1>5, <2>3, BundleIsFile DEF Keeps
  <2> QED BY <1>1, <1>3, <1>7, <2>1, <2>2, <2>3, <2>4, <2>5 DEF FilesInv
<1>11. backups' = backups => Keeps(backups, backups') /\ FilesInv'
  BY <1>1, Same DEF RInv, FilesInv
<1>12. CASE /\ Backup(p) = Absent /\ backups' = [backups EXCEPT ![a][new.kid] = old]
            /\ ops' = [ops EXCEPT ![p].pc = "commit"] /\ UNCHANGED crashes
  <2>1. Keeps(backups, backups') /\ FilesInv' /\ OpOK(o, dirs, staged, backups')
    BY <1>3, <1>8, <1>10, <1>12
  <2> QED BY <1>1, <1>6, <1>7, <1>9, <1>12, <2>1, OpStep
<1>13. CASE /\ Backup(p) = Absent /\ backups' = [backups EXCEPT ![a][new.kid] = Torn]
            /\ Leave(p) /\ Die
  <2>1. Keeps(backups, backups') /\ FilesInv' /\ crashes' \in 0..MaxCrashes
    BY <1>10, <1>13, DieCount
  <2>2. ops' = [ops EXCEPT ![p] = Idle]
    BY <1>13 DEF Leave
  <2> QED BY <1>1, <1>6, <2>1, <2>2, OpStep
<1>14. CASE /\ BackedUp(p) /\ ops' = [ops EXCEPT ![p].pc = "commit"]
            /\ UNCHANGED <<backups, crashes>>
  <2>1. OpOK(o, dirs, staged, backups')
    BY <1>4, <1>8, <1>14 DEF BackedUp, old
  <2> QED BY <1>1, <1>6, <1>7, <1>9, <1>11, <1>14, <2>1, OpStep
<1>15. CASE Leave(p) /\ UNCHANGED <<backups, crashes>>
  <2>1. ops' = [ops EXCEPT ![p] = Idle]
    BY <1>15 DEF Leave
  <2> QED BY <1>1, <1>6, <1>7, <1>11, <1>15, <2>1, OpStep
<1> QED BY <1>1, <1>12, <1>13, <1>14, <1>15

\* An agent's key IDs are numbers, and its lists in the first directory have
\* a length.
LEMMA KidNat ==
    ASSUME NEW a \in Agent
    PROVE  /\ Kid \subseteq Nat \ {0}
           /\ Len(First.keys[<<a, "sig">>]) \in Nat \ {0}
           /\ Len(First.keys[<<a, "enc">>]) \in Nat \ {0}
<1>1. <<a, "sig">> \in Owned /\ <<a, "enc">> \in Owned
  BY DEF Owned, Purpose
<1>2. \A x \in Owned : Len(First.keys[x]) \in Nat \ {0}
  <2> SUFFICES ASSUME NEW x \in Owned PROVE Len(First.keys[x]) \in Nat \ {0}
    OBVIOUS
  <2>1. First.keys[x] \in Seq(Key) /\ First.keys[x] # <<>>
    BY KeyList, RotationAssumption
  <2> QED BY <2>1, EmptySeq
<1>3. Kid \subseteq Nat \ {0}
  BY DEF Kid
<1> QED BY <1>1, <1>2, <1>3

\* A bundle that keeps the encryption keys of another one, of a different
\* ceremony, belongs to a later ceremony.
LEMMA RetainsLater ==
    ASSUME NEW a \in Agent, NEW old, NEW new, Bundle(a, old), Bundle(a, new),
           Retains(old, new), old.kid # new.kid
    PROVE  old.kid < new.kid
<1>1. Top(a, old) \in DOMAIN old.enc /\ \A n \in DOMAIN new.enc : n <= Top(a, new)
  BY DEF Bundle
<1>2. Top(a, old) <= Top(a, new)
  BY <1>1 DEF Retains
<1>3. old.kid \in Nat /\ new.kid \in Nat
  BY KidNat DEF Bundle, IsBundle
<1> QED BY <1>2, <1>3, KidNat DEF Top

\* What an activate that renames its file does.
LEMMA CommitIs ==
    ASSUME RInv, NEW p \in Operator, ops[p].pc = "commit"
    PROVE  /\ OpOK(ops[p], dirs, staged, backups)
           /\ ops[p].new.agent \in Agent /\ ops[p].new.kid \in Kid
           /\ ops[p].old.kid < ops[p].new.kid /\ Retains(ops[p].old, ops[p].new)
<1>1. OpOK(ops[p], dirs, staged, backups)
  BY DEF RInv, OpsInv, Idle
<1> DEFINE o == ops[p]
<1>2. /\ o.new.agent \in Agent /\ Bundle(o.new.agent, o.old) /\ Bundle(o.new.agent, o.new)
      /\ Retains(o.old, o.new) /\ o.old.kid # o.new.kid
  BY <1>1 DEF OpOK
<1> HIDE DEF o
<1>3. o.old.kid < o.new.kid /\ o.new.kid \in Kid
  BY <1>2, RetainsLater DEF Bundle, IsBundle
<1> QED BY <1>1, <1>2, <1>3 DEF o

LEMMA ActivateCommitStep == ASSUME RInv, NEW p \in Operator, ActivateCommit(p) PROVE RInv'
<1> DEFINE old == ops[p].old
           new == ops[p].new
           a   == new.agent
<1>1. /\ ops[p].pc = "commit" /\ ops' = [ops EXCEPT ![p] = Idle]
      /\ IF SameFile(p)
         THEN /\ current' = [current EXCEPT ![a] = new]
              /\ was' = [was EXCEPT ![a] = @ \cup {old}]
         ELSE UNCHANGED <<current, was>>
      /\ UNCHANGED <<now, dirs, draft, installed, staged, backups, announced, crashes>>
  BY DEF ActivateCommit, Leave
<1>2. OpOK(ops[p], dirs, staged, backups) /\ a \in Agent /\ new.kid \in Kid
  BY <1>1, CommitIs
<1>3. /\ Bundle(a, old) /\ Bundle(a, new) /\ Governed(a, new, dirs)
      /\ backups[a][new.kid] = old
  BY <1>1, <1>2 DEF OpOK
<1>4. /\ current = [c \in Agent |-> current[c]]
      /\ \A c \in Agent : Bundle(c, current[c]) /\ Governed(c, current[c], dirs)
  BY DEF RInv, BundlesInv
<1>5. was = [c \in Agent |-> was[c]] /\ FilesInv /\ crashes \in 0..MaxCrashes
  BY DEF RInv, FilesInv, CountsInv
<1> HIDE DEF old, new, a
<1>6. Keeps(backups, backups') /\ crashes' \in 0..MaxCrashes
  BY <1>1, <1>5, Same
<1>7. CASE SameFile(p)
  <2>1. /\ current' = [c \in Agent |-> current'[c]]
        /\ \A c \in Agent : current'[c] = IF c = a THEN new ELSE current[c]
    BY <1>1, <1>4, <1>7
  <2>2. /\ was' = [c \in Agent |-> was'[c]]
        /\ \A c \in Agent : was'[c] = IF c = a THEN was[c] \cup {old} ELSE was[c]
    BY <1>1, <1>5, <1>7
  <2>3. \A c \in Agent : Bundle(c, current'[c]) /\ Governed(c, current'[c], dirs)
    BY <1>3, <1>4, <2>1
  <2>4. FilesInv'
    <3>1. \A c \in Agent : \A b \in was'[c] : Bundle(c, b) /\ \E n \in Kid : backups[c][n] = b
      BY <1>2, <1>3, <1>5, <2>2 DEF FilesInv
    <3> QED BY <1>1, <1>5, <2>2, <3>1 DEF FilesInv
  <2> QED BY <1>1, <1>6, <2>1, <2>3, <2>4, OpStep
<1>8. CASE ~SameFile(p)
  <2>1. UNCHANGED <<current, was>>
    BY <1>1, <1>8
  <2>2. FilesInv'
    BY <1>1, <1>5, <2>1 DEF FilesInv
  <2>3. /\ current' = [c \in Agent |-> current'[c]]
        /\ \A c \in Agent : Bundle(c, current'[c]) /\ Governed(c, current'[c], dirs)
    BY <1>4, <2>1
  <2> QED BY <1>1, <1>6, <2>2, <2>3, OpStep
<1> QED BY <1>7, <1>8

LEMMA ActivateCrashStep == ASSUME RInv, NEW p \in Operator, ActivateCrash(p) PROVE RInv'
<1>1. /\ UNCHANGED <<now, dirs, draft, installed, files, announced>>
      /\ ops' = [ops EXCEPT ![p] = Idle] /\ Die
  BY DEF ActivateCrash, Leave
<1>2. crashes' \in 0..MaxCrashes
  BY <1>1, DieCount
<1> QED BY <1>1, <1>2, OpOnlyStep

-----------------------------------------------------------------------------
(* The steps of the hosts and of time *)

\* A step that leaves bundles, backups and activates alone.
LEMMA OtherStep ==
    ASSUME RInv, UNCHANGED <<current, backups, was, ops, crashes>>,
           dirs' \in Seq(Directory), Extends(dirs, dirs'), Grows(staged, staged'),
           now' \in 0..MaxTime, now <= now', installed' \in [Agent -> 1..Epoch'],
           staged' = [a \in Agent |-> staged'[a]],
           \A a \in Agent : IsFiniteSet(staged'[a]) /\ \A b \in staged'[a] : Bundle(a, b),
           DirsInv', DraftInv',
           \A m \in announced' : m \in announced \/ AnnouncementOK(m, dirs', staged', now')
    PROVE  RInv'
<1>1. now' \in Nat /\ Keeps(backups, backups')
  BY Same
<1>2. /\ \A m \in announced : AnnouncementOK(m, dirs', staged', now')
      /\ \A a \in Agent : Governed(a, current[a], dirs')
      /\ \A p \in Operator : ops[p] = Idle \/ OpOK(ops[p], dirs', staged', backups')
  BY <1>1, Kept
<1>3. CountsInv' /\ FilesInv'
  BY DEF RInv, CountsInv, FilesInv
<1>4. AnnouncedInv'
  BY <1>2 DEF AnnouncedInv
<1>5. BundlesInv'
  BY <1>2 DEF RInv, BundlesInv
<1>6. OpsInv'
  BY <1>2 DEF RInv, OpsInv
<1> QED BY <1>3, <1>4, <1>5, <1>6 DEF RInv

\* A step that also leaves the ceremony alone.
LEMMA QuietStep ==
    ASSUME RInv, UNCHANGED <<dirs, draft, files, announced, ops, crashes>>,
           now' \in 0..MaxTime, now <= now', installed' \in [Agent -> 1..Epoch]
    PROVE  RInv'
<1>1. UNCHANGED <<current, staged, backups, was>>
  BY DEF files
<1>2. dirs' \in Seq(Directory) /\ Extends(dirs, dirs') /\ Grows(staged, staged')
  BY <1>1, Same
<1>3. DirsInv' /\ DraftInv' /\ Epoch' = Epoch
  BY <1>1 DEF RInv, DirsInv, DraftInv, Epoch, Newest
<1>4. /\ staged' = [a \in Agent |-> staged'[a]]
      /\ \A a \in Agent : IsFiniteSet(staged'[a]) /\ \A b \in staged'[a] : Bundle(a, b)
  BY <1>1 DEF RInv, BundlesInv
<1> QED BY <1>1, <1>2, <1>3, <1>4, OtherStep

LEMMA TickStep == ASSUME RInv, Tick PROVE RInv'
<1>1. now \in 0..MaxTime /\ MaxTime \in Nat
  BY RotationAssumption DEF RInv, CountsInv
<1>2. now' \in 0..MaxTime /\ now <= now'
  BY <1>1 DEF Tick
<1> QED BY <1>2, QuietStep DEF Tick, RInv, CountsInv

LEMMA InstallStep == ASSUME RInv, NEW a \in Agent, Install(a) PROVE RInv'
<1>1. installed \in [Agent -> 1..Epoch] /\ Epoch \in Nat /\ now \in 0..MaxTime
  BY DirOf DEF RInv, CountsInv
<1>2. installed' = [installed EXCEPT ![a] = @ + 1] /\ installed[a] < Epoch /\ now' = now
  BY DEF Install
<1>3. installed' \in [Agent -> 1..Epoch]
  BY <1>1, <1>2
<1> QED BY <1>1, <1>2, <1>3, QuietStep DEF Install

-----------------------------------------------------------------------------
(* prepare *)

\* What a host knows of the lists in its directory.
LEMMA ListsOf ==
    ASSUME RInv, NEW e \in 1..Epoch, NEW a \in Agent
    PROVE  LET sig == dirs[e].keys[<<a, "sig">>]
               enc == dirs[e].keys[<<a, "enc">>]
           IN  /\ sig \in Seq(Key) /\ enc \in Seq(Key)
               /\ Len(sig) \in Nat /\ DOMAIN sig = 1..Len(sig)
               /\ Len(enc) \in Nat /\ DOMAIN enc = 1..Len(enc)
               /\ Len(sig) - Len(First.keys[<<a, "sig">>])
                    = Len(enc) - Len(First.keys[<<a, "enc">>])
               /\ Len(sig) < Len(First.keys[<<a, "sig">>]) + Epoch
               /\ Len(enc) < Len(First.keys[<<a, "enc">>]) + Epoch
<1> DEFINE sig == dirs[e].keys[<<a, "sig">>]
           enc == dirs[e].keys[<<a, "enc">>]
<1>1. dirs[e] \in Directory /\ <<a, "sig">> \in Owned /\ <<a, "enc">> \in Owned
  BY DirOf, OwnedPairs
<1>2. /\ sig \in Seq(Key) /\ enc \in Seq(Key)
      /\ Len(sig) \in Nat /\ DOMAIN sig = 1..Len(sig)
      /\ Len(enc) \in Nat /\ DOMAIN enc = 1..Len(enc)
  BY <1>1, KeyList
<1>3. /\ Len(sig) - Len(First.keys[<<a, "sig">>])
           = Len(enc) - Len(First.keys[<<a, "enc">>])
      /\ Len(sig) - Len(First.keys[<<a, "sig">>]) \in 0..(e - 1)
  BY DEF RInv, DirsInv, Grown
<1>4. Epoch \in Nat
  BY DirOf
<1> HIDE DEF sig, enc
<1>5. /\ Len(sig) < Len(First.keys[<<a, "sig">>]) + Epoch
      /\ Len(enc) < Len(First.keys[<<a, "enc">>]) + Epoch
  <2> DEFINE ls == Len(sig)
             le == Len(enc)
             fs == Len(First.keys[<<a, "sig">>])
             fe == Len(First.keys[<<a, "enc">>])
  <2>1. ls \in Nat /\ le \in Nat /\ fs \in Nat /\ fe \in Nat
    BY <1>2, KidNat
  <2>2. ls - fs = le - fe /\ ls - fs \in 0..(e - 1)
    BY <1>3
  <2> HIDE DEF ls, le, fs, fe
  <2>3. ls - fs < Epoch
    BY <1>4, <2>1, <2>2
  <2>4. ls < fs + Epoch /\ le < fe + Epoch
    BY <1>4, <2>1, <2>2, <2>3
  <2> QED BY <2>4 DEF ls, le, fs, fe
<1> QED BY <1>2, <1>3, <1>5 DEF sig, enc

\* The staged bundle of a prepare is one, and holds what is announced.
LEMMA SuccessorIs ==
    ASSUME RInv, NEW a \in Agent, Epoch < MaxDirs,
           VerifyAgainst(current[a], dirs[installed[a]], now)
    PROVE  /\ Bundle(a, Successor(a)) /\ Fresh(a) \in Agent \X Nat
           /\ \A p \in Purpose :
                 Holds(Successor(a), p, Len(dirs[installed[a]].keys[<<a, p>>]) + 1, Fresh(a))
           /\ \A p \in Purpose : ActiveKey(dirs[installed[a]].keys[<<a, p>>], now)
                                   \in DOMAIN dirs[installed[a]].keys[<<a, p>>]
<1> DEFINE d   == dirs[installed[a]]
           sig == d.keys[<<a, "sig">>]
           enc == d.keys[<<a, "enc">>]
           cur == current[a]
           pub == Fresh(a)
           b   == Successor(a)
           s   == Len(sig) + 1
           c   == Len(enc) + 1
<1>1. installed[a] \in 1..Epoch /\ d \in Directory /\ Epoch \in Nat /\ MaxDirs \in Nat
  BY DirOf, RotationAssumption
<1>2. /\ Len(sig) \in Nat /\ DOMAIN sig = 1..Len(sig)
      /\ Len(enc) \in Nat /\ DOMAIN enc = 1..Len(enc)
      /\ Len(sig) - Len(First.keys[<<a, "sig">>]) = Len(enc) - Len(First.keys[<<a, "enc">>])
      /\ Len(sig) < Len(First.keys[<<a, "sig">>]) + Epoch
      /\ Len(enc) < Len(First.keys[<<a, "enc">>]) + Epoch
  BY <1>1, ListsOf
<1>3. Bundle(a, cur) /\ IsFiniteSet(staged[a])
  BY DEF RInv, BundlesInv
<1>4. /\ cur.kid \in DOMAIN sig /\ \A n \in DOMAIN cur.enc : n \in DOMAIN enc
      /\ ActiveKey(sig, now) = cur.kid /\ ActiveKey(enc, now) \in DOMAIN cur.enc
  BY <1>1, <1>3, VerifiedIs DEF Vouches, Bundle
<1>5. pub \in Agent \X Nat
  BY <1>3, FS_CardinalityType DEF Fresh
<1>6. /\ b = [agent |-> a, kid |-> s, sig |-> pub,
              enc |-> [n \in DOMAIN cur.enc \cup {c} |-> IF n = c THEN pub ELSE cur.enc[n]]]
  BY DEF Successor
<1> DEFINE fs == Len(First.keys[<<a, "sig">>])
           fe == Len(First.keys[<<a, "enc">>])
           ls == Len(sig)
           le == Len(enc)
<1> HIDE DEF d, sig, enc, cur, pub, b
<1>a. fs \in Nat /\ fe \in Nat
  BY KidNat
<1>b. /\ ls \in Nat /\ le \in Nat /\ s = ls + 1 /\ c = le + 1 /\ ls - fs = le - fe
      /\ ls < fs + Epoch /\ le < fe + Epoch /\ DOMAIN enc = 1..le
  BY <1>2
<1> HIDE DEF fs, fe, ls, le, s, c
<1>7. s \in Kid /\ c \in Kid
  <2>1. <<a, "sig">> \in Owned /\ <<a, "enc">> \in Owned
    BY OwnedPairs
  <2>2. s \in Nat \ {0} /\ s <= fs + MaxDirs
    BY <1>1, <1>a, <1>b
  <2>3. c \in Nat \ {0} /\ c <= fe + MaxDirs
    BY <1>1, <1>a, <1>b
  <2> QED BY <2>1, <2>2, <2>3, KidIs DEF fs, fe
<1>8. \A n \in DOMAIN cur.enc : n \in Kid /\ cur.enc[n] \in Agent \X Nat
  BY <1>3 DEF Bundle, IsBundle
<1>9. \A n \in DOMAIN cur.enc : n < c
  BY <1>4, <1>b
<1>10. c = s - fs + fe /\ c \in Nat
  BY <1>a, <1>b
<1>11. /\ b.agent = a /\ b.kid = s /\ b.sig = pub /\ DOMAIN b.enc = DOMAIN cur.enc \cup {c}
       /\ \A n \in DOMAIN b.enc : b.enc[n] = IF n = c THEN pub ELSE cur.enc[n]
       /\ b = [agent |-> b.agent, kid |-> b.kid, sig |-> b.sig, enc |-> b.enc]
  BY <1>6
<1>12. Top(a, b) = c
  BY <1>10, <1>11 DEF Top, fs, fe
<1>13. IsBundle(b)
  BY <1>5, <1>7, <1>8, <1>11 DEF IsBundle
<1>14. \A n \in DOMAIN b.enc : n <= c
  <2>1. \A n \in DOMAIN cur.enc : n \in Nat
    BY <1>8, KidNat
  <2> QED BY <1>9, <1>10, <1>11, <2>1
<1>15. Bundle(a, b)
  BY <1>11, <1>12, <1>13, <1>14 DEF Bundle
<1>16. Holds(b, "sig", s, pub) /\ Holds(b, "enc", c, pub)
  BY <1>11 DEF Holds
<1> QED BY <1>4, <1>5, <1>15, <1>16 DEF d, sig, enc, pub, b, s, c, Purpose

LEMMA PrepareStep ==
    ASSUME RInv, NEW a \in Agent, NEW activation \in Activations, NEW expires \in 1..MaxTime,
           Prepare(a, activation, expires)
    PROVE  RInv'
<1> DEFINE b == Successor(a)
           m == Announces(a, activation, expires)
           d == dirs[installed[a]]
<1>1. /\ Epoch < MaxDirs /\ VerifyAgainst(current[a], d, now)
      /\ staged' = [staged EXCEPT ![a] = @ \cup {b}]
      /\ announced' = announced \cup {m} \/ UNCHANGED announced
      /\ UNCHANGED <<now, dirs, draft, installed, current, backups, was, ops, crashes>>
  BY DEF Prepare, Written
<1>2. /\ Bundle(a, b) /\ Fresh(a) \in Agent \X Nat
      /\ \A p \in Purpose : Holds(b, p, Len(d.keys[<<a, p>>]) + 1, Fresh(a))
      /\ \A p \in Purpose : ActiveKey(d.keys[<<a, p>>], now) \in DOMAIN d.keys[<<a, p>>]
  BY <1>1, SuccessorIs
<1>3. /\ m.agent = a /\ m.base = installed[a] /\ m.activation = activation /\ m.issued = now
      /\ m.expires = expires /\ m.pub = Fresh(a)
      /\ m.previous = [p \in Purpose |-> ActiveKey(d.keys[<<a, p>>], now)]
  BY DEF Announces
<1>4. /\ staged = [c \in Agent |-> staged[c]]
      /\ \A c \in Agent : IsFiniteSet(staged[c]) /\ \A f \in staged[c] : Bundle(c, f)
  BY DEF RInv, BundlesInv
<1>5. installed[a] \in 1..Epoch /\ d \in Directory /\ now \in 0..MaxTime /\ now \in Nat
  BY DirOf DEF RInv, CountsInv
<1>6. \A p \in Purpose : ActiveKey(d.keys[<<a, p>>], now) \in Nat
  <2> SUFFICES ASSUME NEW p \in Purpose PROVE ActiveKey(d.keys[<<a, p>>], now) \in Nat
    OBVIOUS
  <2>1. <<a, p>> \in Owned
    BY OwnedPairs
  <2>2. DOMAIN d.keys[<<a, p>>] = 1..Len(d.keys[<<a, p>>]) /\ Len(d.keys[<<a, p>>]) \in Nat
    BY <1>5, <2>1, KeyList
  <2>3. ActiveKey(d.keys[<<a, p>>], now) \in DOMAIN d.keys[<<a, p>>]
    BY <1>2
  <2> QED BY <2>2, <2>3
<1> HIDE DEF b
<1>7. m \in Announcement
  <2>1. installed[a] \in Nat /\ activation \in Nat /\ expires \in Nat
    BY <1>5, DirOf, RotationAssumption
  <2> DEFINE prev == [p \in Purpose |-> ActiveKey(d.keys[<<a, p>>], now)]
  <2>2. prev \in [Purpose -> Nat]
    BY <1>6
  <2>3. m = [agent |-> a, base |-> installed[a], activation |-> activation, issued |-> now,
             expires |-> expires, pub |-> Fresh(a), previous |-> prev]
    BY DEF Announces
  <2> HIDE DEF m, prev
  <2> QED BY <1>2, <1>5, <2>1, <2>2, <2>3 DEF Announcement
<1>8. /\ staged' = [c \in Agent |-> staged'[c]]
      /\ \A c \in Agent : staged'[c] = IF c = a THEN staged[c] \cup {b} ELSE staged[c]
  BY <1>1, <1>4
<1>9. \A c \in Agent : IsFiniteSet(staged'[c]) /\ \A f \in staged'[c] : Bundle(c, f)
  <2>1. IsFiniteSet(staged[a] \cup {b})
    BY <1>4, FS_AddElement
  <2>2. \A f \in staged[a] \cup {b} : Bundle(a, f)
    BY <1>2, <1>4
  <2> QED BY <1>4, <1>8, <2>1, <2>2
<1>10. Grows(staged, staged')
  BY <1>8 DEF Grows
<1>11. dirs' \in Seq(Directory) /\ Extends(dirs, dirs')
  BY <1>1, Same
<1>12. \A c : InCustody(c, staged) => InCustody(c, staged')
  BY <1>10, CustodyKept
<1>13. DirsInv' /\ DraftInv' /\ Epoch' = Epoch
  <2>1. Epoch' = Epoch /\ Newest' = Newest
    BY <1>1 DEF Epoch, Newest
  <2>2. DirsInv'
    BY <1>1, <1>12, <2>1 DEF RInv, DirsInv
  <2>3. DraftInv'
    BY <1>1, <1>12, <2>1 DEF RInv, DraftInv
  <2> QED BY <2>1, <2>2, <2>3
<1>14. AnnouncementOK(m, dirs', staged', now')
  <2>1. m.base \in 1..Len(dirs) /\ m.issued <= now
    BY <1>3, <1>5 DEF Epoch
  <2>2. \A p \in Purpose : m.previous[p] \in DOMAIN dirs[m.base].keys[<<m.agent, p>>]
    BY <1>2, <1>3
  <2>3. b \in staged'[m.agent]
    BY <1>3, <1>8
  <2>4. \A p \in Purpose : Holds(b, p, Len(dirs[m.base].keys[<<m.agent, p>>]) + 1, m.pub)
    BY <1>2, <1>3
  <2> HIDE DEF m
  <2> QED BY <1>1, <1>7, <2>1, <2>2, <2>3, <2>4 DEF AnnouncementOK
<1>15. installed' \in [Agent -> 1..Epoch'] /\ now' \in 0..MaxTime /\ now <= now'
  BY <1>1, <1>5, <1>13 DEF RInv, CountsInv
<1> HIDE DEF m, d
<1>16. \A l \in announced' : l \in announced \/ AnnouncementOK(l, dirs', staged', now')
  BY <1>1, <1>14
<1> QED BY <1>1, <1>8, <1>9, <1>10, <1>11, <1>13, <1>15, <1>16, OtherStep

-----------------------------------------------------------------------------
(* Governance *)

LEMMA SignStep == ASSUME RInv, Sign PROVE RInv'
<1>1. /\ draft # NoDraft /\ dirs' = Append(dirs, draft) /\ draft' = NoDraft /\ announced' = {}
      /\ UNCHANGED <<now, installed, current, staged, backups, was, ops, crashes>>
  BY DEF Sign, files
<1>2. /\ draft \in Directory /\ Grown(draft, Epoch) /\ InCustody(draft, staged)
      /\ Shrunk(Newest, draft) /\ Covers(draft)
  BY <1>1 DEF RInv, DraftInv
<1>3. dirs \in Seq(Directory) /\ Len(dirs) \in Nat \ {0} /\ Epoch = Len(dirs)
  BY DirOf DEF RInv, DirsInv, Epoch
<1>4. /\ dirs' \in Seq(Directory) /\ Epoch' = Epoch + 1 /\ dirs'[Epoch + 1] = draft
      /\ \A e \in 1..Epoch : dirs'[e] = dirs[e]
  BY <1>1, <1>2, <1>3 DEF Epoch
<1>5. Extends(dirs, dirs')
  BY <1>3, <1>4 DEF Extends, Epoch
<1>6. DirsInv'
  <2>1. ASSUME NEW e \in 1..(Epoch + 1)
        PROVE  Grown(dirs'[e], e - 1) /\ InCustody(dirs'[e], staged)
    <3>1. CASE e = Epoch + 1
      <4>1. e - 1 = Epoch
        BY <1>3, <3>1
      <4> QED BY <1>2, <1>4, <3>1, <4>1
    <3>2. CASE e # Epoch + 1
      <4>1. e \in 1..Epoch
        BY <1>3, <3>2
      <4> QED BY <1>4, <4>1 DEF RInv, DirsInv
    <3> QED BY <3>1, <3>2
  <2>2. ASSUME NEW e \in 2..(Epoch + 1)
        PROVE  Shrunk(dirs'[e - 1], dirs'[e]) /\ Covers(dirs'[e])
    <3>1. CASE e = Epoch + 1
      <4>1. dirs'[e - 1] = Newest
        BY <1>3, <1>4, <3>1 DEF Newest
      <4> QED BY <1>2, <1>4, <3>1, <4>1
    <3>2. CASE e # Epoch + 1
      <4>1. e \in 2..Epoch /\ e \in 1..Epoch /\ e - 1 \in 1..Epoch
        BY <1>3, <3>2
      <4> QED BY <1>4, <4>1 DEF RInv, DirsInv
    <3> QED BY <3>1, <3>2
  <2>3. Epoch + 1 >= 1
    BY <1>3
  <2> QED BY <1>1, <1>4, <2>1, <2>2, <2>3 DEF DirsInv
<1>7. DraftInv'
  BY <1>1 DEF DraftInv
<1>8. /\ staged' = [a \in Agent |-> staged'[a]] /\ Grows(staged, staged')
      /\ \A a \in Agent : IsFiniteSet(staged'[a]) /\ \A b \in staged'[a] : Bundle(a, b)
  BY <1>1, Same DEF RInv, BundlesInv
<1>9. installed' \in [Agent -> 1..Epoch'] /\ now' \in 0..MaxTime /\ now <= now'
  <2>1. \A a \in Agent : installed[a] \in 1..Epoch'
    BY <1>3, <1>4, DirOf
  <2> QED BY <1>1, <2>1 DEF RInv, CountsInv
<1> QED BY <1>1, <1>4, <1>5, <1>6, <1>7, <1>8, <1>9, OtherStep

\* A draft that succeeds the newest directory.
LEMMA DraftStep ==
    ASSUME RInv, UNCHANGED <<now, dirs, installed, files, announced, ops, crashes>>,
           draft' \in Directory, draft'.base = Epoch, Grown(draft', Epoch),
           InCustody(draft', staged), Shrunk(Newest, draft'), Covers(draft')
    PROVE  RInv'
<1>1. UNCHANGED <<current, staged, backups, was>>
  BY DEF files
<1>2. dirs' \in Seq(Directory) /\ Extends(dirs, dirs') /\ Grows(staged, staged')
  BY <1>1, Same
<1>3. Epoch' = Epoch /\ Newest' = Newest
  BY DEF Epoch, Newest
<1>4. DirsInv'
  BY <1>1, <1>3 DEF RInv, DirsInv
<1>5. DraftInv'
  BY <1>1, <1>3 DEF DraftInv
<1>6. /\ staged' = [a \in Agent |-> staged'[a]]
      /\ \A a \in Agent : IsFiniteSet(staged'[a]) /\ \A b \in staged'[a] : Bundle(a, b)
  BY <1>1 DEF RInv, BundlesInv
<1>7. installed' \in [Agent -> 1..Epoch'] /\ now' \in 0..MaxTime /\ now <= now'
  BY <1>3 DEF RInv, CountsInv
<1> QED BY <1>1, <1>2, <1>4, <1>5, <1>6, <1>7, OtherStep

\* A key list after a rotation: one key ends at the cut, one is added.
Rotated(s, k, t, key) == Append([s EXCEPT ![k] = [s[k] EXCEPT !.until = Lesser(t, @)]], key)

LEMMA CutList ==
    ASSUME NEW s \in Seq(Key), NEW k \in DOMAIN s, NEW t \in Nat, NEW key \in Key
    PROVE  LET r == Rotated(s, k, t, key)
           IN  /\ r \in Seq(Key) /\ Len(r) = Len(s) + 1 /\ r[Len(s) + 1] = key
               /\ \A n \in DOMAIN s : Narrowed(s[n], r[n])
               /\ r[k].status = s[k].status /\ r[k].from = s[k].from
               /\ t <= s[k].until => r[k].until = t
<1> DEFINE cut == [s[k] EXCEPT !.until = Lesser(t, @)]
           mid == [s EXCEPT ![k] = cut]
           r   == Append(mid, key)
<1>1. Len(s) \in Nat /\ DOMAIN s = 1..Len(s) /\ \A n \in 1..Len(s) : s[n] \in Key
  BY LenProperties, ElementOfSeq
<1>2. s[k] \in Key /\ s[k].until \in Nat
  BY <1>1 DEF Key
<1>3. /\ Lesser(t, s[k].until) \in Nat /\ Lesser(t, s[k].until) <= s[k].until
      /\ t <= s[k].until => Lesser(t, s[k].until) = t
  BY <1>2 DEF Lesser
<1>4. /\ cut \in Key /\ cut.pub = s[k].pub /\ cut.from = s[k].from /\ cut.status = s[k].status
      /\ cut.until = Lesser(t, s[k].until)
  BY <1>2, <1>3 DEF Key
<1> HIDE DEF cut
<1>5. /\ mid \in Seq(Key) /\ Len(mid) = Len(s)
      /\ \A n \in 1..Len(s) : mid[n] = IF n = k THEN cut ELSE s[n]
  BY <1>1, <1>4, ExceptSeq
<1> HIDE DEF mid
<1>6. /\ r \in Seq(Key) /\ Len(r) = Len(s) + 1 /\ r[Len(s) + 1] = key
      /\ \A n \in 1..Len(s) : r[n] = mid[n]
  BY <1>1, <1>5
<1> HIDE DEF r
<1>7. \A n \in 1..Len(s) : r[n] = IF n = k THEN cut ELSE s[n]
  BY <1>5, <1>6
<1>8. ASSUME NEW n \in 1..Len(s) PROVE Narrowed(s[n], r[n])
  <2>1. CASE n = k
    BY <1>3, <1>4, <1>7, <2>1 DEF Narrowed
  <2>2. CASE n # k
    <3>1. r[n] = s[n] /\ s[n].until \in Nat
      BY <1>1, <1>7, <2>2 DEF Key
    <3> QED BY <3>1 DEF Narrowed
  <2> QED BY <2>1, <2>2
<1>9. r[k] = cut
  BY <1>1, <1>7
<1>10. r[k].status = s[k].status /\ r[k].from = s[k].from /\ (t <= s[k].until => r[k].until = t)
  BY <1>3, <1>4, <1>9
<1>11. r = Rotated(s, k, t, key)
  BY DEF r, mid, cut, Rotated
<1> QED BY <1>1, <1>6, <1>8, <1>10, <1>11

\* A directory with one more key in each list, whose owner holds it.
LEMMA ComposeStep ==
    ASSUME RInv, NEW S \in SUBSET announced, S # {}, NEW t \in Activations, Compose(S, t)
    PROVE  RInv'
<1> DEFINE c  == RotationCandidate(S, t)
           I  == {m.issued : m \in S}
           issued  == Max(I)
           expires == issued + Validity
           Key1(m) == [pub |-> m.pub, status |-> "active", from |-> t, until |-> expires]
           old(x)  == Newest.keys[x]
           prev(x) == Of(S, x[1]).previous[x[2]]
           list(x) == Append([old(x) EXCEPT ![prev(x)] = [old(x)[prev(x)] EXCEPT !.until = Lesser(t, @)]],
                             Key1(Of(S, x[1])))
<1>1. /\ \A m \in S : VerifyAnnouncement(m, t)
      /\ {m.agent : m \in S} = Agent /\ InTime(S, t) /\ draft' = c
      /\ UNCHANGED <<now, dirs, installed, files, announced, ops, crashes>>
  BY DEF Compose
<1>2. Newest \in Directory /\ Newest = dirs[Epoch] /\ Epoch \in Nat \ {0} /\ Epoch = Len(dirs)
  BY DirOf DEF Epoch
<1>3. \A m \in S : AnnouncementOK(m, dirs, staged, now)
  BY DEF RInv, AnnouncedInv
<1>4. \A m \in S : /\ m \in Announcement /\ m.issued <= now /\ m.base = Epoch
                   /\ \A p \in Purpose :
                        m.previous[p] = ActiveKey(Newest.keys[<<m.agent, p>>], m.issued)
  BY <1>1, <1>3 DEF VerifyAnnouncement, AnnouncementOK
<1>5. /\ t \in Nat /\ now \in Nat /\ Validity \in Nat
  BY RotationAssumption DEF RInv, CountsInv
<1>6. \A m \in S : m.issued \in Nat /\ m.pub \in Agent \X Nat /\ m.agent \in Agent
  BY <1>4 DEF Announcement
<1>7. issued \in Nat /\ expires \in Nat /\ \A m \in S : m.issued <= issued
  <2>1. I \in SUBSET Nat /\ I # {} /\ \A n \in I : n <= now
    BY <1>4, <1>6
  <2>2. Max(I) \in I /\ \A n \in I : n <= Max(I)
    <3> HIDE DEF I
    <3> QED BY <1>5, <2>1, MaxExists
  <2>3. issued \in Nat
    BY <2>1, <2>2
  <2> QED BY <1>5, <2>2, <2>3
<1>8. c = [base |-> Epoch, issued |-> issued, expires |-> expires,
           keys |-> [x \in Owned |-> list(x)], groups |-> Newest.groups]
  BY DEF RotationCandidate
<1> HIDE DEF issued, I
<1>9. ASSUME NEW a \in Agent PROVE Of(S, a) \in S /\ Of(S, a).agent = a
  <2>1. PICK m \in S : m.agent = a
    BY <1>1
  <2> QED BY <2>1 DEF Of
<1>10. ASSUME NEW m \in S PROVE Key1(m) \in Key
  <2>1. m.pub \in Agent \X Nat
    BY <1>6
  <2> HIDE DEF expires
  <2> QED BY <1>5, <1>7, <2>1 DEF Key
<1>11. ASSUME NEW x \in Owned
       PROVE  LET m == Of(S, x[1])
                  k == prev(x)
                  s == old(x)
                  r == list(x)
              IN  /\ m \in S /\ m.agent = x[1] /\ x[2] \in Purpose /\ x = <<m.agent, x[2]>>
                  /\ s \in Seq(Key) /\ Len(s) \in Nat /\ DOMAIN s = 1..Len(s)
                  /\ k = ActiveKey(s, m.issued) /\ k \in DOMAIN s /\ t <= s[k].until
                  /\ r \in Seq(Key) /\ Len(r) = Len(s) + 1 /\ r[Len(s) + 1] = Key1(m)
                  /\ \A n \in DOMAIN s : Narrowed(s[n], r[n])
                  /\ r[k].status = s[k].status /\ r[k].from = s[k].from /\ r[k].until = t
  <2> DEFINE m == Of(S, x[1])
             k == prev(x)
             s == old(x)
             r == list(x)
  <2>1. m \in S /\ m.agent = x[1] /\ x[2] \in Purpose /\ x = <<m.agent, x[2]>>
    BY <1>9, OwnedPairs
  <2>2. s \in Seq(Key) /\ Len(s) \in Nat /\ DOMAIN s = 1..Len(s)
    BY <1>2, KeyList
  <2>3. k = ActiveKey(s, m.issued)
    BY <1>4, <2>1
  <2>4. k \in DOMAIN s
    <3>1. m.previous[x[2]] \in DOMAIN dirs[m.base].keys[<<m.agent, x[2]>>]
      BY <1>3, <2>1 DEF AnnouncementOK
    <3> QED BY <1>2, <1>4, <2>1, <3>1
  <2>5. t <= s[k].until
    BY <1>1, <2>1 DEF InTime
  <2>6. Key1(m) \in Key
    BY <1>10, <2>1
  <2> DEFINE key == Key1(m)
  <2>7. r = Rotated(s, k, t, key)
    BY DEF Rotated
  <2> HIDE DEF m, k, s, r, key
  <2>8. /\ r \in Seq(Key) /\ Len(r) = Len(s) + 1 /\ r[Len(s) + 1] = key
        /\ \A n \in DOMAIN s : Narrowed(s[n], r[n])
        /\ r[k].status = s[k].status /\ r[k].from = s[k].from
        /\ t <= s[k].until => r[k].until = t
    <3>1. key \in Key
      BY <2>6 DEF key
    <3> QED BY <1>5, <2>2, <2>4, <2>7, <3>1, CutList
  <2> QED BY <2>1, <2>2, <2>3, <2>4, <2>5, <2>8 DEF m, k, s, r, key
<1> HIDE DEF list, old, prev, expires, c
<1>12. /\ c.base = Epoch /\ c.issued = issued /\ c.expires = expires
       /\ c.groups = Newest.groups /\ \A x \in Owned : c.keys[x] = list(x)
  BY <1>8
<1>13. c \in Directory
  <2> DEFINE K == [x \in Owned |-> list(x)]
  <2>1. K \in [Owned -> Seq(Key)]
    BY <1>11
  <2>2. Newest.groups \in [Group -> Seq({"active", "retired"})]
    BY <1>2, DirectoryParts
  <2> HIDE DEF K
  <2> QED BY <1>2, <1>7, <1>8, <2>1, <2>2 DEF Directory, K
<1>14. Shrunk(Newest, c)
  <2> SUFFICES ASSUME NEW x \in Owned
               PROVE  /\ Len(old(x)) <= Len(c.keys[x])
                      /\ \A n \in DOMAIN old(x) : Narrowed(old(x)[n], c.keys[x][n])
    BY DEF Shrunk, old
  <2>1. /\ Len(old(x)) \in Nat /\ Len(list(x)) = Len(old(x)) + 1
        /\ \A n \in DOMAIN old(x) : Narrowed(old(x)[n], list(x)[n])
    BY <1>11
  <2>2. c.keys[x] = list(x)
    BY <1>12
  <2> QED BY <2>1, <2>2
<1>15. Grown(c, Epoch)
  <2> SUFFICES ASSUME NEW a \in Agent
               PROVE  /\ Len(c.keys[<<a, "sig">>]) - Len(First.keys[<<a, "sig">>])
                           = Len(c.keys[<<a, "enc">>]) - Len(First.keys[<<a, "enc">>])
                      /\ Len(c.keys[<<a, "sig">>]) - Len(First.keys[<<a, "sig">>]) \in 0..Epoch
    BY DEF Grown
  <2> DEFINE cs == Len(c.keys[<<a, "sig">>])
             ce == Len(c.keys[<<a, "enc">>])
             ls == Len(Newest.keys[<<a, "sig">>])
             le == Len(Newest.keys[<<a, "enc">>])
             fs == Len(First.keys[<<a, "sig">>])
             fe == Len(First.keys[<<a, "enc">>])
  <2>1. fs \in Nat /\ fe \in Nat
    BY KidNat
  <2>2. cs = ls + 1 /\ ce = le + 1 /\ ls \in Nat /\ le \in Nat
    BY <1>11, <1>12, OwnedPairs DEF old
  <2>3. ls - fs = le - fe /\ ls - fs \in 0..(Epoch - 1)
    <3>1. Epoch \in 1..Epoch
      BY <1>2
    <3>2. Grown(Newest, Epoch - 1)
      BY <1>2, <3>1 DEF RInv, DirsInv
    <3> QED BY <3>2 DEF Grown
  <2> HIDE DEF cs, ce, ls, le, fs, fe
  <2>4. cs - fs = ce - fe /\ cs - fs \in 0..Epoch
    BY <1>2, <2>1, <2>2, <2>3
  <2> QED BY <2>4 DEF cs, ce, fs, fe
<1>16. InCustody(c, staged)
  <2> SUFFICES ASSUME NEW a \in Agent, NEW p \in Purpose,
                      NEW n \in DOMAIN c.keys[<<a, p>>] \ DOMAIN First.keys[<<a, p>>]
               PROVE  \E b \in staged[a] : Holds(b, p, n, c.keys[<<a, p>>][n].pub)
    BY DEF InCustody
  <2> DEFINE x == <<a, p>>
             s == old(x)
             m == Of(S, x[1])
  <2>1. x \in Owned /\ x[1] = a /\ x[2] = p
    BY OwnedPairs
  <2>2. /\ m \in S /\ m.agent = a /\ Len(s) \in Nat /\ DOMAIN s = 1..Len(s)
        /\ list(x) \in Seq(Key) /\ Len(list(x)) = Len(s) + 1
        /\ list(x)[Len(s) + 1] = Key1(m) /\ \A i \in DOMAIN s : Narrowed(s[i], list(x)[i])
    BY <1>11, <2>1
  <2>3. n \in 1..(Len(s) + 1) /\ c.keys[x][n] = list(x)[n]
    <3>1. DOMAIN list(x) = 1..Len(list(x))
      BY <2>2, LenProperties
    <3> QED BY <1>12, <2>1, <2>2, <3>1
  <2>4. CASE n = Len(s) + 1
    <3>1. c.keys[x][n].pub = m.pub
      BY <2>2, <2>3, <2>4
    <3>2. PICK b \in staged[a] : Holds(b, p, Len(dirs[m.base].keys[<<a, p>>]) + 1, m.pub)
      BY <1>3, <2>2 DEF AnnouncementOK
    <3>3. dirs[m.base].keys[<<a, p>>] = s
      BY <1>2, <1>4, <2>2 DEF old
    <3> QED BY <2>4, <3>1, <3>2, <3>3
  <2>5. CASE n # Len(s) + 1
    <3>1. n \in DOMAIN s
      BY <2>2, <2>3, <2>5
    <3>2. c.keys[x][n].pub = s[n].pub
      BY <2>2, <2>3, <3>1 DEF Narrowed
    <3>3. InCustody(Newest, staged)
      BY <1>2 DEF RInv, DirsInv
    <3>4. n \in DOMAIN Newest.keys[<<a, p>>] \ DOMAIN First.keys[<<a, p>>]
      BY <3>1 DEF old
    <3> QED BY <3>2, <3>3, <3>4 DEF InCustody, old
  <2> QED BY <2>4, <2>5
<1>17. Covers(c)
  <2> SUFFICES ASSUME NEW x \in Owned, NEW u \in issued .. (expires - 1)
               PROVE  ActiveKey(c.keys[x], u) # 0
    BY <1>12 DEF Covers
  <2> DEFINE s == old(x)
             r == list(x)
             m == Of(S, x[1])
             k == prev(x)
  <2>1. /\ m \in S /\ s \in Seq(Key) /\ Len(s) \in Nat /\ DOMAIN s = 1..Len(s)
        /\ k = ActiveKey(s, m.issued) /\ k \in DOMAIN s
        /\ r \in Seq(Key) /\ Len(r) = Len(s) + 1 /\ r[Len(s) + 1] = Key1(m)
        /\ r[k].status = s[k].status /\ r[k].from = s[k].from /\ r[k].until = t
    BY <1>11
  <2>2. m.issued \in Nat /\ m.issued <= issued /\ issued \in Nat /\ expires \in Nat /\ u \in Nat
        /\ issued <= u /\ u < expires
    BY <1>6, <1>7, <2>1
  <2>3. KeyOpen(s[k], m.issued)
    <3>1. k # 0 /\ m.issued \in Int
      BY <2>1, <2>2
    <3> HIDE DEF s, r, m, k
    <3> QED BY <2>1, <3>1, ActiveKeyIs
  <2>4. s[k].from \in Nat
    <3>1. s[k] \in Key
      BY <2>1, ElementOfSeq
    <3> QED BY <3>1 DEF Key
  <2>5. DOMAIN r = 1..(Len(s) + 1)
    BY <2>1, LenProperties
  <2>6. c.keys[x] = r
    BY <1>12
  <2>7. Key1(m).status = "active" /\ Key1(m).from = t /\ Key1(m).until = expires
    OBVIOUS
  <2> DEFINE new == Key1(m)
  <2> HIDE DEF s, r, m, k, new
  <2>8. ActiveKey(r, u) = 0 => \A n \in DOMAIN r : ~KeyOpen(r[n], u)
    <3>1. u \in Int /\ r \in Seq(Key)
      BY <2>1, <2>2
    <3> QED BY <3>1, ActiveKeyIs
  <2>9. CASE u < t
    <3>1. KeyOpen(r[k], u)
      BY <1>5, <2>1, <2>2, <2>3, <2>4, <2>9 DEF KeyOpen
    <3>2. k \in DOMAIN r
      BY <2>1, <2>5
    <3> QED BY <2>6, <2>8, <3>1, <3>2
  <2>10. CASE ~(u < t)
    <3>1. r[Len(s) + 1] = new /\ new.status = "active" /\ new.from = t /\ new.until = expires
      BY <2>1, <2>7 DEF new
    <3>2. KeyOpen(r[Len(s) + 1], u)
      BY <1>5, <2>2, <2>10, <3>1 DEF KeyOpen
    <3>3. Len(s) + 1 \in DOMAIN r
      BY <2>1, <2>5
    <3> QED BY <2>6, <2>8, <3>2, <3>3
  <2> QED BY <2>9, <2>10
<1> QED BY <1>1, <1>12, <1>13, <1>14, <1>15, <1>16, <1>17, DraftStep

\* A revoked key ends no later than before.
LEMMA RevokedKey ==
    ASSUME NEW k \in Key, now \in Nat
    PROVE  Revoked(k) \in Key /\ Narrowed(k, Revoked(k)) /\ Narrowed(k, k)
<1> DEFINE end == IF now > k.from THEN Lesser(k.until, now) ELSE k.until
           r   == [k EXCEPT !.status = "revoked", !.until = end]
<1>1. k.from \in Nat /\ k.until \in Nat
  BY DEF Key
<1>2. end \in Nat /\ end <= k.until
  BY <1>1 DEF Lesser
<1>3. Revoked(k) = r
  BY DEF Revoked
<1> HIDE DEF end
<1>4. r \in Key
  BY <1>2 DEF Key
<1>5. r.pub = k.pub /\ r.from = k.from /\ r.until = end /\ r.status = "revoked"
  BY DEF Key
<1> HIDE DEF r
<1> QED BY <1>1, <1>2, <1>3, <1>4, <1>5 DEF Narrowed

\* A directory with the same lists, in which keys are revoked.
LEMMA RecoverStep == ASSUME RInv, NEW C, Recover(C) PROVE RInv'
<1> DEFINE c == RecoveryCandidate(C)
           old(x)    == Newest.keys[x]
           list(x)   == [n \in DOMAIN old(x) |-> IF Compromised(C, x, n) THEN Revoked(old(x)[n])
                                                                         ELSE old(x)[n]]
           Hurt      == {a \in Agent : \E n \in DOMAIN Newest.keys[<<a, "enc">>] :
                                          Compromised(C, <<a, "enc">>, n)}
           Hit(g)    == Members[g] \cap Hurt # {}
                          /\ \E n \in DOMAIN Newest.groups[g] : Newest.groups[g][n] = "active"
           group(g)  == IF Hit(g) THEN Succeed(Newest.groups[g]) ELSE Newest.groups[g]
           expires   == Lesser(now + Validity, Newest.expires)
<1>1. /\ draft' = c /\ Covered(c, now)
      /\ UNCHANGED <<now, dirs, installed, files, announced, ops, crashes>>
  BY DEF Recover
<1>2. c = [base |-> Epoch, issued |-> now, expires |-> expires,
           keys |-> [x \in Owned |-> list(x)], groups |-> [g \in Group |-> group(g)]]
  BY DEF RecoveryCandidate
<1>3. Newest \in Directory /\ Newest = dirs[Epoch] /\ Epoch \in Nat \ {0} /\ Epoch \in 1..Epoch
  BY DirOf
<1>4. now \in Nat /\ expires \in Nat
  <2>1. now \in Nat /\ Validity \in Nat /\ Newest.expires \in Nat
    BY <1>3, DirectoryParts, RotationAssumption DEF RInv, CountsInv
  <2> QED BY <2>1 DEF Lesser
<1>5. ASSUME NEW x \in Owned
      PROVE  /\ old(x) \in Seq(Key) /\ Len(old(x)) \in Nat /\ DOMAIN old(x) = 1..Len(old(x))
             /\ list(x) \in Seq(Key) /\ Len(list(x)) = Len(old(x))
             /\ DOMAIN list(x) = DOMAIN old(x)
             /\ \A n \in DOMAIN old(x) : Narrowed(old(x)[n], list(x)[n])
  <2>1. /\ old(x) \in Seq(Key) /\ Len(old(x)) \in Nat /\ DOMAIN old(x) = 1..Len(old(x))
        /\ \A n \in 1..Len(old(x)) : old(x)[n] \in Key
    BY <1>3, KeyList
  <2> DEFINE s == old(x)
             r == list(x)
  <2>2. \A n \in DOMAIN s : r[n] = Revoked(s[n]) \/ r[n] = s[n]
    OBVIOUS
  <2>3. DOMAIN r = DOMAIN s /\ r = [n \in DOMAIN s |-> r[n]]
    OBVIOUS
  <2> HIDE DEF s, r
  <2>4. \A n \in 1..Len(s) : r[n] \in Key /\ Narrowed(s[n], r[n])
    BY <1>4, <2>1, <2>2, RevokedKey DEF s
  <2>5. r \in [1..Len(s) -> Key]
    BY <2>1, <2>3, <2>4 DEF s
  <2>6. r \in Seq(Key) /\ Len(r) = Len(s)
    BY <2>1, <2>5 DEF s
  <2> QED BY <2>1, <2>3, <2>4, <2>6 DEF s, r
<1>6. ASSUME NEW g \in Group PROVE group(g) \in Seq({"active", "retired"})
  <2> DEFINE E == Newest.groups[g]
             R == [n \in DOMAIN E |-> "retired"]
  <2>1. E \in Seq({"active", "retired"})
    BY <1>3, DirectoryParts
  <2>2. group(g) = E \/ group(g) = Append(R, "active")
    BY DEF Succeed
  <2> HIDE DEF E
  <2>3. Len(E) \in Nat /\ DOMAIN E = 1..Len(E)
    BY <2>1, LenProperties
  <2>4. R \in [1..Len(E) -> {"active", "retired"}]
    BY <2>3
  <2>5. R \in Seq({"active", "retired"})
    BY <2>3, <2>4
  <2> HIDE DEF R, group
  <2>6. Append(R, "active") \in Seq({"active", "retired"})
    BY <2>5
  <2> QED BY <2>1, <2>2, <2>6
<1> HIDE DEF c, list, old, group, expires
<1>7. /\ c.base = Epoch /\ c.issued = now /\ c.expires = expires
      /\ \A x \in Owned : c.keys[x] = list(x)
  BY <1>2
<1>8. c \in Directory
  <2> DEFINE K == [x \in Owned |-> list(x)]
             G == [g \in Group |-> group(g)]
  <2>1. K \in [Owned -> Seq(Key)] /\ G \in [Group -> Seq({"active", "retired"})]
    BY <1>5, <1>6
  <2> HIDE DEF K, G
  <2> QED BY <1>2, <1>3, <1>4, <2>1 DEF Directory, K, G
<1>9. Shrunk(Newest, c)
  <2> SUFFICES ASSUME NEW x \in Owned
               PROVE  /\ Len(old(x)) <= Len(c.keys[x])
                      /\ \A n \in DOMAIN old(x) : Narrowed(old(x)[n], c.keys[x][n])
    BY DEF Shrunk, old
  <2>1. /\ Len(old(x)) \in Nat /\ Len(list(x)) = Len(old(x))
        /\ \A n \in DOMAIN old(x) : Narrowed(old(x)[n], list(x)[n])
    BY <1>5
  <2>2. c.keys[x] = list(x)
    BY <1>7
  <2> QED BY <2>1, <2>2
<1>10. Grown(c, Epoch)
  <2>1. Grown(Newest, Epoch - 1)
    BY <1>3 DEF RInv, DirsInv
  <2>2. \A x \in Owned : Len(c.keys[x]) = Len(Newest.keys[x])
    BY <1>5, <1>7 DEF old
  <2>3. \A n \in 0..(Epoch - 1) : n \in 0..Epoch
    BY <1>3
  <2> QED BY <2>1, <2>2, <2>3, OwnedPairs DEF Grown
<1>11. InCustody(c, staged)
  <2> SUFFICES ASSUME NEW a \in Agent, NEW p \in Purpose,
                      NEW n \in DOMAIN c.keys[<<a, p>>] \ DOMAIN First.keys[<<a, p>>]
               PROVE  \E b \in staged[a] : Holds(b, p, n, c.keys[<<a, p>>][n].pub)
    BY DEF InCustody
  <2>1. <<a, p>> \in Owned
    BY OwnedPairs
  <2>2. InCustody(Newest, staged)
    BY <1>3 DEF RInv, DirsInv
  <2>3. /\ n \in DOMAIN Newest.keys[<<a, p>>]
        /\ c.keys[<<a, p>>][n].pub = Newest.keys[<<a, p>>][n].pub
    BY <1>5, <1>7, <2>1 DEF old, Narrowed
  <2> QED BY <2>2, <2>3 DEF InCustody
<1>12. Covers(c)
  <2> SUFFICES ASSUME NEW x \in Owned, NEW u \in now .. (expires - 1)
               PROVE  ActiveKey(c.keys[x], u) # 0
    BY <1>7 DEF Covers
  <2> DEFINE r == c.keys[x]
  <2>1. r \in Seq(Key) /\ u \in Int /\ now <= u /\ u < expires
    BY <1>4, <1>5, <1>7
  <2>2. PICK n \in DOMAIN r : r[n].status = "active" /\ r[n].from <= now /\ expires <= r[n].until
    BY <1>1, <1>7 DEF Covered
  <2> HIDE DEF r
  <2>3. r[n].from \in Nat /\ r[n].until \in Nat
    <3>1. r[n] \in Key
      BY <2>1, LenProperties, ElementOfSeq
    <3> QED BY <3>1 DEF Key
  <2>4. KeyOpen(r[n], u)
    BY <1>4, <2>1, <2>2, <2>3 DEF KeyOpen
  <2>5. ActiveKey(r, u) # 0
    BY <2>1, <2>4, ActiveKeyIs
  <2> QED BY <2>5 DEF r
<1> QED BY <1>1, <1>7, <1>8, <1>9, <1>10, <1>11, <1>12, DraftStep

LEMMA NextRInv == RInv /\ [Next]_vars => RInv'
<1> SUFFICES ASSUME RInv, [Next]_vars PROVE RInv'
  OBVIOUS
<1>1. CASE UNCHANGED vars
  <2>1. /\ UNCHANGED <<dirs, draft, files, announced, ops, crashes>>
        /\ now' \in 0..MaxTime /\ now <= now' /\ installed' \in [Agent -> 1..Epoch]
    BY <1>1 DEF vars, RInv, CountsInv
  <2> QED BY <2>1, QuietStep
<1>2. CASE \E a \in Agent, t \in Activations, e \in 1..MaxTime : Prepare(a, t, e)
  BY <1>2, PrepareStep
<1>3. CASE \E S \in SUBSET announced, t \in Activations : S # {} /\ Compose(S, t)
  BY <1>3, ComposeStep
<1>4. CASE \E k \in Kids : Recover({k})
  BY <1>4, RecoverStep
<1>5. CASE Sign
  BY <1>5, SignStep
<1>6. CASE \E a \in Agent : Install(a)
  BY <1>6, InstallStep
<1>7. ASSUME NEW p \in Operator,
             \/ \E a \in Agent : \E b \in staged[a] : ActivateStart(p, b)
             \/ ActivateLock(p) \/ ActivateBackup(p) \/ ActivateCommit(p) \/ ActivateCrash(p)
      PROVE  RInv'
  BY <1>7, ActivateStartStep, ActivateLockStep, ActivateBackupStep, ActivateCommitStep,
     ActivateCrashStep
<1>8. CASE Tick
  BY <1>8, TickStep
<1> QED BY <1>1, <1>2, <1>3, <1>4, <1>5, <1>6, <1>7, <1>8 DEF Next

LEMMA InitRInv == Init => RInv
<1> SUFFICES ASSUME Init PROVE RInv
  OBVIOUS
<1>1. /\ First \in Directory /\ {MaxTime, MaxCrashes} \subseteq Nat
      /\ \A x \in Owned : First.keys[x] # <<>>
  BY RotationAssumption
<1>2. /\ dirs \in Seq(Directory) /\ Epoch = 1 /\ dirs[1] = First
  BY <1>1 DEF Init, Epoch
<1>3. DirsInv
  <2>1. Grown(First, 0)
    BY KidNat DEF Grown
  <2>2. InCustody(First, staged)
    BY DEF InCustody
  <2>3. \A e \in 1..1 : e = 1 /\ e - 1 = 0
    OBVIOUS
  <2>4. 2..1 = {} /\ 1 >= 1
    OBVIOUS
  <2> QED BY <1>2, <2>1, <2>2, <2>3, <2>4 DEF DirsInv
<1>4. CountsInv
  BY <1>1, <1>2 DEF Init, CountsInv
<1>5. DraftInv /\ AnnouncedInv /\ OpsInv
  BY DEF Init, DraftInv, AnnouncedInv, OpsInv
<1>6. FilesInv
  BY DEF Init, FilesInv
<1>7. ASSUME NEW a \in Agent
      PROVE  Bundle(a, FirstBundle(a)) /\ Vouches(First, a, FirstBundle(a))
  <2> DEFINE sig == First.keys[<<a, "sig">>]
             enc == First.keys[<<a, "enc">>]
             b   == FirstBundle(a)
  <2>1. <<a, "sig">> \in Owned /\ <<a, "enc">> \in Owned
    BY OwnedPairs
  <2>2. /\ Len(sig) \in Nat \ {0} /\ DOMAIN sig = 1..Len(sig)
        /\ \A n \in 1..Len(sig) : sig[n] \in Key
        /\ Len(enc) \in Nat \ {0} /\ DOMAIN enc = 1..Len(enc)
        /\ \A n \in 1..Len(enc) : enc[n] \in Key
    BY <1>1, <2>1, KeyList, KidNat
  <2>3. b = [agent |-> a, kid |-> Len(sig), sig |-> sig[Len(sig)].pub,
             enc |-> [n \in DOMAIN enc |-> enc[n].pub]]
    BY DEF FirstBundle
  <2>4. MaxDirs \in Nat
    BY RotationAssumption
  <2>5. \A n \in 1..Len(enc) : n \in Kid
    <3> SUFFICES ASSUME NEW n \in 1..Len(enc) PROVE n \in Kid
      OBVIOUS
    <3>1. n \in Nat \ {0} /\ n <= Len(enc) + MaxDirs
      BY <2>2, <2>4
    <3> QED BY <2>1, <3>1, KidIs
  <2>6. Len(sig) \in Kid
    <3>1. Len(sig) <= Len(sig) + MaxDirs
      BY <2>2, <2>4
    <3> QED BY <2>1, <2>2, <3>1, KidIs
  <2> HIDE DEF b
  <2>7. /\ b.agent = a /\ b.kid = Len(sig) /\ b.sig = sig[Len(sig)].pub
        /\ DOMAIN b.enc = DOMAIN enc /\ \A n \in DOMAIN enc : b.enc[n] = enc[n].pub
        /\ b = [agent |-> b.agent, kid |-> b.kid, sig |-> b.sig, enc |-> b.enc]
    BY <2>3
  <2>8. Top(a, b) = Len(enc)
    <3> DEFINE ls == Len(sig)
               le == Len(enc)
    <3>1. ls \in Nat /\ le \in Nat /\ Top(a, b) = ls - ls + le
      BY <2>2, <2>7 DEF Top
    <3> HIDE DEF ls, le
    <3>2. Top(a, b) = le
      BY <3>1
    <3> QED BY <3>2 DEF le
  <2> HIDE DEF sig, enc
  <2>9. Len(sig) \in 1..Len(sig) /\ Len(enc) \in 1..Len(enc)
    BY <2>2
  <2>10. IsBundle(b)
    <3>1. sig[Len(sig)].pub \in Agent \X Nat /\ \A n \in 1..Len(enc) : enc[n].pub \in Agent \X Nat
      BY <2>2, <2>9 DEF Key
    <3> QED BY <2>2, <2>5, <2>6, <2>7, <3>1 DEF IsBundle
  <2>11. Bundle(a, b)
    BY <2>2, <2>7, <2>8, <2>9, <2>10 DEF Bundle
  <2>12. Vouches(First, a, b)
    BY <2>2, <2>7, <2>9 DEF Vouches, sig, enc
  <2> QED BY <2>11, <2>12 DEF b
<1>8. BundlesInv
  <2>1. \A a \in Agent : current[a] = FirstBundle(a) /\ staged[a] = {}
    BY DEF Init
  <2>2. 1 \in 1..Len(dirs)
    BY <1>2 DEF Epoch
  <2>3. \A a \in Agent : Governed(a, current[a], dirs)
    BY <1>2, <1>7, <2>1, <2>2 DEF Governed
  <2>4. current = [a \in Agent |-> current[a]] /\ staged = [a \in Agent |-> staged[a]]
    BY DEF Init
  <2>5. IsFiniteSet({})
    BY FS_EmptySet
  <2> QED BY <1>7, <2>1, <2>3, <2>4, <2>5 DEF BundlesInv
<1> QED BY <1>3, <1>4, <1>5, <1>6, <1>8 DEF RInv

-----------------------------------------------------------------------------
(* Theorems *)

\* The inductive invariant holds in every reachable state: lists that grow
\* together, bundles whose two newest keys come from one ceremony, drafts and
\* announcements that their agents' disks back, and activates that know what
\* they found.
THEOREM RotationInvariance == Spec => []RInv
BY InitRInv, NextRInv, PTL DEF Spec

\* Directories, bundles, files and processes are well formed.
THEOREM RotationTypes == Spec => []TypeOK
<1>1. RInv => TypeOK
  <2> SUFFICES ASSUME RInv PROVE TypeOK
    OBVIOUS
  <2>1. \A a \in Agent : \A b \in {current[a]} \cup staged[a] \cup was[a] : IsBundle(b)
    BY DEF RInv, BundlesInv, FilesInv, Bundle
  <2>2. \A a \in Agent, n \in Kid :
           backups[a][n] \in {Absent, Torn} \/ IsBundle(backups[a][n])
    BY DEF RInv, FilesInv, Bundle
  <2>3. announced \subseteq Announcement
    BY DEF RInv, AnnouncedInv, AnnouncementOK
  <2>4. \A p \in Operator : ops[p] = Idle \/ IsOp(ops[p])
    BY DEF RInv, OpsInv, OpOK, IsOp, Bundle
  <2> QED BY <2>1, <2>2, <2>3, <2>4 DEF RInv, CountsInv, DirsInv, DraftInv, TypeOK
<1> QED BY <1>1, RotationInvariance, PTL

\* No successor directory authorises a key whose private half is not on its
\* owner's disk, whatever dies between the two writes of prepare.
THEOREM CustodyComesFirst == Spec => []CustodyBeforeAuthority
<1>1. RInv => CustodyBeforeAuthority
  BY DEF RInv, DirsInv, InCustody, Holds, CustodyBeforeAuthority
<1> QED BY <1>1, RotationInvariance, PTL

\* Every agent has a key of each purpose at every moment of the lifetime of
\* every successor directory, of a rotation or of a recovery.
THEOREM NoGapInCoverage == Spec => []KeysCoverLifetime
<1>1. RInv => KeysCoverLifetime
  BY DEF RInv, DirsInv, Covers, KeysCoverLifetime
<1> QED BY <1>1, RotationInvariance, PTL

\* From one signed directory to the next a key's window only shrinks, its
\* bytes stay, and a status changes to revoked or not at all.
THEOREM AuthorityShrinks == Spec => []AuthorityNeverExtended
<1>1. RInv => AuthorityNeverExtended
  BY DEF RInv, DirsInv, Shrunk, Narrowed, AuthorityNeverExtended
<1> QED BY <1>1, RotationInvariance, PTL

\* Every key bundle in use is one that a signed directory vouches for, key by
\* key.
THEOREM BundlesAreGoverned == Spec => []BundleIsGoverned
<1>1. RInv => BundleIsGoverned
  BY DEF RInv, BundlesInv, Governed, Vouches, BundleIsGoverned, Epoch
<1> QED BY <1>1, RotationInvariance, PTL

\* Every bundle that an activation replaced is complete in a backup, also
\* when an activate died over the backup it was writing.
THEOREM ReplacedBundlesKept == Spec => []OldBundleKept
<1>1. RInv => OldBundleKept
  <2> SUFFICES ASSUME RInv, NEW a \in Agent, NEW b \in was[a]
               PROVE  \E n \in DOMAIN backups[a] : backups[a][n] = b
    BY DEF OldBundleKept
  <2>1. backups = [c \in Agent |-> [n \in Kid |-> backups[c][n]]]
    BY DEF RInv, FilesInv
  <2>2. DOMAIN backups[a] = Kid
    BY <2>1
  <2> QED BY <2>2 DEF RInv, FilesInv
<1> QED BY <1>1, RotationInvariance, PTL

\* An activation never returns to an earlier signing key and never loses an
\* encryption key: with the two newest keys of a bundle from one ceremony,
\* keeping the encryption keys forces the signing key forward.
THEOREM ActivationMovesForward == Spec => NeverBackToOldKey
<1>1. ASSUME RInv, [Next]_vars, NEW a \in Agent, current'[a] # current[a]
      PROVE  /\ current'[a].kid > current[a].kid
             /\ \A n \in DOMAIN current[a].enc :
                   n \in DOMAIN current'[a].enc /\ current'[a].enc[n] = current[a].enc[n]
  <2>1. PICK p \in Operator : ActivateCommit(p)
    BY <1>1 DEF Next, vars, files, Prepare, Compose, Recover, Sign, Install, ActivateStart,
                ActivateLock, ActivateBackup, ActivateCrash, Tick
  <2> DEFINE o == ops[p]
             c == o.new.agent
  <2>2. /\ o.pc = "commit" /\ SameFile(p) /\ current' = [current EXCEPT ![c] = o.new]
    BY <1>1, <2>1 DEF ActivateCommit
  <2>3. o.old.kid < o.new.kid /\ Retains(o.old, o.new) /\ c \in Agent
        /\ OpOK(o, dirs, staged, backups)
    BY <1>1, <2>2, CommitIs
  <2>4. o.old.kid \in Nat /\ o.new.kid \in Nat
    BY <2>3, KidNat DEF OpOK, Bundle, IsBundle
  <2>5. current = [b \in Agent |-> current[b]]
    BY <1>1 DEF RInv, BundlesInv
  <2>6. a = c /\ current'[a] = o.new /\ current[a] = o.old
    BY <1>1, <2>2, <2>5 DEF SameFile
  <2> HIDE DEF o, c
  <2> QED BY <2>3, <2>4, <2>6 DEF Retains
<1>2. RInv /\ [Next]_vars =>
        \A a \in Agent : current'[a] # current[a] =>
          /\ current'[a].kid > current[a].kid
          /\ \A n \in DOMAIN current[a].enc :
                n \in DOMAIN current'[a].enc /\ current'[a].enc[n] = current[a].enc[n]
  BY <1>1
<1> QED BY <1>2, RotationInvariance, PTL DEF NeverBackToOldKey, Spec
=============================================================================
