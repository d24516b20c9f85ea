------------------------- MODULE ProvisioningProofs -------------------------
(***************************************************************************)
(* Machine-checked proofs about Provisioning, for every set of packages    *)
(* and processes, any number of crashes and any interleaving of applies,   *)
(* loads and updates.                                                      *)
(***************************************************************************)
EXTENDS Provisioning, TLAPS

-----------------------------------------------------------------------------
(* The inductive invariant *)

\* Nothing is installed.
Empty ==
    /\ directory = None /\ roots = None /\ state = None /\ env = None
    /\ highWater = None

\* Package p is installed, and nothing else.
Whole(p) ==
    /\ directory = Dir[p] /\ state = Dir[p]
    /\ roots = RootsOf[p] /\ env = EnvOf[p]

\* Between nothing and p: a first installation.
FirstTime(p) ==
    /\ highWater = None
    /\ roots \in {None, RootsOf[p]}
    /\ directory \in {None, Dir[p]}
    /\ state \in {None, Dir[p]}
    /\ env \in {None, EnvOf[p]}
    /\ state # None => directory = Dir[p]

\* Between the high-water package and its direct successor p.
Upgrading(p) ==
    /\ highWater \in Package
    /\ EpochOf[Dir[highWater]] + 1 = EpochOf[Dir[p]]
    /\ RootsOf[highWater] = RootsOf[p]
    /\ PrevOf[Dir[p]] = Dir[highWater]
    /\ roots = RootsOf[p]
    /\ directory \in {Dir[highWater], Dir[p]}
    /\ state \in {Dir[highWater], Dir[p]}
    /\ env \in {EnvOf[highWater], EnvOf[p]}
    /\ state = Dir[p] => directory = Dir[p]

\* What the transaction of p may have left behind, wherever it stopped.
Between(p) == FirstTime(p) \/ (highWater = p /\ Whole(p)) \/ Upgrading(p)

Holding(a) == appliers[a].pc \notin {"idle", "lock"}

\* A holder of the lock passed the chain check, and only it moves the
\* high-water record: true also when updates disturb the destination.
ChainInv ==
    \A a \in Applier :
        /\ appliers[a].pc # "idle" => P(a) \in Package
        /\ Holding(a) => AboveHighWater(P(a))

\* The destination without and with an open transaction.
FilesInv ==
    /\ journal = NoJournal => Empty \/ (highWater \in Package /\ Whole(highWater))
    /\ journal # NoJournal =>
          /\ journal.package \in Package
          /\ Verified(journal.package, journal.at)
          /\ Between(journal.package)

\* The holder of the lock owns the transaction and has written, in this
\* order, everything before its next step.
HolderInv ==
    \A a \in Applier :
        LET pc == appliers[a].pc
            p  == P(a)
        IN  /\ pc = "journal" =>
                  /\ journal = NoJournal => Verified(p, appliers[a].now) /\ Between(p)
                  /\ journal # NoJournal => journal.package = p
            /\ Holding(a) /\ pc # "journal" => journal # NoJournal /\ journal.package = p
            /\ pc \in {"directory", "state", "environment", "high-water", "unlink"} =>
                  roots = RootsOf[p]
            /\ pc \in {"state", "environment", "high-water", "unlink"} => directory = Dir[p]
            /\ pc \in {"environment", "high-water", "unlink"} => state = Dir[p]
            /\ pc \in {"high-water", "unlink"} => env = EnvOf[p]
            /\ pc = "unlink" => highWater = p

PInv == TypeOK /\ ChainInv /\ (updates = 0 => FilesInv /\ HolderInv)

-----------------------------------------------------------------------------
(* Packages and files *)

\* What a package contains is never mistaken for a missing file.
LEMMA Contents ==
    ASSUME NEW p \in Package
    PROVE  /\ p # None
           /\ Dir[p] \in DirFile /\ Dir[p] # None
           /\ EpochOf[Dir[p]] \in Nat
           /\ RootsOf[p] # None /\ EnvOf[p] # None
           /\ RootsOf[p] \in {RootsOf[q] : q \in Package}
           /\ EnvOf[p] \in {EnvOf[q] : q \in Package}
BY ProvisioningAssumption

\* Whatever a transaction of p has left, apply on p passes every check.
LEMMA BetweenFits ==
    ASSUME NEW p \in Package, Between(p), journal # NoJournal
    PROVE  Compatible(p)
<1>1. CASE FirstTime(p)
  BY <1>1, Contents DEF FirstTime, Compatible, AboveHighWater, EnvironmentFits
<1>2. CASE highWater = p /\ Whole(p)
  BY <1>2, Contents DEF Whole, Compatible, AboveHighWater, EnvironmentFits
<1>3. CASE Upgrading(p)
  <2> USE <1>3 DEF Upgrading
  <2>1. /\ EpochOf[Dir[p]] = EpochOf[Dir[highWater]] + 1
        /\ EpochOf[Dir[highWater]] \in Nat /\ EpochOf[Dir[p]] \in Nat
        /\ Dir[p] # Dir[highWater] /\ p # highWater /\ highWater # None
    BY Contents
  <2>2. AboveHighWater(p) /\ EnvironmentFits(p)
    BY <2>1, Contents DEF AboveHighWater, EnvironmentFits
  <2>3. state # None =>
          /\ EpochOf[state] <= EpochOf[Dir[p]]
          /\ EpochOf[state] = EpochOf[Dir[p]] => state = Dir[p]
          /\ EpochOf[Dir[p]] <= EpochOf[state] + 1
    BY <2>1
  <2>4. directory # None /\ directory # Dir[p] =>
          /\ state # None /\ directory = state
          /\ PrevOf[Dir[p]] = directory
          /\ EpochOf[Dir[p]] = EpochOf[directory] + 1
    BY <2>1, Contents
  <2> QED BY <2>1, <2>2, <2>3, <2>4 DEF Compatible
<1> QED BY <1>1, <1>2, <1>3 DEF Between

\* A package that passes the checks on a destination without a transaction can
\* open one there.
LEMMA CompatibleBetween ==
    ASSUME NEW p \in Package, Compatible(p), FilesInv, journal = NoJournal
    PROVE  Between(p)
<1>1. CASE Empty
  BY <1>1 DEF Empty, Between, FirstTime
<1>2. CASE highWater \in Package /\ Whole(highWater)
  <2>1. highWater # None
    BY <1>2, Contents
  <2>2. CASE highWater = p
    BY <1>2, <2>2 DEF Between
  <2>3. CASE highWater # p
    BY <1>2, <2>1, <2>3, Contents
    DEF Between, Upgrading, Whole, Compatible, AboveHighWater
  <2> QED BY <2>2, <2>3
<1> QED BY <1>1, <1>2 DEF FilesInv

-----------------------------------------------------------------------------
(* Every step preserves the invariant *)

\* The start of an apply touches no file.
LEMMA BeginStep ==
    ASSUME PInv, NEW a \in Applier, NEW p \in Package, Begin(a, p)
    PROVE  PInv'
<1> USE DEF Begin, artifacts
<1>1. /\ \A b \in Applier : b # a => appliers'[b] = appliers[b]
      /\ appliers'[a] = [pc |-> "lock", package |-> p, now |-> clock]
      /\ appliers' \in [Applier -> Apply]
  BY DEF PInv, TypeOK, Apply
<1>2. TypeOK'
  BY <1>1 DEF PInv, TypeOK
<1>3. ChainInv'
  BY <1>1 DEF PInv, ChainInv, Holding, P, AboveHighWater
<1>4. ASSUME updates = 0 PROVE FilesInv' /\ HolderInv'
  <2>1. FilesInv'
    BY <1>4 DEF PInv, FilesInv, Empty, Whole, Between, FirstTime, Upgrading, Verified
  <2>2. HolderInv'
    BY <1>1, <1>4 DEF PInv, HolderInv, Holding, P, Whole, Between, FirstTime, Upgrading, Verified
  <2> QED BY <2>1, <2>2
<1> QED BY <1>2, <1>3, <1>4 DEF PInv
\* The preflight is repeated under the lock; what it finds is what the
\* transaction starts from or resumes.
LEMMA LockStep ==
    ASSUME PInv, NEW a \in Applier, Lock(a)
    PROVE  PInv'
<1> DEFINE p == P(a)
<1> USE DEF Lock, artifacts
<1>1. /\ \A b \in Applier : b # a => appliers'[b] = appliers[b]
      /\ appliers' \in [Applier -> Apply]
      /\ appliers[a].pc = "lock" /\ lock = None /\ p \in Package
      /\ \A b \in Applier : ~Holding(b)
  BY ProvisioningAssumption DEF PInv, TypeOK, Apply, ChainInv, P, Resting, Holding
<1>2. CASE ~(Authorized(p, appliers[a].now) /\ Compatible(p))
  <2>1. appliers'[a] = Resting /\ lock' = None
    BY <1>1, <1>2 DEF PInv, TypeOK, P
  <2>2. TypeOK'
    BY <1>1, <2>1, ProvisioningAssumption DEF PInv, TypeOK, Resting
  <2>3. ChainInv'
    BY <1>1, <2>1 DEF PInv, ChainInv, Holding, P, AboveHighWater, Resting
  <2>4. ASSUME updates = 0 PROVE FilesInv' /\ HolderInv'
    <3>1. FilesInv'
      BY <2>4 DEF PInv, FilesInv, Empty, Whole, Between, FirstTime, Upgrading, Verified
    <3>2. HolderInv'
      BY <1>1, <2>1 DEF HolderInv, Holding, P, Resting
    <3> QED BY <3>1, <3>2
  <2> QED BY <2>2, <2>3, <2>4 DEF PInv
<1>3. CASE Authorized(p, appliers[a].now) /\ Compatible(p)
  <2>1. /\ appliers'[a].pc = "journal" /\ lock' = a
        /\ appliers'[a].package = p /\ appliers'[a].now = appliers[a].now
    BY <1>1, <1>3 DEF PInv, TypeOK, P, Apply
  <2>2. TypeOK'
    BY <1>1, <2>1 DEF PInv, TypeOK, Holding
  <2>3. ChainInv'
    BY <1>1, <1>3, <2>1 DEF PInv, ChainInv, Holding, P, AboveHighWater, Compatible
  <2>4. ASSUME updates = 0 PROVE FilesInv' /\ HolderInv'
    <3>1. FilesInv'
      BY <2>4 DEF PInv, FilesInv, Empty, Whole, Between, FirstTime, Upgrading, Verified
    <3>2. journal = NoJournal => Verified(p, appliers[a].now) /\ Between(p)
      BY <1>1, <1>3, <2>4, CompatibleBetween DEF PInv, Authorized
    <3>3. journal # NoJournal => journal.package = p
      BY <1>3 DEF Authorized
    <3> HIDE DEF p
    <3>4. HolderInv'
      BY <1>1, <2>1, <3>2, <3>3
      DEF HolderInv, Holding, P, Whole, Between, FirstTime, Upgrading, Verified
    <3> QED BY <3>1, <3>4
  <2> QED BY <2>2, <2>3, <2>4 DEF PInv
<1> QED BY <1>2, <1>3

\* A process that dies gives up the lock and leaves the files as they are.
LEMMA CrashStep ==
    ASSUME PInv, NEW a \in Applier, Crash(a)
    PROVE  PInv'
<1> USE DEF Crash, artifacts
<1>1. /\ \A b \in Applier : b # a => appliers'[b] = appliers[b]
      /\ appliers'[a] = Resting
      /\ appliers' \in [Applier -> Apply]
  BY DEF PInv, TypeOK, Apply, Resting
<1>2. TypeOK'
  BY <1>1, ProvisioningAssumption DEF PInv, TypeOK, Resting
<1>3. ChainInv'
  BY <1>1 DEF PInv, ChainInv, Holding, P, AboveHighWater, Resting
<1>4. ASSUME updates = 0 PROVE FilesInv' /\ HolderInv'
  <2>1. FilesInv'
    BY <1>4 DEF PInv, FilesInv, Empty, Whole, Between, FirstTime, Upgrading, Verified
  <2>2. HolderInv'
    BY <1>1, <1>4
    DEF PInv, HolderInv, Holding, P, Whole, Between, FirstTime, Upgrading, Verified, Resting
  <2> QED BY <2>1, <2>2
<1> QED BY <1>2, <1>3, <1>4 DEF PInv

\* A step of the process that holds the lock: nobody else is past its checks.
LEMMA HolderStep ==
    ASSUME PInv, NEW a \in Applier, Holding(a), NEW pc, Goto(a, pc),
           pc \in {"roots", "directory", "state", "environment", "high-water", "unlink"}
    PROVE  /\ P(a) \in Package /\ lock = a /\ P(a)' = P(a)
           /\ appliers'[a].pc = pc /\ appliers'[a].now = appliers[a].now
           /\ appliers' \in [Applier -> Apply]
           /\ \A b \in Applier : b # a => /\ appliers'[b] = appliers[b]
                                          /\ ~Holding(b) /\ ~Holding(b)'
           /\ Holding(a)'
<1>1. /\ appliers'[a].pc = pc /\ appliers'[a].now = appliers[a].now
      /\ appliers'[a].package = appliers[a].package
      /\ \A b \in Applier : b # a => appliers'[b] = appliers[b]
  BY DEF PInv, TypeOK, Goto, Apply
<1>2. appliers' \in [Applier -> Apply]
  BY DEF PInv, TypeOK, Goto, Apply
<1>3. lock = a /\ \A b \in Applier : b # a => ~Holding(b)
  BY DEF PInv, TypeOK, Holding
<1>4. P(a) \in Package
  BY DEF PInv, ChainInv, Holding
<1> QED BY <1>1, <1>2, <1>3, <1>4 DEF P, Holding
\* The journal opens the transaction, or is the one being resumed.
LEMMA WriteJournalStep ==
    ASSUME PInv, NEW a \in Applier, WriteJournal(a)
    PROVE  PInv'
<1> USE DEF WriteJournal, artifacts
<1>1. Holding(a) /\ Goto(a, "roots") /\ appliers[a].pc = "journal"
  BY DEF Holding
<1>2. /\ P(a) \in Package /\ lock = a /\ P(a)' = P(a)
      /\ appliers'[a].pc = "roots" /\ appliers'[a].now = appliers[a].now
      /\ appliers' \in [Applier -> Apply]
      /\ \A b \in Applier : b # a => /\ appliers'[b] = appliers[b]
                                     /\ ~Holding(b) /\ ~Holding(b)'
      /\ Holding(a)'
  BY <1>1, HolderStep
<1>3. TypeOK'
  BY <1>2, Contents DEF PInv, TypeOK, Holding, Apply
<1>4. ChainInv'
  BY <1>1, <1>2, Contents DEF PInv, ChainInv, Holding, P, AboveHighWater
<1>5. ASSUME updates = 0 PROVE FilesInv' /\ HolderInv'
  <2> USE <1>5
  <2>1. journal' # NoJournal /\ journal'.package = P(a) /\ Between(P(a))
    BY <1>1, <1>2, Contents DEF PInv, FilesInv, HolderInv, Holding, NoJournal
  <2>2. Verified(P(a), journal'.at)
    BY <1>1, <1>2 DEF PInv, FilesInv, HolderInv
  <2>3. Between(P(a))'
    BY <1>2, <2>1 DEF Between, FirstTime, Whole, Upgrading
  <2>4. FilesInv'
    BY <1>2, <2>1, <2>2, <2>3 DEF FilesInv, Verified
  <2>5. HolderInv'
    BY <1>2, <2>1 DEF HolderInv, Holding
  <2> QED BY <2>4, <2>5
<1> QED BY <1>3, <1>4, <1>5 DEF PInv

\* The roots are written once and never replaced.
LEMMA WriteRootsStep ==
    ASSUME PInv, NEW a \in Applier, WriteRoots(a)
    PROVE  PInv'
<1> USE DEF WriteRoots, artifacts
<1>1. Holding(a) /\ Goto(a, "directory") /\ appliers[a].pc = "roots"
  BY DEF Holding
<1>2. /\ P(a) \in Package /\ lock = a /\ P(a)' = P(a)
      /\ appliers'[a].pc = "directory" /\ appliers'[a].now = appliers[a].now
      /\ appliers' \in [Applier -> Apply]
      /\ \A b \in Applier : b # a => /\ appliers'[b] = appliers[b]
                                     /\ ~Holding(b) /\ ~Holding(b)'
      /\ Holding(a)'
  BY <1>1, HolderStep
<1>3. TypeOK'
  BY <1>2, Contents DEF PInv, TypeOK, Holding, Apply
<1>4. ChainInv'
  BY <1>1, <1>2, Contents DEF PInv, ChainInv, Holding, P, AboveHighWater
<1>5. ASSUME updates = 0 PROVE FilesInv' /\ HolderInv'
  <2> USE <1>5
  <2>1. FilesInv'
    BY <1>1, <1>2, Contents DEF PInv, HolderInv, Holding, FilesInv, Empty, Whole, Between, FirstTime, Upgrading, Verified
  <2>2. HolderInv'
    BY <1>1, <1>2, Contents
    DEF PInv, FilesInv, Empty, HolderInv, Holding, P, Whole, Between, FirstTime, Upgrading,
        Verified
  <2> QED BY <2>1, <2>2
<1> QED BY <1>3, <1>4, <1>5 DEF PInv

\* The directory goes first: the state file never names a file that is not there.
LEMMA WriteDirectoryStep ==
    ASSUME PInv, NEW a \in Applier, WriteDirectory(a)
    PROVE  PInv'
<1> USE DEF WriteDirectory, artifacts
<1>1. Holding(a) /\ Goto(a, "state") /\ appliers[a].pc = "directory"
  BY DEF Holding
<1>2. /\ P(a) \in Package /\ lock = a /\ P(a)' = P(a)
      /\ appliers'[a].pc = "state" /\ appliers'[a].now = appliers[a].now
      /\ appliers' \in [Applier -> Apply]
      /\ \A b \in Applier : b # a => /\ appliers'[b] = appliers[b]
                                     /\ ~Holding(b) /\ ~Holding(b)'
      /\ Holding(a)'
  BY <1>1, HolderStep
<1>3. TypeOK'
  BY <1>2, Contents DEF PInv, TypeOK, Holding, Apply
<1>4. ChainInv'
  BY <1>1, <1>2, Contents DEF PInv, ChainInv, Holding, P, AboveHighWater
<1>5. ASSUME updates = 0 PROVE FilesInv' /\ HolderInv'
  <2> USE <1>5
  <2>1. FilesInv'
    BY <1>1, <1>2, Contents DEF PInv, HolderInv, Holding, FilesInv, Empty, Whole, Between, FirstTime, Upgrading, Verified
  <2>2. HolderInv'
    BY <1>1, <1>2, Contents
    DEF PInv, FilesInv, Empty, HolderInv, Holding, P, Whole, Between, FirstTime, Upgrading,
        Verified
  <2> QED BY <2>1, <2>2
<1> QED BY <1>3, <1>4, <1>5 DEF PInv

\* The state follows the directory of the same transaction.
LEMMA WriteStateStep ==
    ASSUME PInv, NEW a \in Applier, WriteState(a)
    PROVE  PInv'
<1> USE DEF WriteState, artifacts
<1>1. Holding(a) /\ Goto(a, "environment") /\ appliers[a].pc = "state"
  BY DEF Holding
<1>2. /\ P(a) \in Package /\ lock = a /\ P(a)' = P(a)
      /\ appliers'[a].pc = "environment" /\ appliers'[a].now = appliers[a].now
      /\ appliers' \in [Applier -> Apply]
      /\ \A b \in Applier : b # a => /\ appliers'[b] = appliers[b]
                                     /\ ~Holding(b) /\ ~Holding(b)'
      /\ Holding(a)'
  BY <1>1, HolderStep
<1>3. TypeOK'
  BY <1>2, Contents DEF PInv, TypeOK, Holding, Apply
<1>4. ChainInv'
  BY <1>1, <1>2, Contents DEF PInv, ChainInv, Holding, P, AboveHighWater
<1>5. ASSUME updates = 0 PROVE FilesInv' /\ HolderInv'
  <2> USE <1>5
  <2>1. FilesInv'
    BY <1>1, <1>2, Contents DEF PInv, HolderInv, Holding, FilesInv, Empty, Whole, Between, FirstTime, Upgrading, Verified
  <2>2. HolderInv'
    BY <1>1, <1>2, Contents
    DEF PInv, FilesInv, Empty, HolderInv, Holding, P, Whole, Between, FirstTime, Upgrading,
        Verified
  <2> QED BY <2>1, <2>2
<1> QED BY <1>3, <1>4, <1>5 DEF PInv

\* The environment is replaced unless it is that of a replayed package.
LEMMA WriteEnvironmentStep ==
    ASSUME PInv, NEW a \in Applier, WriteEnvironment(a)
    PROVE  PInv'
<1> USE DEF WriteEnvironment, artifacts
<1>1. Holding(a) /\ Goto(a, "high-water") /\ appliers[a].pc = "environment"
  BY DEF Holding
<1>2. /\ P(a) \in Package /\ lock = a /\ P(a)' = P(a)
      /\ appliers'[a].pc = "high-water" /\ appliers'[a].now = appliers[a].now
      /\ appliers' \in [Applier -> Apply]
      /\ \A b \in Applier : b # a => /\ appliers'[b] = appliers[b]
                                     /\ ~Holding(b) /\ ~Holding(b)'
      /\ Holding(a)'
  BY <1>1, HolderStep
<1>3. TypeOK'
  BY <1>2, Contents DEF PInv, TypeOK, Holding, Apply
<1>4. ChainInv'
  BY <1>1, <1>2, Contents DEF PInv, ChainInv, Holding, P, AboveHighWater
<1>5. ASSUME updates = 0 PROVE FilesInv' /\ HolderInv'
  <2> USE <1>5
  <2>1. FilesInv'
    BY <1>1, <1>2, Contents DEF PInv, HolderInv, Holding, FilesInv, Empty, Whole, Between, FirstTime, Upgrading, Verified
  <2>2. HolderInv'
    BY <1>1, <1>2, Contents
    DEF PInv, FilesInv, Empty, HolderInv, Holding, P, Whole, Between, FirstTime, Upgrading,
        Verified
  <2> QED BY <2>1, <2>2
<1> QED BY <1>3, <1>4, <1>5 DEF PInv

\* The record moves when all four artifacts are those of the package.
LEMMA WriteHighWaterStep ==
    ASSUME PInv, NEW a \in Applier, WriteHighWater(a)
    PROVE  PInv'
<1> USE DEF WriteHighWater, artifacts
<1>1. Holding(a) /\ Goto(a, "unlink") /\ appliers[a].pc = "high-water"
  BY DEF Holding
<1>2. /\ P(a) \in Package /\ lock = a /\ P(a)' = P(a)
      /\ appliers'[a].pc = "unlink" /\ appliers'[a].now = appliers[a].now
      /\ appliers' \in [Applier -> Apply]
      /\ \A b \in Applier : b # a => /\ appliers'[b] = appliers[b]
                                     /\ ~Holding(b) /\ ~Holding(b)'
      /\ Holding(a)'
  BY <1>1, HolderStep
<1>3. TypeOK'
  BY <1>2, Contents DEF PInv, TypeOK, Holding, Apply
<1>4. ChainInv'
  BY <1>1, <1>2, Contents DEF PInv, ChainInv, Holding, P, AboveHighWater
<1>5. ASSUME updates = 0 PROVE FilesInv' /\ HolderInv'
  <2> USE <1>5
  <2>1. FilesInv'
    BY <1>1, <1>2, Contents DEF PInv, HolderInv, Holding, FilesInv, Empty, Whole, Between, FirstTime, Upgrading, Verified
  <2>2. HolderInv'
    BY <1>1, <1>2, Contents
    DEF PInv, FilesInv, Empty, HolderInv, Holding, P, Whole, Between, FirstTime, Upgrading,
        Verified
  <2> QED BY <2>1, <2>2
<1> QED BY <1>3, <1>4, <1>5 DEF PInv

\* The journal goes when nothing is left to resume.
LEMMA FinishStep ==
    ASSUME PInv, NEW a \in Applier, Finish(a)
    PROVE  PInv'
<1> USE DEF Finish, artifacts
<1>1. /\ \A b \in Applier : b # a => /\ appliers'[b] = appliers[b] /\ ~Holding(b)
      /\ appliers'[a] = Resting
      /\ appliers' \in [Applier -> Apply]
      /\ Holding(a) /\ lock = a
  BY DEF PInv, TypeOK, Apply, Resting, Holding
<1>2. TypeOK'
  BY <1>1, ProvisioningAssumption DEF PInv, TypeOK, Resting, Holding, NoJournal
<1>3. ChainInv'
  BY <1>1 DEF PInv, ChainInv, Holding, P, AboveHighWater, Resting
<1>4. ASSUME updates = 0 PROVE FilesInv' /\ HolderInv'
  <2>1. highWater \in Package /\ Whole(highWater)
    BY <1>1, <1>4 DEF PInv, HolderInv, ChainInv, Whole, Holding
  <2>2. FilesInv'
    BY <2>1 DEF FilesInv, Whole
  <2>3. HolderInv'
    BY <1>1 DEF HolderInv, Holding, Resting
  <2> QED BY <2>2, <2>3
<1> QED BY <1>2, <1>3, <1>4 DEF PInv

\* A load catches the state up with the directory file and does nothing else,
\* whatever apply is doing at the time.
LEMMA LoadStep ==
    ASSUME PInv, Load
    PROVE  PInv'
<1> USE DEF Load
<1>1. TypeOK'
  BY DEF PInv, TypeOK
<1>2. ChainInv'
  BY DEF PInv, ChainInv, Holding, P, AboveHighWater
<1>3. ASSUME updates = 0 PROVE FilesInv' /\ HolderInv'
  <2>1. ASSUME NEW p \in Package, Between(p) PROVE Between(p)'
    <3>1. CASE FirstTime(p)
      BY <3>1 DEF Between, FirstTime
    <3>2. CASE highWater = p /\ Whole(p)
      BY <3>2 DEF Between, Whole
    <3>3. CASE Upgrading(p)
      BY <3>3 DEF Between, Upgrading
    <3> QED BY <2>1, <3>1, <3>2, <3>3 DEF Between
  <2>2. FilesInv'
    BY <1>3, <2>1 DEF PInv, FilesInv, Empty, Whole, Verified
  <2>3. HolderInv'
    BY <1>3, <2>1 DEF PInv, ChainInv, HolderInv, Holding, P, Verified
  <2> QED BY <2>2, <2>3
<1> QED BY <1>1, <1>2, <1>3 DEF PInv

\* An update is the end of what is claimed about the files; the chain of the
\* high-water record survives it.
LEMMA UpdateStep ==
    ASSUME PInv, NEW d \in DirFile, Update(d)
    PROVE  PInv'
<1> USE DEF Update
<1>1. TypeOK'
  BY DEF PInv, TypeOK
<1>2. ChainInv'
  BY DEF PInv, ChainInv, Holding, P, AboveHighWater
<1>3. updates' # 0
  BY DEF PInv, TypeOK
<1> QED BY <1>1, <1>2, <1>3 DEF PInv

\* A fresh destination satisfies the invariant.
LEMMA InitPInv == Init => PInv
<1> SUFFICES ASSUME Init PROVE PInv
  OBVIOUS
<1>1. TypeOK
  BY ProvisioningAssumption DEF Init, TypeOK, NoJournal, Resting, Apply
<1>2. ChainInv
  BY DEF Init, ChainInv, Resting, Holding
<1>3. FilesInv /\ HolderInv
  BY DEF Init, FilesInv, Empty, HolderInv, Holding, Resting
<1> QED BY <1>1, <1>2, <1>3 DEF PInv

\* Every step preserves the invariant.
LEMMA NextPInv == PInv /\ [Next]_vars => PInv'
<1> SUFFICES ASSUME PInv, [Next]_vars PROVE PInv'
  OBVIOUS
<1>1. ASSUME Tick \/ UNCHANGED vars PROVE PInv'
  BY <1>1 DEF Tick, vars, artifacts, PInv, TypeOK, ChainInv, AboveHighWater, Empty,
              FilesInv, HolderInv, Holding, P, Whole, Between, FirstTime, Upgrading, Verified
<1>2. ASSUME NEW a \in Applier, Writes(a) PROVE PInv'
  BY <1>2, WriteJournalStep, WriteRootsStep, WriteDirectoryStep, WriteStateStep,
     WriteEnvironmentStep, WriteHighWaterStep, FinishStep DEF Writes
<1> QED
  BY <1>1, <1>2, LoadStep, UpdateStep, BeginStep, LockStep, CrashStep DEF Next

-----------------------------------------------------------------------------
(* The theorems *)

\* The strengthened invariant holds at every moment of every installation.
THEOREM ProvisioningInvariance == Spec => []PInv
BY InitPInv, NextPInv, PTL DEF Spec

\* What the invariant says of the individual properties.
LEMMA PInvImplies == PInv => Resumable /\ AllOrNothing /\ ClientsKeepWorking
<1> SUFFICES ASSUME PInv, updates = 0
             PROVE  Resumable /\ AllOrNothing /\ ClientsKeepWorking
  BY DEF Resumable, AllOrNothing, ClientsKeepWorking
<1>1. FilesInv
  BY DEF PInv
<1>2. Resumable
  BY <1>1, BetweenFits DEF Resumable, FilesInv, Authorized
<1>3. AllOrNothing
  BY <1>1, Contents DEF AllOrNothing, FilesInv, Empty, Whole
<1>4. ASSUME NEW p \in Package, Between(p), state # None
      PROVE  directory # None /\ Accepts(state, directory)
  <2>1. CASE FirstTime(p)
    BY <1>4, <2>1, Contents DEF FirstTime, Accepts
  <2>2. CASE highWater = p /\ Whole(p)
    BY <1>4, <2>2, Contents DEF Whole, Accepts
  <2>3. CASE Upgrading(p)
    BY <1>4, <2>3, Contents DEF Upgrading, Accepts
  <2> QED BY <1>4, <2>1, <2>2, <2>3 DEF Between
<1>5. ClientsKeepWorking
  BY <1>1, <1>4, Contents DEF ClientsKeepWorking, FilesInv, Empty, Whole, Accepts
<1> QED BY <1>2, <1>3, <1>5

\* A transaction that is open can always be resumed: apply on its package
\* passes every check, wherever earlier attempts died and whenever it is run.
THEOREM TransactionResumable == Spec => []Resumable
BY ProvisioningInvariance, PInvImplies, PTL

\* Without a transaction the destination is empty or holds exactly one package.
THEOREM InstallationAtomic == Spec => []AllOrNothing
BY ProvisioningInvariance, PInvImplies, PTL

\* The chain check of a load succeeds at every moment of an installation.
THEOREM LoadsAlwaysSucceed == Spec => []ClientsKeepWorking
BY ProvisioningInvariance, PInvImplies, PTL

\* apply's unconditional write of the state file never takes it back.
THEOREM StateMovesForward == Spec => StateNeverBack
<1> DEFINE Forward == updates = 0 /\ state # None =>
                          state' # None /\ EpochOf[state'] >= EpochOf[state]
<1>1. PInv /\ [Next]_vars => [Forward]_vars
  <2> SUFFICES ASSUME PInv, [Next]_vars, updates = 0, state # None
               PROVE  state' # None /\ EpochOf[state'] >= EpochOf[state]
    OBVIOUS
  <2>1. EpochOf[state] \in Nat
    BY ProvisioningAssumption DEF PInv, TypeOK
  <2>2. ASSUME state' = state PROVE state' # None /\ EpochOf[state'] >= EpochOf[state]
    BY <2>1, <2>2
  <2>3. CASE Load
    <3>1. Accepts(state, directory) /\ state' = directory /\ directory # None
      BY <2>3 DEF Load
    <3> QED BY <2>1, <3>1 DEF Accepts
  <2>4. ASSUME NEW a \in Applier, WriteState(a)
        PROVE  state' # None /\ EpochOf[state'] >= EpochOf[state]
    <3>1. /\ journal # NoJournal /\ journal.package = P(a) /\ state' = Dir[P(a)]
          /\ P(a) \in Package
      BY <2>4 DEF WriteState, PInv, HolderInv, ChainInv, Holding
    <3>2. Between(P(a))
      BY <3>1 DEF PInv, FilesInv
    <3>3. state = Dir[P(a)] \/ EpochOf[state] + 1 = EpochOf[Dir[P(a)]]
      BY <3>2 DEF Between, FirstTime, Whole, Upgrading
    <3> QED BY <2>1, <3>1, <3>3, Contents
  <2>5. ASSUME NEW a \in Applier, Writes(a), ~WriteState(a) PROVE state' = state
    BY <2>5 DEF Writes, WriteJournal, WriteRoots, WriteDirectory, WriteEnvironment,
                WriteHighWater, Finish, artifacts
  <2>6. ASSUME ~Load, ~\E a \in Applier : Writes(a) PROVE state' = state
    BY <2>6 DEF Next, vars, artifacts, Tick, Update, Begin, Lock, Crash
  <2> QED BY <2>2, <2>3, <2>4, <2>5, <2>6
<1> QED BY <1>1, ProvisioningInvariance, PTL DEF Spec, StateNeverBack

\* The record of what was applied moves along the chain of directories, one
\* epoch at a time, also next to updates that move the directory itself.
THEOREM AppliedForward == Spec => HighWaterForward
<1> DEFINE Forward == highWater # None /\ highWater' # highWater =>
                          /\ highWater' # None
                          /\ PrevOf[Dir[highWater']] = Dir[highWater]
<1>1. PInv /\ [Next]_vars => [Forward]_vars
  <2> SUFFICES ASSUME PInv, [Next]_vars, highWater # None, highWater' # highWater
               PROVE  highWater' # None /\ PrevOf[Dir[highWater']] = Dir[highWater]
    OBVIOUS
  <2>1. ASSUME NEW a \in Applier, Writes(a) PROVE WriteHighWater(a)
    BY <2>1 DEF Writes, WriteJournal, WriteRoots, WriteDirectory, WriteState, WriteEnvironment,
                Finish, artifacts
  <2>2. \E a \in Applier : Writes(a)
    BY DEF Next, vars, artifacts, Tick, Load, Update, Begin, Lock, Crash
  <2>3. PICK a \in Applier : WriteHighWater(a)
    BY <2>1, <2>2
  <2>4. highWater' = P(a) /\ P(a) \in Package /\ AboveHighWater(P(a))
    BY <2>3 DEF WriteHighWater, PInv, ChainInv, Holding
  <2> QED BY <2>4, Contents DEF AboveHighWater
<1> QED BY <1>1, ProvisioningInvariance, PTL DEF Spec, HighWaterForward
=============================================================================
