---------------------------- MODULE Provisioning ----------------------------
(***************************************************************************)
(* apply_package (tribe_provisioning_v1.py): the restartable installation  *)
(* of a signed package into a client's directory, next to programs that    *)
(* load that directory (Directory.load) or replace it                      *)
(* (update_client_directory).                                              *)
(*                                                                         *)
(* apply checks everything under its own lock, writes a journal, then four *)
(* artifacts and a high-water record one by one, each by an atomic rename, *)
(* and removes the journal.  It may die between any two of these writes.   *)
(* The loaders and the updater do not take its lock.                       *)
(***************************************************************************)
EXTENDS Integers, FiniteSets

CONSTANTS
    Package,        \* signed packages for one agent
    Dir,            \* package -> the directory file it contains
    EpochOf,        \* directory file -> directory_epoch
    PrevOf,         \* directory file -> previous_sha256
    RootsOf,        \* package -> the governance roots it contains
    EnvOf,          \* package -> the client environment it renders to
    UntilOf,        \* package -> time at which it stops being valid
    None,           \* no such file
    Applier,        \* processes that run apply_package
    MaxCrashes,     \* bound: how often an apply dies
    MaxUpdates,     \* bound: how often update_client_directory installs a file
    MaxTime         \* bound: the clock stops here

DirFile == DOMAIN EpochOf

ASSUME ProvisioningAssumption ==
    /\ None \notin DirFile /\ None \notin Package /\ None \notin Applier
    /\ Dir \in [Package -> DirFile]
    /\ EpochOf \in [DirFile -> Nat \ {0}]
    /\ PrevOf \in [DirFile -> DirFile \cup {None}]
    /\ \A d \in DirFile : PrevOf[d] # None => EpochOf[d] = EpochOf[PrevOf[d]] + 1
    /\ DOMAIN RootsOf = Package /\ DOMAIN EnvOf = Package
    /\ None \notin {RootsOf[p] : p \in Package} \cup {EnvOf[p] : p \in Package}
    /\ UntilOf \in [Package -> Nat]
    /\ MaxCrashes \in Nat /\ MaxUpdates \in Nat /\ MaxTime \in Nat

VARIABLES
    clock,
    journal,        \* provision-journal.json: package and authorized_at_ms
    roots,          \* governance-roots.json
    directory,      \* directory.json
    state,          \* the anti-rollback state: the accepted directory file
    env,            \* the client environment
    highWater,      \* provision-high-water.json: the package applied last
    lock,           \* holder of .provision.lock
    appliers,       \* the state of each apply_package
    crashes,        \* history: applies that died
    updates         \* history: files installed by update_client_directory

artifacts == <<roots, directory, state, env, highWater>>
vars == <<clock, journal, artifacts, lock, appliers, crashes, updates>>

NoJournal == [package |-> None, at |-> 0]

Apply == [pc : {"idle", "lock", "journal", "roots", "directory", "state",
                "environment", "high-water", "unlink"},
          package : Package \cup {None}, now : Nat]
Resting == [pc |-> "idle", package |-> None, now |-> 0]

-----------------------------------------------------------------------------
(* Checks *)

\* verify_package and _validate_local_apply_inputs at time t.
Verified(p, t) == t < UntilOf[p]

\* Mutant: an open transaction expires with its package.
Authorized_ByClock(p, now) ==
    journal.package \in {p, None} /\ Verified(p, now)

\* The journal allows only the package it names, at the time it recorded.
Authorized(p, now) ==
    \/ journal = NoJournal /\ Verified(p, now)
    \/ journal # NoJournal /\ journal.package = p /\ Verified(p, journal.at)

\* Mutant: a package of the same epoch is taken for a replay.
AboveHighWater_SameEpoch(p) ==
    highWater # None =>
        \/ EpochOf[Dir[highWater]] = EpochOf[Dir[p]]
        \/ /\ EpochOf[Dir[highWater]] + 1 = EpochOf[Dir[p]]
           /\ RootsOf[highWater] = RootsOf[p]
           /\ PrevOf[Dir[p]] = Dir[highWater]

\* The package replays the high-water package or directly follows it.
AboveHighWater(p) ==
    highWater # None =>
        \/ highWater = p
        \/ /\ EpochOf[Dir[highWater]] + 1 = EpochOf[Dir[p]]
           /\ RootsOf[highWater] = RootsOf[p]
           /\ PrevOf[Dir[p]] = Dir[highWater]

\* An environment may differ only if the package replaces that of the
\* high-water package, and may be missing only in a first installation.
EnvironmentFits(p) ==
    IF env = None THEN highWater = None
    ELSE highWater \in {p, None} => env = EnvOf[p]

\* The checks of the installed artifacts, all of them before the first write.
Compatible(p) ==
    /\ AboveHighWater(p)
    /\ highWater = None /\ journal = NoJournal =>
          directory = None /\ roots = None /\ state = None /\ env = None
    /\ roots # None => roots = RootsOf[p]
    /\ state # None =>
          /\ EpochOf[state] <= EpochOf[Dir[p]]
          /\ EpochOf[state] = EpochOf[Dir[p]] => state = Dir[p]
          /\ EpochOf[Dir[p]] <= EpochOf[state] + 1
    /\ directory # None /\ directory # Dir[p] =>
          /\ state # None /\ directory = state
          /\ PrevOf[Dir[p]] = directory
          /\ EpochOf[Dir[p]] = EpochOf[directory] + 1
    /\ EnvironmentFits(p)

-----------------------------------------------------------------------------
(* apply_package *)

\* The preflight: journal and package are looked at before the lock is taken.
Begin(a, p) ==
    /\ appliers[a].pc = "idle"
    /\ Authorized(p, clock)
    /\ appliers' = [appliers EXCEPT ![a] = [pc |-> "lock", package |-> p, now |-> clock]]
    /\ UNCHANGED <<clock, journal, artifacts, lock, crashes, updates>>

\* Take the lock and look at everything again.
Lock(a) ==
    LET u == appliers[a]
    IN  /\ u.pc = "lock" /\ lock = None
        /\ IF Authorized(u.package, u.now) /\ Compatible(u.package)
           THEN /\ lock' = a
                /\ appliers' = [appliers EXCEPT ![a].pc = "journal"]
           ELSE /\ appliers' = [appliers EXCEPT ![a] = Resting]
                /\ UNCHANGED lock
    /\ UNCHANGED <<clock, journal, artifacts, crashes, updates>>

\* a has done its step and goes on with the next one.
Goto(a, pc) == appliers' = [appliers EXCEPT ![a].pc = pc]
P(a) == appliers[a].package

WriteJournal(a) ==
    /\ appliers[a].pc = "journal" /\ Goto(a, "roots")
    /\ journal' = IF journal # NoJournal THEN journal
                  ELSE [package |-> P(a), at |-> appliers[a].now]
    /\ UNCHANGED <<clock, artifacts, lock, crashes, updates>>

WriteRoots(a) ==
    /\ appliers[a].pc = "roots" /\ Goto(a, "directory")
    /\ roots' = IF roots # None THEN roots ELSE RootsOf[P(a)]
    /\ UNCHANGED <<clock, journal, directory, state, env, highWater, lock, crashes, updates>>

\* Mutant: the state file is advanced before the directory is there.
WriteDirectory_StateFirst(a) ==
    /\ appliers[a].pc = "directory" /\ Goto(a, "state")
    /\ state' = Dir[P(a)]
    /\ UNCHANGED <<clock, journal, roots, directory, env, highWater, lock, crashes, updates>>

WriteDirectory(a) ==
    /\ appliers[a].pc = "directory" /\ Goto(a, "state")
    /\ directory' = Dir[P(a)]
    /\ UNCHANGED <<clock, journal, roots, state, env, highWater, lock, crashes, updates>>

\* Mutant: the state is left to the next load.
WriteState_Skipped(a) ==
    /\ appliers[a].pc = "state" /\ Goto(a, "environment")
    /\ UNCHANGED <<clock, journal, artifacts, lock, crashes, updates>>

\* Mutant: the state follows the high-water record.
WriteState_Previous(a) ==
    /\ appliers[a].pc = "state" /\ Goto(a, "environment")
    /\ state' = Dir[IF highWater = None THEN P(a) ELSE highWater]
    /\ UNCHANGED <<clock, journal, roots, directory, env, highWater, lock, crashes, updates>>

\* Written unconditionally as the target state, without the loaders' lock.
WriteState(a) ==
    /\ appliers[a].pc = "state" /\ Goto(a, "environment")
    /\ state' = Dir[P(a)]
    /\ UNCHANGED <<clock, journal, roots, directory, env, highWater, lock, crashes, updates>>

WriteEnvironment(a) ==
    /\ appliers[a].pc = "environment" /\ Goto(a, "high-water")
    /\ env' = IF env = None \/ highWater # P(a) THEN EnvOf[P(a)] ELSE env
    /\ UNCHANGED <<clock, journal, roots, directory, state, highWater, lock, crashes, updates>>

WriteHighWater(a) ==
    /\ appliers[a].pc = "high-water" /\ Goto(a, "unlink")
    /\ highWater' = P(a)
    /\ UNCHANGED <<clock, journal, roots, directory, state, env, lock, crashes, updates>>

\* Mutant: the journal stays when the installation is complete.
Finish_KeepsJournal(a) ==
    /\ appliers[a].pc = "unlink"
    /\ lock' = None
    /\ appliers' = [appliers EXCEPT ![a] = Resting]
    /\ UNCHANGED <<clock, journal, artifacts, crashes, updates>>

\* Remove the journal, release the lock and return the receipt.
Finish(a) ==
    /\ appliers[a].pc = "unlink"
    /\ journal' = NoJournal
    /\ lock' = None
    /\ appliers' = [appliers EXCEPT ![a] = Resting]
    /\ UNCHANGED <<clock, artifacts, crashes, updates>>

\* The process dies, or _assert_destination_chain_current raises.
Crash(a) ==
    /\ appliers[a].pc # "idle" /\ crashes < MaxCrashes
    /\ crashes' = crashes + 1
    /\ lock' = IF lock = a THEN None ELSE lock
    /\ appliers' = [appliers EXCEPT ![a] = Resting]
    /\ UNCHANGED <<clock, journal, artifacts, updates>>

-----------------------------------------------------------------------------
(* The other programs on the host; module Directory has their inner steps *)

\* The comparison with the state file in Directory.load.
Accepts(s, d) ==
    \/ s = None /\ PrevOf[d] = None
    \/ s # None /\ d = s
    \/ s # None /\ EpochOf[d] = EpochOf[s] + 1 /\ PrevOf[d] = s

\* Directory.load by any client or by doctor.
Load ==
    /\ directory # None /\ roots # None
    /\ Accepts(state, directory)
    /\ state' = directory
    /\ UNCHANGED <<clock, journal, roots, directory, env, highWater, lock, appliers, crashes,
                   updates>>

\* update_client_directory installs a file that verifies against the state.
Update(d) ==
    /\ updates < MaxUpdates /\ updates' = updates + 1
    /\ directory # None /\ state # None
    /\ EpochOf[d] # EpochOf[directory] /\ Accepts(state, d)
    /\ directory' = d
    /\ UNCHANGED <<clock, journal, roots, state, env, highWater, lock, appliers, crashes>>

Tick ==
    /\ clock < MaxTime
    /\ clock' = clock + 1
    /\ UNCHANGED <<journal, artifacts, lock, appliers, crashes, updates>>

\* A fresh destination.
Init ==
    /\ clock = 0
    /\ journal = NoJournal
    /\ roots = None /\ directory = None /\ state = None /\ env = None
    /\ highWater = None
    /\ lock = None
    /\ appliers = [a \in Applier |-> Resting]
    /\ crashes = 0 /\ updates = 0

Writes(a) ==
    \/ WriteJournal(a) \/ WriteRoots(a) \/ WriteDirectory(a) \/ WriteState(a)
    \/ WriteEnvironment(a) \/ WriteHighWater(a) \/ Finish(a)

Next ==
    \/ Tick
    \/ Load
    \/ \E d \in DirFile : Update(d)
    \/ \E a \in Applier, p \in Package : Begin(a, p)
    \/ \E a \in Applier : Lock(a)
    \/ \E a \in Applier : Writes(a)
    \/ \E a \in Applier : Crash(a)

Spec == Init /\ [][Next]_vars

\* The operator runs apply again on the package whose transaction is open.
Retry(a) == journal # NoJournal /\ Begin(a, journal.package)

FairSpec ==
    /\ Spec
    /\ \A a \in Applier : WF_vars(Retry(a)) /\ SF_vars(Lock(a)) /\ WF_vars(Writes(a))

-----------------------------------------------------------------------------
(* Properties *)

\* The files and the processes are well formed, and the lock is held by an
\* apply that is past its checks.
TypeOK ==
    /\ clock \in Nat /\ crashes \in Nat /\ updates \in Nat
    /\ journal.package \in Package \cup {None} /\ journal.at \in Nat
    /\ roots \in {RootsOf[p] : p \in Package} \cup {None}
    /\ directory \in DirFile \cup {None} /\ state \in DirFile \cup {None}
    /\ env \in {EnvOf[p] : p \in Package} \cup {None}
    /\ highWater \in Package \cup {None}
    /\ appliers \in [Applier -> Apply]
    /\ lock \in Applier \cup {None}
    /\ \A a \in Applier : appliers[a].pc \notin {"idle", "lock"} <=> lock = a

\* "A crash can only leave D or a resumable D+1 transition": whenever a
\* journal exists, running apply again on its package passes every check,
\* wherever the earlier attempts died, although the package may have expired
\* since and clients went on loading in between.
Resumable ==
    updates = 0 /\ journal # NoJournal =>
        Authorized(journal.package, clock) /\ Compatible(journal.package)

\* All or nothing: without a journal either nothing is installed, or every
\* artifact is that of the one package the high-water record names.
AllOrNothing ==
    updates = 0 /\ journal = NoJournal /\ lock = None =>
        \/ /\ directory = None /\ roots = None /\ state = None /\ env = None
           /\ highWater = None
        \/ /\ highWater # None
           /\ directory = Dir[highWater] /\ state = Dir[highWater]
           /\ roots = RootsOf[highWater] /\ env = EnvOf[highWater]

\* Clients keep working throughout an upgrade: once there is a state file,
\* the chain check of a load succeeds at every moment, crashes included.
ClientsKeepWorking ==
    updates = 0 /\ state # None => directory # None /\ Accepts(state, directory)

\* The anti-rollback state never goes back, as long as nothing but apply and
\* load touches the destination.
StateNeverBack ==
    [][updates = 0 /\ state # None =>
          state' # None /\ EpochOf[state'] >= EpochOf[state]]_vars

\* Packages are applied forwards only: the high-water record moves by one
\* epoch at a time, along the chain, and never between two packages of one
\* epoch.
HighWaterForward ==
    [][highWater # None /\ highWater' # highWater =>
          /\ highWater' # None
          /\ PrevOf[Dir[highWater']] = Dir[highWater]]_vars

\* An interrupted installation is completed by retrying it, unless the updater
\* has installed something in between.
Completes == journal # NoJournal ~> journal = NoJournal \/ updates > 0
=============================================================================
