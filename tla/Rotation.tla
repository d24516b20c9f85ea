------------------------------ MODULE Rotation ------------------------------
(***************************************************************************)
(* The key rotation ceremony of tribe_rotation_v1.py and its command line  *)
(* rotate_keys_v1.py: every agent stages a successor bundle and announces  *)
(* its public keys, a keyless composer turns one announcement per agent    *)
(* into the next directory, governance signs it, hosts load it, and each   *)
(* agent activates its staged bundle.  forward-recovery revokes keys.      *)
(*                                                                         *)
(* A key ID is the key's epoch, its place in the agent's list.  Public     *)
(* halves stand for the pair: a bundle that holds a key pair holds its     *)
(* public half.  A ceremony is named by its activation time.               *)
(***************************************************************************)
EXTENDS Integers, Sequences, FiniteSets, FiniteSetsExt

CONSTANTS
    Agent,          \* the active agents
    Group,          \* audiences
    Members,        \* audience -> its members and observers
    First,          \* the directory all hosts start with
    Validity,       \* ROTATION_VALIDITY_DAYS, also the default of recovery
    Drain,          \* DEFAULT_DRAIN_MS
    MaxLife,        \* MAX_ANNOUNCEMENT_LIFETIME_MS
    Activations,    \* activation times the ceremonies may choose
    Operator,       \* processes that run rotate_keys_v1.py activate
    MaxPrepares,    \* bound: how often an agent runs prepare
    MaxDirs,        \* bound: directories that governance signs
    MaxCrashes,     \* bound: activates that die
    MaxTime         \* bound: the clock stops here

Purpose == {"sig", "enc"}
Owned == Agent \X Purpose

\* A public key and the window in which it authorises.
Key == [pub : Agent \X Nat, status : {"active", "retired", "revoked"},
        from : Nat, until : Nat]

Directory == [base : Nat, issued : Nat, expires : Nat, keys : [Owned -> Seq(Key)],
              groups : [Group -> Seq({"active", "retired"})]]

ASSUME RotationAssumption ==
    /\ IsFiniteSet(Agent)
    /\ Members \in [Group -> SUBSET Agent]
    /\ First \in Directory
    /\ \A x \in Owned : First.keys[x] # <<>>
    /\ Validity \in Nat \ {0} /\ Drain \in Nat /\ MaxLife \in Nat \ {0}
    /\ Activations \subseteq Nat
    /\ {MaxPrepares, MaxDirs, MaxCrashes, MaxTime} \subseteq Nat

VARIABLES
    now,
    dirs,           \* the signed directories, by directory_epoch
    draft,          \* the unsigned candidate to be signed next, or NoDraft
    installed,      \* agent -> epoch of the directory its host has accepted
    current,        \* agent -> its key bundle
    staged,         \* agent -> the staged bundles on its disk
    backups,        \* agent -> the .pre-<kid> files: kid -> bundle, Torn or Absent
    announced,      \* the announcements that were written
    ops,            \* the state of each activate
    crashes,        \* history: activates that died
    was             \* history: agent -> the bundles activations replaced

files == <<current, staged, backups, was>>
vars == <<now, dirs, draft, installed, files, announced, ops, crashes>>

-----------------------------------------------------------------------------
(* Directories and bundles *)

Epoch == Len(dirs)
Newest == dirs[Epoch]

Lesser(m, n) == IF m <= n THEN m ELSE n

KeyOpen(k, t) == k.status = "active" /\ k.from <= t /\ t < k.until

\* Directory.active_key: the latest open key, 0 when it raises.
ActiveKey(keys, t) == Max({0} \cup {n \in DOMAIN keys : KeyOpen(keys[n], t)})

\* The time limits of validate_directory.
Valid(d, t) == d.issued <= t /\ t < d.expires

\* The part of _validate_directory that a composed candidate could fail.
WellFormed(d, t) ==
    /\ t < d.expires /\ d.issued < d.expires
    /\ \A x \in Owned : \A n \in DOMAIN d.keys[x] :
          d.keys[x][n].from < d.keys[x][n].until

\* The key IDs there can be: every directory adds at most one.
Kid == 1..(MaxDirs + Max({Len(First.keys[x]) : x \in Owned}))

\* kid and sig: the signing key's ID and pair; enc: ID -> pair
IsBundle(b) ==
    /\ b.agent \in Agent /\ b.kid \in Kid /\ b.sig \in Agent \X Nat
    /\ DOMAIN b.enc \subseteq Kid /\ \A n \in DOMAIN b.enc : b.enc[n] \in Agent \X Nat

Absent == [file |-> "absent"]
Torn == [file |-> "torn"]

\* Mutant: the private halves are not compared with the directory.
VerifyAgainst_KidsOnly(b, d, t) ==
    /\ b.kid = ActiveKey(d.keys[<<b.agent, "sig">>], t)
    /\ ActiveKey(d.keys[<<b.agent, "enc">>], t) \in DOMAIN b.enc
    /\ DOMAIN b.enc \subseteq DOMAIN d.keys[<<b.agent, "enc">>]

\* KeyBundle.verify_against
VerifyAgainst(b, d, t) ==
    LET sig == d.keys[<<b.agent, "sig">>]
        enc == d.keys[<<b.agent, "enc">>]
    IN  /\ b.kid \in DOMAIN sig
        /\ sig[b.kid].status = "active" /\ sig[b.kid].pub = b.sig
        /\ \A n \in DOMAIN b.enc :
              /\ n \in DOMAIN enc
              /\ enc[n].status \in {"active", "retired"} /\ enc[n].pub = b.enc[n]
        /\ ActiveKey(sig, t) = b.kid
        /\ ActiveKey(enc, t) \in DOMAIN b.enc

-----------------------------------------------------------------------------
(* prepare *)

Announcement == [agent : Agent, base : Nat, activation : Nat, issued : Nat, expires : Nat,
                 previous : [Purpose -> Nat], pub : Agent \X Nat]

\* The next fresh pair of an agent
Fresh(a) == <<a, Cardinality(staged[a]) + 1>>

Announces(a, activation, expires) ==
    [agent |-> a, base |-> installed[a], activation |-> activation, issued |-> now,
     expires |-> expires, pub |-> Fresh(a),
     previous |-> [p \in Purpose |-> ActiveKey(dirs[installed[a]].keys[<<a, p>>], now)]]

\* The current bundle's encryption keys and fresh pairs under the next epochs.
Successor(a) ==
    LET next(p) == Len(dirs[installed[a]].keys[<<a, p>>]) + 1
        enc     == current[a].enc
    IN  [agent |-> a, kid |-> next("sig"), sig |-> Fresh(a),
         enc |-> [n \in DOMAIN enc \cup {next("enc")} |->
                    IF n = next("enc") THEN Fresh(a) ELSE enc[n]]]

\* Mutant: the announcement leaves the host before the bundle is written.
Written_AnnouncesFirst(a, m) ==
    /\ announced' = announced \cup {m}
    /\ staged' = [staged EXCEPT ![a] = @ \cup {Successor(a)}] \/ UNCHANGED staged

\* The staged bundle is written by exclusive create, then the script writes
\* the announcement, unless it dies before.
Written(a, m) ==
    /\ staged' = [staged EXCEPT ![a] = @ \cup {Successor(a)}]
    /\ announced' = announced \cup {m} \/ UNCHANGED announced

\* prepare_rotation and its command.  Nobody looks at the staged bundle of an
\* epoch that is not announced, so both writes are one step.
Prepare(a, activation, expires) ==
    /\ Cardinality(staged[a]) < MaxPrepares /\ Epoch < MaxDirs
    /\ now < expires /\ expires <= activation /\ expires - now <= MaxLife
    /\ Valid(dirs[installed[a]], now)
    /\ VerifyAgainst(current[a], dirs[installed[a]], now)
    /\ Written(a, Announces(a, activation, expires))
    /\ UNCHANGED <<now, dirs, draft, installed, current, backups, was, ops, crashes>>

-----------------------------------------------------------------------------
(* compose and forward-recovery.  A draft on an older directory than the    *)
(* newest one could never be signed without a fork; none is composed.       *)
(* Of several drafts one is signed; only that one is kept.                   *)

NoDraft == [base |-> 0]

\* verify_announcement against the newest directory
VerifyAnnouncement(m, activation) ==
    /\ m.base = Epoch
    /\ m.issued < m.expires /\ now < m.expires /\ m.expires - m.issued <= MaxLife
    /\ m.activation = activation /\ m.expires <= activation
    /\ \A p \in Purpose : m.previous[p] = ActiveKey(Newest.keys[<<m.agent, p>>], m.issued)

\* The announcement of an agent in a complete set.
Of(S, a) == CHOOSE m \in S : m.agent = a

\* Mutant: an activation later than the end of the key it replaces.
InTime_Unchecked(S, activation) == TRUE

\* The successor is active before the key it replaces ends.
InTime(S, activation) ==
    \A m \in S, p \in Purpose :
        activation <= Newest.keys[<<m.agent, p>>][m.previous[p]].until

RotationCandidate(S, activation) ==
    LET issued  == Max({m.issued : m \in S})
        expires == issued + Validity
        Cut(k)  == [k EXCEPT !.until = Lesser(activation, @)]
    IN  [base |-> Epoch, issued |-> issued, expires |-> expires,
         keys |-> [x \in Owned |->
            LET m == Of(S, x[1])
            IN  Append([Newest.keys[x] EXCEPT ![m.previous[x[2]]] = Cut(@)],
                       [pub |-> m.pub, status |-> "active",
                        from |-> activation, until |-> expires])],
         groups |-> Newest.groups]

\* compose_rotation: exactly one valid announcement per agent
Compose(S, activation) ==
    LET c == RotationCandidate(S, activation)
    IN  /\ draft = NoDraft /\ Epoch < MaxDirs
        /\ Valid(Newest, now)
        /\ \A m \in S : VerifyAnnouncement(m, activation)
        /\ \A m, l \in S : m.agent = l.agent => m = l
        /\ {m.agent : m \in S} = Agent
        /\ InTime(S, activation)
        /\ c.expires > activation + Drain
        /\ WellFormed(c, now)
        /\ draft' = c
        /\ UNCHANGED <<now, dirs, installed, files, announced, ops, crashes>>

Kids == UNION {{<<x, n>> : n \in DOMAIN Newest.keys[x]} : x \in Owned}

\* The named keys and every key of the same purpose with the same bytes.
Compromised(C, x, n) ==
    \E c \in C : c[1][2] = x[2] /\ Newest.keys[c[1]][c[2]].pub = Newest.keys[x][n].pub

\* Mutant: the window of a revoked key is closed at now, whenever it ended.
Revoked_Reopens(k) == [k EXCEPT !.status = "revoked", !.until = IF now > k.from THEN now ELSE @]

Revoked(k) ==
    [k EXCEPT !.status = "revoked", !.until = IF now > k.from THEN Lesser(@, now) ELSE @]

\* Active epochs of an affected audience are retired, a successor is added.
Succeed(epochs) ==
    Append([n \in DOMAIN epochs |-> "retired"], "active")

RecoveryCandidate(C) ==
    LET Hurt == {a \in Agent : \E n \in DOMAIN Newest.keys[<<a, "enc">>] :
                                  Compromised(C, <<a, "enc">>, n)}
        Affected(g) == Members[g] \cap Hurt # {}
                         /\ \E n \in DOMAIN Newest.groups[g] : Newest.groups[g][n] = "active"
    IN  [base |-> Epoch, issued |-> now, expires |-> Lesser(now + Validity, Newest.expires),
         keys |-> [x \in Owned |-> [n \in DOMAIN Newest.keys[x] |->
                     IF Compromised(C, x, n) THEN Revoked(Newest.keys[x][n])
                                             ELSE Newest.keys[x][n]]],
         groups |-> [g \in Group |-> IF Affected(g) THEN Succeed(Newest.groups[g])
                                                    ELSE Newest.groups[g]]]

\* An open key whose bytes were not compromised, to the end of the candidate.
Covered(c, t) ==
    \A x \in Owned : \E n \in DOMAIN c.keys[x] :
        c.keys[x][n].status = "active" /\ c.keys[x][n].from <= t
          /\ c.expires <= c.keys[x][n].until

\* build_forward_recovery
Recover(C) ==
    LET c == RecoveryCandidate(C)
    IN  /\ draft = NoDraft /\ Epoch < MaxDirs
        /\ Valid(Newest, now)
        /\ C # {}
        /\ c.expires > now
        /\ Covered(c, now)
        /\ WellFormed(c, now)
        /\ draft' = c
        /\ UNCHANGED <<now, dirs, installed, files, announced, ops, crashes>>

\* Governance signs one successor of the newest directory
\* (sign_directory_v1.py, until the threshold is met).
Sign ==
    /\ draft # NoDraft
    /\ dirs' = Append(dirs, draft)
    /\ draft' = NoDraft
    /\ announced' = {}     \* bound to a base that nobody composes on any more
    /\ UNCHANGED <<now, installed, files, ops, crashes>>

\* Directory.load of the next epoch on an agent's host (module Directory)
Install(a) ==
    /\ installed[a] < Epoch
    /\ Valid(dirs[installed[a] + 1], now)
    /\ installed' = [installed EXCEPT ![a] = @ + 1]
    /\ UNCHANGED <<now, dirs, draft, files, announced, ops, crashes>>

-----------------------------------------------------------------------------
(* activate *)

\* A running activate: its step, the bundle it found and the staged one
IsOp(o) == o.pc \in {"locking", "backup", "commit"} /\ IsBundle(o.old) /\ IsBundle(o.new)

Idle == [pc |-> "idle"]

Die == crashes < MaxCrashes /\ crashes' = crashes + 1

Leave(p) == ops' = [ops EXCEPT ![p] = Idle]

\* The holder of the .rotation.lock of an agent
Locked(a) == \E p \in Operator : ops[p].pc \in {"backup", "commit"} /\ ops[p].new.agent = a

\* The script reads the clock and loads the directory, then waits for the lock.
\* What verify_against will say of the staged bundle is settled here: it looks
\* at that directory, that time and a file that never changes.  A refused
\* activate leaves nothing behind and is not started.
ActivateStart(p, b) ==
    /\ ops[p].pc = "idle"
    /\ b \in staged[b.agent]
    /\ Valid(dirs[installed[b.agent]], now)
    /\ VerifyAgainst(b, dirs[installed[b.agent]], now)
    /\ ops' = [ops EXCEPT ![p] = [pc |-> "locking", old |-> b, new |-> b]]
    /\ UNCHANGED <<now, dirs, draft, installed, files, announced, crashes>>

\* Mutant: keys missing from the staged bundle are not noticed.
Retains_Unchecked(old, new) == TRUE

\* The staged bundle keeps every encryption key of the current one.
Retains(old, new) ==
    \A n \in DOMAIN old.enc : n \in DOMAIN new.enc /\ new.enc[n] = old.enc[n]

\* With the lock both bundles are read.  The same signing key means that it is
\* already active, or is refused.
ActivateLock(p) ==
    LET op  == ops[p]
        old == current[op.new.agent]
    IN  /\ op.pc = "locking" /\ ~Locked(op.new.agent)
        /\ ops' = [ops EXCEPT ![p] =
                     IF old.kid # op.new.kid /\ Retains(old, op.new)
                     THEN [op EXCEPT !.pc = "backup", !.old = old] ELSE Idle]
        /\ UNCHANGED <<now, dirs, draft, installed, files, announced, crashes>>

Backup(p) == backups[ops[p].new.agent][ops[p].new.kid]

\* Mutant: an existing backup is trusted.
BackedUp_Trusted(p) == Backup(p) # Absent

\* What a previous attempt left is what was read now.
BackedUp(p) == Backup(p) = ops[p].old

\* _write_exclusive: the file exists before its contents do.
ActivateBackup(p) ==
    LET op      == ops[p]
        Put(f)  == backups' = [backups EXCEPT ![op.new.agent][op.new.kid] = f]
        Proceed == ops' = [ops EXCEPT ![p].pc = "commit"]
    IN  /\ op.pc = "backup"
        /\ \/ Backup(p) = Absent /\ Put(op.old) /\ Proceed /\ UNCHANGED crashes
           \/ Backup(p) = Absent /\ Put(Torn) /\ Leave(p) /\ Die
           \/ BackedUp(p) /\ Proceed /\ UNCHANGED <<backups, crashes>>
           \/ Backup(p) # Absent /\ ~BackedUp(p) /\ Leave(p) /\ UNCHANGED <<backups, crashes>>
        /\ UNCHANGED <<now, dirs, draft, installed, current, staged, was, announced>>

\* _assert_same_regular: still the file that was read
SameFile(p) == current[ops[p].new.agent] = ops[p].old

\* A complete temporary file is renamed over the bundle.
ActivateCommit(p) ==
    LET a == ops[p].new.agent
    IN  /\ ops[p].pc = "commit"
        /\ Leave(p)
        /\ IF SameFile(p)
           THEN /\ current' = [current EXCEPT ![a] = ops[p].new]
                /\ was' = [was EXCEPT ![a] = @ \cup {ops[p].old}]
           ELSE UNCHANGED <<current, was>>
        /\ UNCHANGED <<now, dirs, draft, installed, staged, backups, announced, crashes>>

\* An activate that dies before it wrote the backup leaves nothing.
ActivateCrash(p) ==
    /\ ops[p].pc = "commit"
    /\ Die /\ Leave(p)
    /\ UNCHANGED <<now, dirs, draft, installed, files, announced>>

-----------------------------------------------------------------------------
(* Behaviour *)

Tick ==
    /\ now < MaxTime
    /\ now' = now + 1
    /\ UNCHANGED <<dirs, draft, installed, files, announced, ops, crashes>>

FirstBundle(a) ==
    LET sig == First.keys[<<a, "sig">>]
        enc == First.keys[<<a, "enc">>]
    IN  [agent |-> a, kid |-> Len(sig), sig |-> sig[Len(sig)].pub,
         enc |-> [n \in DOMAIN enc |-> enc[n].pub]]

Init ==
    /\ now = 0
    /\ dirs = <<First>> /\ draft = NoDraft
    /\ installed = [a \in Agent |-> 1]
    /\ current = [a \in Agent |-> FirstBundle(a)]
    /\ staged = [a \in Agent |-> {}]
    /\ backups = [a \in Agent |-> [n \in Kid |-> Absent]]
    /\ announced = {}
    /\ ops = [p \in Operator |-> Idle]
    /\ crashes = 0
    /\ was = [a \in Agent |-> {}]

Next ==
    \/ \E a \in Agent, t \in Activations, e \in 1..MaxTime : Prepare(a, t, e)
    \/ \E S \in SUBSET announced, t \in Activations : S # {} /\ Compose(S, t)
    \/ \E k \in Kids : Recover({k})
    \/ Sign
    \/ \E a \in Agent : Install(a)
    \/ \E p \in Operator :
         \/ \E a \in Agent : \E b \in staged[a] : ActivateStart(p, b)
         \/ ActivateLock(p)
         \/ ActivateBackup(p)
         \/ ActivateCommit(p)
         \/ ActivateCrash(p)
    \/ Tick

Spec == Init /\ [][Next]_vars

-----------------------------------------------------------------------------
(* Properties *)

\* Directories, bundles, files and processes are well formed.
TypeOK ==
    /\ now \in 0..MaxTime
    /\ dirs \in Seq(Directory) /\ draft \in Directory \cup {NoDraft}
    /\ installed \in [Agent -> 1..Epoch]
    /\ \A a \in Agent : \A b \in {current[a]} \cup staged[a] \cup was[a] : IsBundle(b)
    /\ \A a \in Agent, n \in Kid : backups[a][n] \in {Absent, Torn} \/ IsBundle(backups[a][n])
    /\ announced \subseteq Announcement
    /\ \A p \in Operator : ops[p] = Idle \/ IsOp(ops[p])
    /\ crashes \in 0..MaxCrashes

\* No successor directory ever authorises a key whose private half is not on
\* its owner's disk: the bundle is written before the announcement leaves the
\* host, whatever dies in between.
CustodyBeforeAuthority ==
    \A e \in 1..Epoch, a \in Agent, p \in Purpose :
        \A n \in DOMAIN dirs[e].keys[<<a, p>>] \ DOMAIN First.keys[<<a, p>>] :
            \E b \in staged[a] :
                IF p = "sig" THEN b.kid = n /\ b.sig = dirs[e].keys[<<a, p>>][n].pub
                ELSE n \in DOMAIN b.enc /\ b.enc[n] = dirs[e].keys[<<a, p>>][n].pub

\* Every signed successor, of a rotation or of a recovery, gives each agent a
\* key of each purpose at every moment of its lifetime: no gap at the cut.
KeysCoverLifetime ==
    \A e \in 2..Epoch : \A x \in Owned :
        \A t \in dirs[e].issued .. (dirs[e].expires - 1) : ActiveKey(dirs[e].keys[x], t) # 0

\* Between two signed directories a key's window only shrinks and a status is
\* never taken back.
AuthorityNeverExtended ==
    \A e \in 2..Epoch : \A x \in Owned : \A n \in DOMAIN dirs[e - 1].keys[x] :
        LET before == dirs[e - 1].keys[x][n]
            after  == dirs[e].keys[x][n]
        IN  /\ after.pub = before.pub /\ after.from = before.from
            /\ after.until <= before.until
            /\ after.status # before.status => after.status = "revoked"

\* The key bundle in use is always one that a signed directory vouches for,
\* key by key: a second prepare of the same epoch cannot be activated in place
\* of the one that was announced.
BundleIsGoverned ==
    \A a \in Agent : \E e \in 1..Epoch :
        LET b == current[a]
            sig == dirs[e].keys[<<a, "sig">>]
            enc == dirs[e].keys[<<a, "enc">>]
        IN  /\ b.kid \in DOMAIN sig /\ sig[b.kid].pub = b.sig
            /\ \A n \in DOMAIN b.enc : n \in DOMAIN enc /\ enc[n].pub = b.enc[n]

\* Activation never goes back to an earlier signing key and never loses an
\* encryption key that may still be needed, also when an activate acts on a
\* directory it loaded before others went on.
NeverBackToOldKey ==
    [][\A a \in Agent : current'[a] # current[a] =>
          /\ current'[a].kid > current[a].kid
          /\ \A n \in DOMAIN current[a].enc :
                n \in DOMAIN current'[a].enc /\ current'[a].enc[n] = current[a].enc[n]]_vars

\* Every bundle that was ever in use is still complete on disk, as a backup,
\* when another has taken its place: also after an activate that died while
\* it wrote the backup.
OldBundleKept ==
    \A a \in Agent : \A b \in was[a] : \E n \in DOMAIN backups[a] : backups[a][n] = b

\* A recovery leaves every agent that holds the keys of the new directory able
\* to use its bundle.
RecoveryStrandsNobody ==
    \A a \in Agent :
        LET d == dirs[installed[a]]
        IN  /\ Valid(d, now)
            /\ ActiveKey(d.keys[<<a, "sig">>], now) = current[a].kid
            /\ ActiveKey(d.keys[<<a, "enc">>], now) \in DOMAIN current[a].enc
            => VerifyAgainst(current[a], d, now)
=============================================================================
