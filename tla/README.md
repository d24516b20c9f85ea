# Verification of tribe-bridge

TLA+ models of the tribe/v1 message carrier, TLC configurations that check
them on small instances, and TLAPS proofs of every safety property that the
runs check and find true. Every
definition is translated from the Python source; `PROJECT.json` (`map`) names
the lines each one stands for.

## 1. The system

A small federation of agents exchanges signed, encrypted envelopes. A *sender*
stages an envelope in a local SQLite outbox and posts it over HTTP to an
endpoint. The *hub* runs an HTTP service in front of a SQLite broker that keeps
one delivery per recipient. *Pollers* of the recipient claim deliveries under a
lease, deduplicate them in a local inbox, act, and post a signed ack; one kind
of poller mirrors messages into a Telegram chat. Who may sign what is decided by
a governance-signed, hash-chained *directory* file that every program loads
through an anti-rollback state file. *Provisioning packages* install directory,
roots, state and client environment on a host. Keys are replaced in a *rotation*
ceremony of all agents. *Tribes* are founded, joined and handed over by signed
artifacts that travel as messages.

| Component | State | Operations | What is hard about it | Correct when |
|---|---|---|---|---|
| Broker (`tribe_broker_v1.py`) | `messages`, `deliveries`, `ack_events`, `consumer_cursors`, trusted-time mark | enqueue, claim, acknowledge, advance_cursor, maintenance | late and repeated acks, lapsing leases, expiry, retention, callers' stale times | a lease is answered once, attempts are bounded, `acknowledged` has a proof, verdicts are final, every delivery ends |
| Service (`tribe_service_v1.py`, `tribe_transport_v1.py`) | `request_replays`, worker threads | POST /v1/messages, claims, acks | three transactions per request, repeated requests, dying handlers, clock set back | a request acts once; a cut key stays cut; nothing purged is admitted again |
| Outbox (`tribe_broker_v1.py`, `tribe_client_v1.py`) | `outbox` | stage, claim, complete; `send_with_fallback`, `flush_outbox` | ambiguous answers, two routes, two senders, requests that expire during a batch, crashes | `sent` means some endpoint has it; settled rows stay; nothing is given up without a cause; everything staged settles |
| Inbox and polling (`tribe_client_v1.py`) | `inbox_effects` | begin, finish, release; `claim_and_process` | redelivery, crashed owners, stalls, redundant endpoints | one effect per key, no ack without effect and payload |
| Mirror (`tribe_mirror_v1.py`, `mirror_v1.py`) | `mirror_part_progress`, the chat | resume, advance, clear, post | an external effect without idempotency key, in several parts | no gaps, confirmed parts are not repeated, acknowledged means complete |
| Directory (`tribe_directory_v1.py`, `tribe_directory_admin_v1.py`) | `directory.json`, state file, `.verify-tmp` copy | load, update, renew, sign | file read before the lock, state lags behind the file, forks | loads follow one signed chain, forwards |
| Provisioning (`tribe_provisioning_v1.py`) | journal, four artifacts, high-water record, lock | verify, apply, doctor | a crash between any two writes, concurrent loads | all or nothing, resumable, clients keep working |
| Rotation (`tribe_rotation_v1.py`, `rotate_keys_v1.py`, `KeyBundle` of `tribe_crypto_v1.py`) | key bundle, staged bundles, backups, `.rotation.lock`, announcements, successive directories | prepare, compose, forward-recovery, activate | a ceremony of many hosts over days, repeated and torn runs, directories loaded before the lock, overlapping ceremonies | authority only for keys in custody, without gaps and never extended; the bundle in use is governed, never goes back and is never lost |
| Membership (`tribe_membership_v1.py`) | per host: founder, epoch, members, used invitations | accept, change, transfer | artifacts that arrive late, twice and in any order on several hosts, equivocating founders | hosts split only over equivocation; members were invited; old artifacts do not readmit |
| GitHub coordination, sent gate, locality, manifests, other scripts | see `PROJECT.json` | | | without state of their own |

Interactions: pollers and senders call the service, which calls the broker;
admission asks the directory for keys and audiences; provisioning and the
directory updater write files that all loaders read; a rotation composes the next
directory and waits until the hosts have loaded it. Programs on one host share
files and SQLite databases and nothing else.

## 2. Modules

| Module | Models |
|---|---|
| `Broker` | every mutating method of `SQLiteBroker` on the hub's tables, one action per transaction |
| `DeliveryContract` | what the broker promises: per recipient *absent -> pending -> acknowledged or dead_letter*, recipients admitted together and purged together |
| `Service` | `Broker` behind worker threads; the three transactions of `TribeV1Service.post` are three steps |
| `Outbox` | the outbox table and the two loops that drain it against endpoints that may lose answers |
| `Polling` | what the pollers of one agent share: the claims list, acks, `InboxStore` (extends `Broker`) |
| `Consumer` | `claim_and_process` in several processes (extends `Polling`) |
| `Mirror` | `mirror_v1.py` and `MirrorProgressStore` (extends `Polling`) |
| `Directory` | loaders, updaters, renewers, governance and the canonical URL around one host's files |
| `Provisioning` | `apply_package`, with loaders and an updater next to it |
| `Rotation` | the four commands of `rotate_keys_v1.py`, with governance and the hosts' loads around them |
| `Membership` | `MembershipState` on several hosts, and the constructors of its artifacts |
| `BrokerProofs`, `ServiceProofs`, `OutboxProofs`, `ConsumerProofs`, `MirrorProofs`, `ProvisioningProofs`, `RotationProofs` | theorems about the module of that name |
| `AuthorityProofs` | theorems about `Directory` and about `Membership`, which decide who may speak for whom |
| `MC*` | instances for TLC |

`Consumer` and `Mirror` compose the client with the whole broker: what a poll is
given, and whether its ack is accepted, comes from the broker's tables.

### How state and actions correspond to the code

*Broker.* A row of `deliveries` is a record at `<<key, recipient>>`; a key is
`UNIQUE(sender_id, message_id)`. Every public method is one `BEGIN IMMEDIATE`
transaction, hence one action; a call that raises is rolled back, hence a
disabled action. `Claim` begins with `_expire_leases_and_messages`, which moves
the rows of all recipients, as in the code. A lease id (uuid4) is named
by the delivery's number and the attempt that it started. The caller's time `t`
lags the clock by up to `MaxLag`. What the directory contributes to admission
(signature, sender's permission, recipient set) is true of the modelled
envelopes; the times, the lifetime limit, the UUIDv7 timestamp and the end of
the signing key's window are checked as in the code (its `not_before` is not).
Maintenance does not observe trusted time, as in the code.

*Service.* A worker is idle, has observed the time, or has recorded the request;
everything after the first step uses the time of the first step. `Drop` is any
way a handler ends early. `wire` keeps every signed request for good: the
network may deliver it any number of times. The clock may be set back `MaxBacks`
times.

*Outbox.* Timers count down instead of a clock counting up, so that the state
space is finite without a bound on time; they run on below zero as far as the
oldest caller's time can reach back. A process fixes its time when it starts, may
stall up to `MaxStall` between staging and claiming, and signs all its requests
with that time: a request older than `AuthTtl` is refused like a bad envelope. A
post is answered with a receipt, refused, or its answer is lost, before or after
the endpoint committed. `admitted` keeps which envelopes some endpoint has.

*Polling, Consumer, Mirror.* Each transaction on a local database and each
exchange with the hub or with Telegram is a step, so polls interleave and die
between any two. A process reads its time once, when it starts, and uses it
until it ends, as the scripts do; `MaxStall` bounds how long it takes. The
pollers' requests reach the broker without lag (the service's lag is checked in
`Service`). `Mirror` counts, for each part, how often it was posted and how
often a run was left in doubt about it.

*Directory.* A file is its index in `files`, which stands for
`directory_sha256`; the hash covers the signatures, so adding a signature makes
another file. `LoadRead` is the part of `load` before the lock, `LoadCommit` the
part under it. `verify_chain` is three steps on the shared `.verify-tmp` copy.
The canonical URL may serve any file, old, forked or unsigned. One state file per
host is modelled.

*Provisioning.* Each `_write_atomic` of `apply_package` is a step; all checks
happen in `Lock`, after the preflight of `Begin`. A crash drops lock and process
and keeps the files. `Load` and `Update` are atomic here; `Directory` has their
inner steps. `MaxUpdates` bounds the updates.

*Rotation.* A directory is its list of keys with windows, per agent and purpose,
and its audience epochs; a key ID is the place in the list, which is how the code
numbers successors. `prepare` writes the staged bundle and then the announcement,
or dies in between; nobody reads a staged bundle that is not announced, so this is
one step with two outcomes. A ceremony id is identified with its activation time.
Governance signs one successor of the newest directory (forks are the subject of
`Directory`), so only one unsigned draft is kept, and announcements are forgotten
when their base is superseded, since `verify_announcement` refuses them from then
on. `activate` reads clock and directory (`ActivateStart`), takes the lock and
reads both bundles (`ActivateLock`), writes the backup, which can be torn by a
crash (`ActivateBackup`), and renames (`ActivateCommit`). What `verify_against`
says of the staged bundle depends only on what `ActivateStart` has read, so it is
decided there. `prepare` reads clock, directory and bundle in one step. Hosts'
clocks agree; skew is left to `Directory`. TLC lets a recovery name one key, which
also revokes the keys with the same bytes.

*Membership.* A host's `MembershipState` is a row of `founder`, `epoch`,
`members`, `used`. The constructors read no state, so an artifact is added to the
signed ones when a first host applies it; a host may apply any signed or signable
artifact at any time, which covers delay, loss, reordering and repetition.
`verify` is: only the principal an artifact names can sign it. Artifacts are made
by the module's constructors.

## 3. Runs

| Run | Question | Bounds |
|---|---|---|
| `broker` | `AttemptCap`, `LeaseSpentOnce`, `AcknowledgedHasProof`, `CursorOnTerminal`, `LiveLeaseKept`, `DeliveryTerminates` (fair) | two envelopes competing for one key, 2 attempts, leases of 1 and 2, clock 0..4, lag 1, retention 1: a lease can lapse, be regranted and be acked late before the message expires and is purged |
| `broker_group` | `RefinesContract` (a settled delivery stays settled, a group message is purged whole), `OldestFirst` | two messages, one to two recipients, claims of 1 and 2 rows |
| `service` | `EffectOnce`, `AdmittedOnce`, `CutKeyStaysCut` | 4 requests (send, claim, ack, send again), 2 threads, one envelope whose signing key is cut at 1 and which expires at 2, clock 0..2 set back once, lag 1, retention 1: the shortest for which `AdmittedOnce` holds, since the last admission is at 0, its handler may act until 1, and an ack at 0 makes the row purgeable behind 0 + retention; one less (mutant `Purgeable_Inclusive`) admits twice |
| `consumer` | `OneEffectPerKey`, `AckAfterEffect`, `ProcessedIsFinal` | 2 processes, 2 keys, other bytes under one of them, a second endpoint, leases of 1, processing timeout 2, stalls up to 2, one crash, one lost exchange |
| `consumer_crash` | `CrashedOwnerRecovered` (violated, section 5) | the code's ratio: 5 attempts of one lease each against a timeout of 5 leases |
| `outbox` | `SentWasAdmitted`, `SettledIsFinal`, `GivenUpForCause`, `StagedSettles` (fair) | 2 senders, 2 envelopes (one of them expired and without a route), 2 endpoints, 2 attempts, stalls of 1; lease and request lifetime are equal, as in the code (60 s each) |
| `mirror` | `CursorBehindChat`, `ConfirmedOnce`, `AcknowledgedIsWhole`, `OneRendering` | 2 runs, one key under which a two-part, an oversized and a refused payload compete, 3 attempts, stalls past the timeout, retention 0 (the hub may forget the message at once), 1 crash, 1 loss, 1 change of rendering |
| `directory` | `OneChain`, `OnlySignedAuthority`, `NeverRollsBack` | 2 loaders, 2 installers that update or renew, 4 files with forks and unsigned ones |
| `provisioning` | `Resumable`, `AllOrNothing`, `ClientsKeepWorking`, `StateNeverBack`, `HighWaterForward`, `Completes` (fair) | 2 applies, 5 packages (upgrade, fork, other roots, other environment, third epoch), 2 crashes, 1 update, packages expire at 1 and 2 |
| `rotation` | `CustodyBeforeAuthority`, `KeysCoverLifetime`, `AuthorityNeverExtended`, `BundleIsGoverned`, `OldBundleKept`, `NeverBackToOldKey` | 2 agents whose keys end at different times, 2 prepares each, 2 activation times, 3 directories (rotation, recovery or second rotation), 2 operators, 1 crash, clock 0..2: two ceremonies overlap, a recovery falls between signing and activation, and an activate waits while another commits |
| `rotation_stranded` | `RecoveryStrandsNobody` (violated, section 5) | the same |
| `membership` | `SplitNeedsEquivocation`, `MembersWereInvited`, `EntrySpendsInvitation` | 3 principals, 2 tribes of one founder, 2 hosts, 2 invitations, founder epochs 1..3, times 0..1: a member can be invited, leave, be invited again, take over and hand on |

Clocks, attempts and files are bounded by named constants; each bound is large
enough for the longest scenario the run is about (a lease that lapses, is granted
again and answered late, an expiry, a purge, and a repetition of the request).
Each module also has a type invariant, which is proved (section 4). Processes, threads and requests are interchangeable and reduced by symmetry,
except in the runs that check liveness. Deadlock is not checked because every model
stops at its time bound and the system may stop whenever nothing is sent.

Every property has a mutant, a variant of one definition with a plausible slip
(a dropped guard, an off-by-one, a swapped order) defined just before it, that
makes TLC report that property.

### Fairness

* `broker`: time passes and some recipient keeps polling. Pollers are cron
  jobs and timers; one poll by anybody expires everyone's rows, so nothing is
  assumed of the consumer of the delivery in question, nor of any ack.
* `outbox`: a started sender goes on or dies, and `flush_outbox` is run again
  and again (its timer). Strong fairness on the start of a flush, because it is
  disabled while the processes are busy, and on time, because the bound on stalls
  may hold it up; none on the endpoints, which may lose every answer.
* `provisioning`: the operator repeats apply on the journalled package, and
  a started apply goes on. Strong fairness on taking the lock, since another
  apply may hold it in between.

## 4. Proofs

The theorems hold for all values of the constants that satisfy the named
assumption of each module (`EnvelopeAssumption` and `PolicyAssumption` of
`Broker`, and `<Module>Assumption` of the others), which TLC also evaluates in
the runs. They say that the constants have their types, that markers such as
"no message" are not members of the sets they extend (a process is not mistaken
for a free lock), and, where something is counted or a latest time is taken,
that a set of agents or holders is finite. Numbers of processes, messages, keys,
directories, crashes and stalls are arbitrary. In each proof module the inductive
invariant was checked with TLC on the instances of section 3 before it was
proved, there is one lemma per action, and the theorems follow at the end.

*BrokerProofs.* `Invariance` shows `IInv`, the conjunction of `TypeOK`,
`RowsInv`, `LedgerInv` and `CursorOnTerminal`. The checked properties are not
inductive by themselves. That no second ack of a lease is accepted needs the
fact that an accepted ack answers an attempt its row has left behind
(`LedgerInv`), which needs that a running lease is named by the row's number
and current attempt (`RowOK`), which says something only if numbers are used
once and grow (`RowsInv`); cursors rely on the same fact. There is one lemma per
row operation (lapse, expire, grant, settle), and one for tables that change only
by such steps or by purging (`MoveOrPurge`). From `IInv` follow `TypeCorrect`,
`AttemptsBounded`, `LeasesSpentOnce`, `AcknowledgementProved` and
`CursorsOnTerminal`, and the action property `RunningLeasesKept`.
`ServedOldestFirst` also needs that a claim takes as many of the oldest rows as
its limit allows; that is a statement about a finite number of rows, so
`StoredFinite` is shown first, and the oldest row that was passed over is found
by `LeastNumber` (a nonempty set of numbers has a least element, from the
well-foundedness of `<`; it replaces induction here and in other modules).
`ImplementsContract` proves the refinement: the initial tables map to the
contract's initial state, enqueue to its admission, maintenance to its purge,
claims and acks to the settling of the recipients whose rows they finish, and
everything else to stuttering.

*ServiceProofs.* Every broker theorem has to hold behind the service as well,
where a handler acts with the time of its first step: `SInv` contains `IInv`,
and `ServiceKeepsBroker` and `ServiceImplementsContract` restate the broker's
properties for it. `ReplayInv` gives `RequestsEffectiveOnce`: a request that was
served is spent, that is, its id is in the table or the durable clock has passed
its expiry, and at most one thread is between recording and serving it. This
holds also when the wall clock is set back, since the durable clock is not;
`CutKeysStayCut` rests on the same. `AdmissionOnce` needs a relation between
retention and lifetimes and is proved under it: `RetentionCovers` says that no
envelope under a key is acceptable later than a retention period after another
one was. By `RetentionBound` it is enough that retention is at least the maximum
lifetime, three clock skews and the time a handler may take. The code's
defaults satisfy it (30 days against 48 hours and three times 5 minutes), but
`--retain-terminal-days` is an integer that nothing checks. The invariant is
`SteadyInv`: while the clock was not set back, each admission is remembered by
the tables with no time before it (`StoredSince`), or a retention period ago
(`PurgedSince`).

*OutboxProofs.* `OInv` says that row ids are distinct (so that the item a process
works on is determined, `IdsInv`), that a batch holds one item per envelope
(`BatchInv`), and that what a process is about to write down is true
(`ResultInv`): a receipt only of an admitted envelope, a terminal failure only
for a cause. `SentOnlyIfAdmitted` and the action properties `SettledStays` and
`GivingUpHasCause` follow.

*ConsumerProofs, MirrorProofs.* Both compose the client with the whole broker,
and their invariants `CInv` and `MInv` contain `IInv`. Each has two halves. One
holds always: a process that reports success has had the effect, the two local
tables and the part cursor never claim more than the chat shows
(`EffectInv`; `RunsInv`, `TablesInv`). From it follow `AcknowledgedHadEffect`,
`CursorNeverAhead` and `AcknowledgedStands`. The other half holds until a poll
outlasts the processing timeout (`stalled`): a process at work owns the row of
its key, with its own start time in it, and no two processes work on the same key
(`OwnersInv`); so only a processed row has had its effect, and only once
(`OnceInv`), and a part beyond the cursor was posted only by runs that did not
learn of it (`ChatInv`). From it follow `EffectAtMostOnce`, `ProcessedStays`,
`ConfirmedNotRepeated` and `OneRenderingShown`. Take-over is the critical step:
`begin` takes a row only when it is older than the timeout, and by then its owner
has ended or stalled. `MirrorTypes` adds that no part index exceeds
`MAX_MIRROR_PARTS`, and `MirrorKeepsBroker` restates the broker's properties.

*ProvisioningProofs.* `PInv` says what an interrupted `apply_package` can leave
behind. `Between(p)` describes it: a first installation in part, an upgrade
from the high-water package to its successor in part, or the whole of `p`.
Without a journal the destination is empty or whole (`FilesInv`); the holder of
the lock has written everything before its next step (`HolderInv`). Both hold
while no update was installed next to the apply (section 5); that the holder
passed the chain check (`ChainInv`) holds always, which is why `AppliedForward`
does. The others are `TransactionResumable`, `InstallationAtomic`,
`LoadsAlwaysSucceed` and `StateMovesForward`.

*RotationProofs.* `RInv` follows a key from the disk of its agent to the
directory. An announcement offers what a staged bundle holds (`AnnouncedInv`); a
draft and a signed directory contain, beyond the first keys, only keys in staged
bundles (`InCustody`), cover their lifetime (`Covers`) and narrow their
predecessor (`Shrunk`). That a bundle never goes back cannot be seen from key
numbers alone, since signing and encryption keys are numbered separately: `Grown`
says that both lists grow together, `Top` that a bundle's newest encryption key
belongs to the ceremony of its signing key. A running activate is right about what it has
read (`OpOK`), also when the files have moved on. From it follow `RotationTypes`,
`CustodyComesFirst`, `NoGapInCoverage`, `AuthorityShrinks`, `BundlesAreGoverned`,
`ReplacedBundlesKept` and the action property `ActivationMovesForward`.

*AuthorityProofs, the directory.* `DirInv` adds to the properties that only a
first file has no predecessor (`FilesInv`), that state, last load and history
agree (`StateInv`) and that what a loader holds between its two steps is signed
(`ReadersInv`). Nothing is assumed of installers: the theorems hold whatever is
installed, so also when two installers disturb each other's `.verify-tmp` copy.
From it follow `DirectoryTypeCorrect`, `AuthorityIsOneChain`, `AuthorityIsSigned`
and the action property `AuthorityNeverRollsBack`.

*AuthorityProofs, membership.* Agreement on the founder is not inductive: it needs
that the transfers of a tribe which were ever applied form one chain. `ChainInv`
says that, unless the founder equivocated, there is at most one transfer per
epoch, each was signed by the holder of its epoch, and each host's founder is the
holder of its epoch, where the holder is the declarer or the successor named by
the transfer of the epoch before (`Holds`). Stated this way one step never needs
more than the previous epoch, so no induction over epochs is needed. `MemInv` adds
types and `MembersWereInvited`. From it follow `SplitProvesEquivocation`,
`MembershipByInvitation` and the action property `EntryByUnusedInvitation`.

Only model-checked: the liveness properties `DeliveryTerminates`, `StagedSettles`
and `Completes`, because reasoning about fairness is beyond the prover, and the
two properties that the code violates (section 5).

## 5. Where code and documents disagree

* `consumer_crash`: a comment in `claim_and_process` says that the processing
  timeout recovers a crashed owner. With the default values a client that keeps
  polling has spent all five attempts by then, and the delivery is
  dead-lettered.
* `rotation_stranded`: `forward-recovery` is documented to revoke keys only when
  every agent has other active keys, and a test calls this refusing to strand an
  agent. But an activated bundle has to retain the old encryption keys, and
  `KeyBundle.verify_against` refuses a bundle that holds a revoked one. After the
  recovery the agent holds the current keys in a bundle that sending, prepare and
  activate refuse.

Limits that are not disagreements:

* A poll that outlasts the processing timeout may repeat an effect, overwrite a
  settled inbox row, repeat a confirmed part or, across a deployment, post it in
  another rendering. The history variable `stalled` records that such a poll has
  occurred; `OneEffectPerKey`, `ProcessedIsFinal`, `ConfirmedOnce` and
  `OneRendering` are stated for behaviours without one, all other properties of
  `Consumer` and `Mirror` with them as well.
* `InboxStore.finish` does not compare the envelope of the row it settles. A mirror
  run that stalls until its message has been purged and its key reused settles
  the row of the other envelope, and the next poll acknowledges that one although it was
  never posted. The attempt to prove that what is acknowledged stands in the chat
  showed this; `AcknowledgedIsWhole` makes the exception, which needs a stalled
  run and a chat that shows other bytes under the key.
* `apply_package` writes the state file without the lock of the loaders, on the
  strength of an earlier check. If an update is installed and loaded in between,
  the state goes back by one epoch, and a journalled package may no longer fit.
  `Resumable`, `AllOrNothing`, `ClientsKeepWorking`, `StateNeverBack` and
  `Completes` are therefore stated while no update was installed (`updates = 0`);
  `HighWaterForward` holds with updates.
* Maintenance does not observe trusted time. If the clock runs ahead, retention
  is applied and the clock is set back, a purged message can be admitted again:
  `AdmittedOnce` is stated for `backs = 0`.
* When an ack fails, the messages which that poll has decrypted are dropped after
  they were marked processed, and the next poll acknowledges them without
  returning them, although SPEC.md promises at-least-once delivery.
  `AckAfterEffect` therefore allows for payloads in `dropped`.
* `update_client_directory` installs an older file when the state file lags behind
  the installed directory, although its docstring says "if newer". The state file
  does not go back (`NeverRollsBack`), and the next load accepts what fits it.
* `flush_outbox` signs all requests of a batch with the time at which it started.
  If earlier posts of the batch run into timeouts, later requests are expired when
  they are sent, the endpoint answers 400, and a deliverable envelope is
  dead-lettered (last disjunct of `GivenUpForCause`).
* An `activate` that is killed while it writes the backup leaves a torn file under
  the backup's fixed name; every retry refuses it until somebody removes it.
  Nothing is lost (`OldBundleKept`).
* Of two overlapping ceremonies the bundle that was staged before the first
  activation lacks the first ceremony's encryption key and can no longer be
  activated (`NeverBackToOldKey` shows that it is not).
* `invitation` takes the founder and the epoch from the declaration, so nobody can
  join after the first founder transfer, although the documents say that the
  current founder invites. A host that has not yet applied the transfer still
  admits on the old founder's invitations.
* Changes carry no use-once mark and no time that is compared: a leave that is
  delivered again removes a member that was invited back, an expelled member with
  a second open invitation may use it, and hosts that see these artifacts in
  different orders end with different members.
* A host that misses an epoch cannot accept a later one until it is given the
  missing file.

## 6. Plan

1. `Coordination`: `reduce_events` and `audit_events` against a definition by the
   history of each claim. The time of a superseding claim that the audit compares
   is that of its last event, not of the claim itself, which deserves a run.
2. Directory progress: a host that keeps updating and loading follows a
   governance that waits for it.
3. Proofs: the broker's action properties and the contract behind the pollers, as
   they are proved behind the service; that the part of `PInv` which needs
   `updates = 0` holds again after an update has been loaded and no apply ran.

Not modelled, and why: cryptography (taken to work), JSON and schema parsing,
file modes and ownership, `daimon_manifest.py` (pure validation and selection),
the sent gate (text similarity over an advisory log which two senders may check
at once), `github_coordination.py` (a pure function of the comments of an issue,
see the plan), launchers and one-time key generation. SQLite
is taken to provide serializable transactions and durable commits, `os.replace`
to be atomic.
