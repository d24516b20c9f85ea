------------------------------ MODULE Directory ------------------------------
(***************************************************************************)
(* The governed directory on one host: Directory.load with its             *)
(* anti-rollback state file (tribe_directory_v1.py), and the programs that *)
(* replace the installed directory, update_client_directory and            *)
(* renew_synthetic_single_holder_directory (tribe_directory_admin_v1.py).  *)
(*                                                                         *)
(* Every program of the host reads the same directory.json and, under a    *)
(* lock, the same state file; installers check their candidate against a   *)
(* copy of the state file that has one fixed name, and write directory.json*)
(* without the lock.  Governance composes and signs successors offline.    *)
(*                                                                         *)
(* A directory file is named by its index in files; the index stands for   *)
(* directory_sha256, which covers the signatures: the same body with one   *)
(* signature more is another file.                                         *)
(***************************************************************************)
EXTENDS Integers, Sequences, FiniteSets

CONSTANTS
    Holder,         \* governance key holders
    Threshold,      \* governance threshold pinned in the roots
    MaxClockSkew,   \* MAX_CLOCK_SKEW_MS
    Validity,       \* lifetime of a composed directory
    Window,         \* window_days of a renewal
    Reader,         \* processes that load the directory
    Updater,        \* processes that run update_client_directory
    Renewer,        \* processes that renew the directory on this host
    MaxFiles,       \* bound: number of directory files
    MaxTime         \* bound: the clock stops here

ASSUME DirectoryAssumption ==
    /\ IsFiniteSet(Holder) /\ Threshold \in 1..Cardinality(Holder)
    /\ MaxClockSkew \in Nat /\ Validity \in Nat \ {0} /\ Window \in Nat
    /\ MaxFiles \in Nat /\ MaxTime \in Nat

Installer == Updater \cup Renewer

VARIABLES
    clock,
    files,          \* every directory file that exists anywhere
    served,         \* the file the canonical URL serves
    installed,      \* directory.json
    state,          \* the state file: epoch and hash of the accepted file, or 0
    copy,           \* the ".verify-tmp" copy of the state file, or 0
    readers,        \* what each reader has read and not yet checked, or 0
    installers,     \* the state of each installer
    last,           \* history: the file Directory.load returned last, or 0
    loaded          \* history: all files Directory.load returned

vars == <<clock, files, served, installed, state, copy, readers, installers, last, loaded>>

File == 1..Len(files)
FileRow == [epoch : Nat \ {0}, prev : Nat, issued : Nat, signers : SUBSET Holder]

Installing == [pc : {"idle", "copy", "verify", "unlink", "install"},
               candidate : Nat, now : Nat, ok : BOOLEAN]
Resting == [pc |-> "idle", candidate |-> 0, now |-> 0, ok |-> FALSE]

-----------------------------------------------------------------------------
(* Directory.load *)

ExpiresAt(f) == files[f].issued + Validity
SignedEnough(f) == Cardinality(files[f].signers) >= Threshold

\* Mutant: the threshold is not enforced.
Valid_Unsigned(f, now) == files[f].issued <= now + MaxClockSkew /\ now < ExpiresAt(f)

\* validate_directory, for a file with a well-formed body.
Valid(f, now) ==
    files[f].issued <= now + MaxClockSkew /\ now < ExpiresAt(f) /\ SignedEnough(f)

\* Mutant: the hash is not compared within an epoch.
Accepts_SplitView(s, f) ==
    \/ s = 0 /\ files[f].prev = 0
    \/ s # 0 /\ files[f].epoch = files[s].epoch
    \/ s # 0 /\ files[f].epoch = files[s].epoch + 1 /\ files[f].prev = s

\* Mutant: no rollback check.
Accepts_Rollback(s, f) ==
    \/ s = 0 /\ files[f].prev = 0
    \/ s # 0 /\ f = s
    \/ s # 0 /\ files[f].epoch < files[s].epoch
    \/ s # 0 /\ files[f].epoch = files[s].epoch + 1 /\ files[f].prev = s

\* The comparison with state s: the first file, the same file, or the direct
\* successor.  A lower epoch is a rollback, another file of the same epoch a
\* split view, anything else a discontinuity.
Accepts(s, f) ==
    \/ s = 0 /\ files[f].prev = 0
    \/ s # 0 /\ f = s
    \/ s # 0 /\ files[f].epoch = files[s].epoch + 1 /\ files[f].prev = s

\* load reads and validates directory.json before it takes the lock.
LoadRead(r) ==
    /\ readers[r] = 0
    /\ Valid(installed, clock)
    /\ readers' = [readers EXCEPT ![r] = installed]
    /\ UNCHANGED <<clock, files, served, installed, state, copy, installers, last, loaded>>

\* Under the lock: compare with the state file, and replace it.
LoadCommit(r) ==
    /\ readers[r] # 0
    /\ IF Accepts(state, readers[r])
       THEN /\ state' = readers[r]
            /\ last' = readers[r]
            /\ loaded' = loaded \cup {readers[r]}
       ELSE UNCHANGED <<state, last, loaded>>
    /\ readers' = [readers EXCEPT ![r] = 0]
    /\ UNCHANGED <<clock, files, served, installed, copy, installers>>

-----------------------------------------------------------------------------
(* Installing a candidate *)

Start(i, f) ==
    installers' = [installers EXCEPT ![i] =
        [pc |-> "copy", candidate |-> f, now |-> clock, ok |-> FALSE]]

\* update_client_directory: nothing to do for a file of the installed epoch.
Fetch(i) ==
    /\ installers[i].pc = "idle"
    /\ files[served].epoch # files[installed].epoch
    /\ Start(i, served)
    /\ UNCHANGED <<clock, files, served, installed, state, copy, readers, last, loaded>>

\* build_next_epoch on file f
NextEpoch(f, signers) ==
    [epoch |-> files[f].epoch + 1, prev |-> f, issued |-> clock, signers |-> signers]

\* renew_synthetic_single_holder_directory with the key of h.
Renew(i, h) ==
    /\ installers[i].pc = "idle" /\ Len(files) < MaxFiles
    /\ ExpiresAt(installed) <= clock + Window
    /\ files' = Append(files, NextEpoch(installed, {h}))
    /\ Start(i, Len(files) + 1)
    /\ UNCHANGED <<clock, served, installed, state, copy, readers, last, loaded>>

\* verify_chain: copy the state file; without one, FileNotFoundError.
CopyState(i) ==
    /\ installers[i].pc = "copy"
    /\ \/ /\ state # 0
          /\ copy' = state
          /\ installers' = [installers EXCEPT ![i].pc = "verify"]
       \/ /\ state = 0
          /\ installers' = [installers EXCEPT ![i] = Resting]
          /\ UNCHANGED copy
    /\ UNCHANGED <<clock, files, served, installed, state, readers, last, loaded>>

\* verify_chain: Directory.load of the candidate against the copy.
Verify(i) ==
    LET u  == installers[i]
        ok == Valid(u.candidate, u.now) /\ Accepts(copy, u.candidate)
    IN  /\ u.pc = "verify"
        /\ copy' = IF ok THEN u.candidate ELSE copy
        /\ installers' = [installers EXCEPT ![i].pc = "unlink", ![i].ok = ok]
    /\ UNCHANGED <<clock, files, served, installed, state, readers, last, loaded>>

\* verify_chain's finally clause; a failed verification ends the program.
Unlink(i) ==
    /\ installers[i].pc = "unlink"
    /\ copy' = 0
    /\ installers' = [installers EXCEPT ![i] = IF @.ok THEN [@ EXCEPT !.pc = "install"]
                                                       ELSE Resting]
    /\ UNCHANGED <<clock, files, served, installed, state, readers, last, loaded>>

\* write_atomic(directory_path)
Install(i) ==
    /\ installers[i].pc = "install"
    /\ installed' = installers[i].candidate
    /\ installers' = [installers EXCEPT ![i] = Resting]
    /\ UNCHANGED <<clock, files, served, state, copy, readers, last, loaded>>

-----------------------------------------------------------------------------
(* Governance and the canonical URL *)

\* Compose an unsigned successor of a signed file.
Compose(f) ==
    /\ Len(files) < MaxFiles
    /\ SignedEnough(f)
    /\ files' = Append(files, NextEpoch(f, {}))
    /\ UNCHANGED <<clock, served, installed, state, copy, readers, installers, last, loaded>>

\* sign_directory_v1: h appends a signature and writes a new file.
Sign(f, h) ==
    /\ Len(files) < MaxFiles
    /\ h \notin files[f].signers
    /\ files' = Append(files, [files[f] EXCEPT !.signers = @ \cup {h}])
    /\ UNCHANGED <<clock, served, installed, state, copy, readers, installers, last, loaded>>

\* The canonical URL (external, not trusted) changes over to another file, which
\* may be older, a fork, or not fully signed.
Publish(f) ==
    /\ served' = f
    /\ UNCHANGED <<clock, files, installed, state, copy, readers, installers, last, loaded>>

Tick ==
    /\ clock < MaxTime
    /\ clock' = clock + 1
    /\ UNCHANGED <<files, served, installed, state, copy, readers, installers, last, loaded>>

\* Provisioning installed the first directory; nothing has loaded it yet.
Init ==
    /\ clock = 0
    /\ \E H \in SUBSET Holder :
          /\ Cardinality(H) = Threshold
          /\ files = <<[epoch |-> 1, prev |-> 0, issued |-> 0, signers |-> H]>>
    /\ served = 1 /\ installed = 1
    /\ state = 0 /\ copy = 0
    /\ readers = [r \in Reader |-> 0]
    /\ installers = [i \in Installer |-> Resting]
    /\ last = 0 /\ loaded = {}

LoadSteps(r) == LoadRead(r) \/ LoadCommit(r)
InstallSteps(i) == CopyState(i) \/ Verify(i) \/ Unlink(i) \/ Install(i)

Next ==
    \/ Tick
    \/ \E f \in File : Compose(f)
    \/ \E f \in File, h \in Holder : Sign(f, h)
    \/ \E f \in File : Publish(f)
    \/ \E r \in Reader : LoadSteps(r)
    \/ \E i \in Updater : Fetch(i)
    \/ \E i \in Renewer, h \in Holder : Renew(i, h)
    \/ \E i \in Installer : InstallSteps(i)

Spec == Init /\ [][Next]_vars

-----------------------------------------------------------------------------
(* Properties *)

\* The files and the processes are well formed, and every reference to a file
\* is to an existing one.
TypeOK ==
    /\ clock \in Nat
    /\ files \in Seq(FileRow)
    /\ served \in File /\ installed \in File
    /\ state \in File \cup {0} /\ copy \in File \cup {0}
    /\ readers \in [Reader -> File \cup {0}]
    /\ installers \in [Installer -> Installing]
    /\ \A i \in Installer :
          installers[i].pc # "idle" => installers[i].candidate \in File
    /\ last \in File \cup {0} /\ loaded \subseteq File

\* What the host has ever used as authority is one chain: never two files of
\* one epoch, and each file names the one before it.  Readers race with each
\* other and with installers, and governance may have signed forks.
OneChain ==
    \A f, g \in loaded :
        /\ files[f].epoch = files[g].epoch => f = g
        /\ files[g].epoch = files[f].epoch + 1 => files[g].prev = f
        /\ files[f].epoch > 1 => files[f].prev \in loaded

\* Authority never goes back: a load never returns an older directory than
\* the load before it, whichever process did it and whenever it read the file.
NeverRollsBack ==
    [][last # 0 /\ last' # 0 => files'[last'].epoch >= files'[last].epoch]_vars

\* Nothing below the threshold is ever used.
OnlySignedAuthority == \A f \in loaded : SignedEnough(f)

-----------------------------------------------------------------------------
(* The inductive invariant behind the safety properties (AuthorityProofs) *)

\* A file without predecessor is of epoch 1.
FilesInv == \A f \in File : files[f].prev = 0 => files[f].epoch = 1

\* The state file is the newest of what was loaded, and what was loaded last.
StateInv ==
    /\ state = last
    /\ state = 0 => loaded = {}
    /\ state # 0 => state \in loaded
    /\ \A f \in loaded : files[f].epoch <= files[state].epoch

\* A reader holds only files that it found signed.
ReadersInv == \A r \in Reader : readers[r] # 0 => SignedEnough(readers[r])

DirInv == TypeOK /\ FilesInv /\ StateInv /\ ReadersInv /\ OneChain /\ OnlySignedAuthority
=============================================================================
