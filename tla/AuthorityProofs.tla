-------------------------- MODULE AuthorityProofs --------------------------
(***************************************************************************)
(* Who may speak: machine-checked proofs about Directory and Membership.   *)
(* The two are independent; each has its own specification and invariant.  *)
(***************************************************************************)
EXTENDS Directory, Membership, TLAPS

-----------------------------------------------------------------------------
(* Directory: the host's authority is one signed chain that never goes     *)
(* back, for any number of readers, installers, holders and files, any     *)
(* threshold and any behaviour of the canonical URL.                       *)

\* Appending a file leaves the earlier ones alone.
LEMMA AppendFile ==
    ASSUME NEW S, NEW s \in Seq(S), NEW x \in S
    PROVE  /\ Append(s, x) \in Seq(S)
           /\ Len(Append(s, x)) = Len(s) + 1
           /\ 1..Len(s) \subseteq 1..Len(Append(s, x))
           /\ Len(s) + 1 \in 1..Len(Append(s, x))
           /\ \A i \in 1..Len(s) : Append(s, x)[i] = s[i]
           /\ Append(s, x)[Len(s) + 1] = x
  OBVIOUS

\* The initial state: one signed file, nothing loaded.
LEMMA InitDirInv == Init => DirInv
<1> SUFFICES ASSUME Init PROVE DirInv
  OBVIOUS
<1> USE DirectoryAssumption
<1>1. PICK H \in SUBSET Holder :
        files = <<[epoch |-> 1, prev |-> 0, issued |-> 0, signers |-> H]>>
  BY DEF Init
<1>2. files \in Seq(FileRow) /\ Len(files) = 1 /\ files[1].epoch = 1
  BY <1>1 DEF FileRow
<1>3. TypeOK
  BY <1>2 DEF Init, TypeOK, File, Resting, Installing
<1>4. QED
  BY <1>2, <1>3 DEF Init, DirInv, FilesInv, StateInv, ReadersInv, OneChain,
                    OnlySignedAuthority, File

\* A step that only adds a file of a later epoch, or a copy of a file with
\* another signature, preserves the invariant.
LEMMA NewFile ==
    ASSUME DirInv, NEW x \in FileRow, x.prev = 0 => x.epoch = 1,
           files' = Append(files, x),
           clock' = clock, served' = served, installed' = installed,
           state' = state, copy' = copy, readers' = readers,
           last' = last, loaded' = loaded,
           installers' \in [Installer -> Installing],
           \A i \in Installer : installers'[i].pc # "idle" => installers'[i].candidate \in File'
    PROVE  DirInv'
<1>0. TypeOK BY DEF DirInv
<1>1. /\ files' \in Seq(FileRow) /\ Len(files') = Len(files) + 1
      /\ File \subseteq File' /\ \A f \in File : files'[f] = files[f]
      /\ \A f \in File' : f \in File \/ files'[f] = x
  <2>1. files \in Seq(FileRow) BY <1>0 DEF TypeOK
  <2>2. Len(files) \in Nat BY <2>1
  <2>3. /\ files' \in Seq(FileRow) /\ Len(files') = Len(files) + 1
        /\ \A f \in 1..Len(files) : files'[f] = files[f]
        /\ files'[Len(files) + 1] = x
    BY <2>1, AppendFile
  <2>4. QED BY <2>2, <2>3 DEF File
<1>2. TypeOK'
  BY <1>0, <1>1 DEF TypeOK
<1>3. FilesInv'
  BY <1>1 DEF DirInv, FilesInv
<1>4. StateInv'
  BY <1>0, <1>1 DEF DirInv, StateInv, TypeOK
<1>5. ReadersInv'
  BY <1>0, <1>1 DEF DirInv, ReadersInv, TypeOK, SignedEnough
<1>6. OneChain'
  <2>1. loaded \subseteq File BY <1>0 DEF TypeOK
  <2>2. \A f \in loaded : files'[f] = files[f] BY <1>1, <2>1
  <2>3. OneChain BY DEF DirInv
  <2>4. ASSUME NEW f \in loaded, NEW g \in loaded
        PROVE  /\ files'[f].epoch = files'[g].epoch => f = g
               /\ files'[g].epoch = files'[f].epoch + 1 => files'[g].prev = f
               /\ files'[f].epoch > 1 => files'[f].prev \in loaded
    <3>1. files'[f] = files[f] /\ files'[g] = files[g] BY <2>2
    <3>2. QED BY <2>3, <3>1 DEF OneChain
  <2>5. loaded' = loaded OBVIOUS
  <2>6. QED BY <2>4, <2>5, Zenon DEF OneChain
<1>7. OnlySignedAuthority'
  BY <1>0, <1>1 DEF DirInv, OnlySignedAuthority, TypeOK, SignedEnough
<1>8. QED BY <1>2, <1>3, <1>4, <1>5, <1>6, <1>7 DEF DirInv

\* A step that touches neither the files nor what was loaded preserves the
\* invariant if it keeps the types and the readers' files signed.
LEMMA OldFiles ==
    ASSUME DirInv, TypeOK', ReadersInv',
           files' = files, state' = state, last' = last, loaded' = loaded
    PROVE  DirInv'
<1>1. FilesInv' BY DEF DirInv, FilesInv, File
<1>2. StateInv' BY DEF DirInv, StateInv
<1>3. OneChain' BY DEF DirInv, OneChain
<1>4. OnlySignedAuthority' BY DEF DirInv, OnlySignedAuthority, SignedEnough
<1>5. QED BY <1>1, <1>2, <1>3, <1>4 DEF DirInv

\* LoadCommit is the only step that extends the authority.
LEMMA LoadCommitStep ==
    ASSUME DirInv, NEW r \in Reader, LoadCommit(r)
    PROVE  DirInv'
<1> DEFINE f == readers[r]
<1>1. /\ TypeOK /\ FilesInv /\ StateInv /\ ReadersInv /\ OneChain /\ OnlySignedAuthority
  BY DEF DirInv
<1>2. files' = files /\ File' = File
  BY DEF LoadCommit, File
<1>3. TypeOK'
  BY <1>1, <1>2 DEF TypeOK, LoadCommit
<1>4. ReadersInv'
  BY <1>1, <1>2 DEF ReadersInv, SignedEnough, LoadCommit, TypeOK
<1>5. CASE ~Accepts(state, f)
  BY <1>3, <1>4, <1>5, OldFiles DEF LoadCommit
<1>6. CASE Accepts(state, f)
  <2>1. state' = f /\ last' = f /\ loaded' = loaded \cup {f} /\ f # 0 /\ f \in File
    BY <1>1, <1>6 DEF LoadCommit, TypeOK
  <2>2. \A g \in File : files[g].epoch \in Nat /\ files[g].prev \in Nat
    <3>1. files \in Seq(FileRow) BY <1>1 DEF TypeOK
    <3>2. \A g \in File : files[g] \in FileRow BY <3>1 DEF File
    <3>3. QED BY <3>2 DEF FileRow
  <2>3. loaded \subseteq File /\ (state # 0 => state \in File)
    BY <1>1 DEF TypeOK
  <2>4. FilesInv'
    BY <1>1, <1>2 DEF FilesInv
  <2>5. OnlySignedAuthority'
    BY <1>1, <1>2, <2>1 DEF OnlySignedAuthority, ReadersInv, SignedEnough
  <2>6. \A g \in loaded : files[g].epoch <= files[f].epoch
    <3>1. CASE state = 0
      BY <1>1, <3>1 DEF StateInv
    <3>2. CASE state # 0
      BY <1>1, <1>6, <2>1, <2>2, <2>3, <3>2 DEF StateInv, Accepts
    <3>3. QED BY <3>1, <3>2
  <2>7. StateInv'
    BY <1>2, <2>1, <2>2, <2>6 DEF StateInv
  <2>8. OneChain'
    <3>1. CASE f \in loaded
      <4>1. loaded' = loaded BY <2>1, <3>1
      <4>2. QED BY <1>1, <1>2, <4>1 DEF OneChain
    <3>2. CASE f \notin loaded /\ state = 0
      <4>1. loaded' = {f} /\ files[f].epoch = 1
        BY <1>1, <1>6, <2>1, <3>2 DEF StateInv, Accepts, FilesInv
      <4>2. QED BY <1>2, <4>1 DEF OneChain
    <3>3. CASE f \notin loaded /\ state # 0
      <4>1. state \in loaded /\ files[f].epoch = files[state].epoch + 1 /\ files[f].prev = state
        BY <1>1, <1>6, <3>3 DEF StateInv, Accepts
      <4>2. \A g \in loaded : files[g].epoch <= files[state].epoch
        BY <1>1 DEF StateInv
      <4>3. \A g \in loaded : files[g].epoch = files[state].epoch => g = state
        BY <1>1, <4>1 DEF OneChain
      <4>4. ASSUME NEW a \in loaded', NEW g \in loaded'
            PROVE  /\ files[a].epoch = files[g].epoch => a = g
                   /\ files[g].epoch = files[a].epoch + 1 => files[g].prev = a
                   /\ files[a].epoch > 1 => files[a].prev \in loaded'
        <5>1. a \in File /\ g \in File BY <2>1, <2>3
        <5>2. files[state].epoch \in Nat BY <2>2, <2>3, <4>1
        <5>3. CASE a \in loaded /\ g \in loaded
          BY <1>1, <2>1, <5>3 DEF OneChain
        <5>4. CASE a = f /\ g \in loaded
          <6>1. files[g].epoch <= files[state].epoch /\ files[g].epoch \in Nat
            BY <2>2, <4>2, <5>1, <5>4
          <6>2. QED BY <2>1, <4>1, <5>2, <5>4, <6>1
        <5>5. CASE a \in loaded /\ g = f
          <6>1. files[a].epoch <= files[state].epoch /\ files[a].epoch \in Nat
            BY <2>2, <4>2, <5>1, <5>5
          <6>2. files[g].epoch = files[a].epoch + 1 => files[g].prev = a
            BY <4>1, <4>3, <5>2, <5>5, <6>1
          <6>3. files[a].epoch # files[g].epoch
            BY <4>1, <5>2, <5>5, <6>1
          <6>4. files[a].epoch > 1 => files[a].prev \in loaded'
            BY <1>1, <2>1, <5>5 DEF OneChain
          <6>5. QED BY <6>2, <6>3, <6>4
        <5>6. CASE a = f /\ g = f
          BY <2>1, <4>1, <5>2, <5>6
        <5>7. QED BY <2>1, <5>3, <5>4, <5>5, <5>6
      <4>5. QED BY <1>2, <4>4 DEF OneChain
    <3>4. QED BY <3>1, <3>2, <3>3
  <2>9. QED BY <1>3, <1>4, <2>4, <2>5, <2>7, <2>8 DEF DirInv
<1>7. QED BY <1>5, <1>6

\* A directory that the ceremony or a renewal composes is well formed.
LEMMA NextEpochRow ==
    ASSUME TypeOK, NEW f \in File, NEW S \in SUBSET Holder
    PROVE  /\ NextEpoch(f, S) \in FileRow
           /\ NextEpoch(f, S).prev # 0
<1>1. files \in Seq(FileRow) /\ clock \in Nat BY DEF TypeOK
<1>2. files[f] \in FileRow /\ f \in Nat \ {0} BY <1>1 DEF File
<1>3. QED BY <1>1, <1>2 DEF NextEpoch, FileRow

\* Every step preserves the invariant.
LEMMA NextDirInv == DirInv /\ [Next]_vars => DirInv'
<1> SUFFICES ASSUME DirInv, [Next]_vars PROVE DirInv'
  OBVIOUS
<1>0. TypeOK /\ ReadersInv BY DEF DirInv
<1>T. /\ installers \in [Installer -> Installing]
      /\ \A i \in Installer : installers[i].pc # "idle" => installers[i].candidate \in File
      /\ files \in Seq(FileRow) /\ clock \in Nat /\ Len(files) \in Nat
  BY <1>0 DEF TypeOK
<1>1. CASE Tick
  <2>1. TypeOK' BY <1>0, <1>1 DEF TypeOK, Tick, File
  <2>2. ReadersInv' BY <1>0, <1>1 DEF ReadersInv, Tick, SignedEnough
  <2>3. QED BY <1>1, <2>1, <2>2, OldFiles DEF Tick
<1>2. ASSUME NEW f \in File, Compose(f) PROVE DirInv'
  <2>1. /\ NextEpoch(f, {}) \in FileRow /\ NextEpoch(f, {}).prev # 0
    BY <1>0, NextEpochRow
  <2>2. files' = Append(files, NextEpoch(f, {})) /\ installers' = installers
    BY <1>2 DEF Compose
  <2>3. \A i \in Installer : installers'[i].pc # "idle" => installers'[i].candidate \in File'
    BY <1>T, <2>1, <2>2, AppendFile DEF File
  <2>4. QED BY <1>2, <1>T, <2>1, <2>2, <2>3, NewFile DEF Compose
<1>3. ASSUME NEW f \in File, NEW h \in Holder, Sign(f, h) PROVE DirInv'
  <2> DEFINE x == [files[f] EXCEPT !.signers = @ \cup {h}]
  <2>1. files[f] \in FileRow BY <1>T DEF File
  <2>2. x \in FileRow /\ x.prev = files[f].prev /\ x.epoch = files[f].epoch
    BY <2>1 DEF FileRow
  <2>3. x.prev = 0 => x.epoch = 1
    BY <2>2 DEF DirInv, FilesInv
  <2>4. files' = Append(files, x) /\ installers' = installers
    BY <1>3 DEF Sign
  <2> HIDE DEF x
  <2>5. \A i \in Installer : installers'[i].pc # "idle" => installers'[i].candidate \in File'
    BY <1>T, <2>2, <2>4, AppendFile DEF File
  <2>6. QED BY <1>3, <1>T, <2>2, <2>3, <2>4, <2>5, NewFile DEF Sign
<1>4. ASSUME NEW f \in File, Publish(f) PROVE DirInv'
  <2>1. TypeOK' BY <1>0, <1>4 DEF TypeOK, Publish, File
  <2>2. ReadersInv' BY <1>0, <1>4 DEF ReadersInv, Publish, SignedEnough
  <2>3. QED BY <1>4, <2>1, <2>2, OldFiles DEF Publish
<1>5. ASSUME NEW r \in Reader, LoadRead(r) PROVE DirInv'
  <2>1. TypeOK' BY <1>0, <1>5 DEF TypeOK, LoadRead, File
  <2>2. ReadersInv' BY <1>0, <1>5 DEF ReadersInv, LoadRead, SignedEnough, Valid, TypeOK
  <2>3. QED BY <1>5, <2>1, <2>2, OldFiles DEF LoadRead
<1>6. ASSUME NEW r \in Reader, LoadCommit(r) PROVE DirInv'
  BY <1>6, LoadCommitStep
<1>7. ASSUME NEW i \in Installer, Fetch(i) PROVE DirInv'
  <2>1. TypeOK' BY <1>0, <1>7 DEF TypeOK, Fetch, Start, File, Installing
  <2>2. ReadersInv' BY <1>0, <1>7 DEF ReadersInv, Fetch, SignedEnough
  <2>3. QED BY <1>7, <2>1, <2>2, OldFiles DEF Fetch
<1>8. ASSUME NEW i \in Installer, NEW h \in Holder, Renew(i, h) PROVE DirInv'
  <2>0. installed \in File BY <1>0 DEF TypeOK
  <2>1. NextEpoch(installed, {h}) \in FileRow /\ NextEpoch(installed, {h}).prev # 0
    BY <1>0, <2>0, NextEpochRow
  <2>2. /\ files' = Append(files, NextEpoch(installed, {h}))
        /\ installers' = [installers EXCEPT ![i] =
              [pc |-> "copy", candidate |-> Len(files) + 1, now |-> clock, ok |-> FALSE]]
    BY <1>8 DEF Renew, Start
  <2>3. installers' \in [Installer -> Installing]
    BY <1>T, <2>2 DEF Installing
  <2>4. File \subseteq File' /\ Len(files) + 1 \in File'
    BY <1>T, <2>1, <2>2, AppendFile DEF File
  <2>5. \A j \in Installer : installers'[j].pc # "idle" => installers'[j].candidate \in File'
    <3> SUFFICES ASSUME NEW j \in Installer, installers'[j].pc # "idle"
                 PROVE  installers'[j].candidate \in File'
      OBVIOUS
    <3>1. CASE j = i BY <1>T, <2>2, <2>4, <3>1
    <3>2. CASE j # i
      <4>1. installers'[j] = installers[j] BY <1>T, <2>2, <3>2
      <4>2. QED BY <1>T, <2>4, <4>1
    <3>3. QED BY <3>1, <3>2
  <2>6. QED BY <1>8, <2>1, <2>2, <2>3, <2>5, NewFile DEF Renew
<1>9. ASSUME NEW i \in Installer, InstallSteps(i) PROVE DirInv'
  <2>1. CASE CopyState(i)
    <3>1. /\ files' = files /\ File' = File /\ readers' = readers
          /\ clock' = clock /\ served' = served /\ installed' = installed
          /\ state' = state /\ last' = last /\ loaded' = loaded
      BY <2>1 DEF CopyState, File
    <3>2. copy' \in File \cup {0}
      BY <1>0, <2>1 DEF TypeOK, CopyState
    <3>3. \/ installers' = [installers EXCEPT ![i].pc = "verify"]
          \/ installers' = [installers EXCEPT ![i] = Resting]
      BY <2>1 DEF CopyState
    <3>4. installers[i].pc = "copy" BY <2>1 DEF CopyState
    <3>5. /\ installers' \in [Installer -> Installing]
          /\ \A j \in Installer : installers'[j].pc # "idle" => installers'[j].candidate \in File
      <4>1. CASE installers' = [installers EXCEPT ![i].pc = "verify"]
        BY <1>T, <3>4, <4>1 DEF Installing
      <4>2. CASE installers' = [installers EXCEPT ![i] = Resting]
        BY <1>T, <4>2 DEF Installing, Resting
      <4>3. QED BY <3>3, <4>1, <4>2
    <3>6. TypeOK' BY <1>0, <3>1, <3>2, <3>5 DEF TypeOK
    <3>7. ReadersInv' BY <1>0, <3>1 DEF ReadersInv, SignedEnough
    <3>8. QED BY <3>1, <3>6, <3>7, OldFiles
  <2>2. CASE Verify(i)
    <3> DEFINE ok == Valid(installers[i].candidate, installers[i].now)
                     /\ Accepts(copy, installers[i].candidate)
    <3>1. /\ files' = files /\ File' = File /\ readers' = readers
          /\ clock' = clock /\ served' = served /\ installed' = installed
          /\ state' = state /\ last' = last /\ loaded' = loaded
      BY <2>2 DEF Verify, File
    <3>2. copy' \in File \cup {0}
      BY <1>0, <1>T, <2>2 DEF TypeOK, Verify
    <3>3. ok \in BOOLEAN BY DEF Valid, Accepts
    <3>4. installers' = [installers EXCEPT ![i].pc = "unlink", ![i].ok = ok]
      BY <2>2 DEF Verify
    <3>p. installers[i].pc = "verify" BY <2>2 DEF Verify
    <3> HIDE DEF ok
    <3>5. /\ installers' \in [Installer -> Installing]
          /\ \A j \in Installer : installers'[j].pc # "idle" => installers'[j].candidate \in File
      BY <1>T, <3>p, <3>3, <3>4 DEF Installing
    <3>6. TypeOK' BY <1>0, <3>1, <3>2, <3>5 DEF TypeOK
    <3>7. ReadersInv' BY <1>0, <3>1 DEF ReadersInv, SignedEnough
    <3>8. QED BY <3>1, <3>6, <3>7, OldFiles
  <2>3. CASE Unlink(i)
    <3>1. TypeOK' BY <1>0, <2>3 DEF TypeOK, Unlink, File, Installing, Resting
    <3>2. ReadersInv' BY <1>0, <2>3 DEF ReadersInv, Unlink, SignedEnough
    <3>3. QED BY <2>3, <3>1, <3>2, OldFiles DEF Unlink
  <2>4. CASE Install(i)
    <3>1. TypeOK' BY <1>0, <2>4 DEF TypeOK, Install, File, Installing, Resting
    <3>2. ReadersInv' BY <1>0, <2>4 DEF ReadersInv, Install, SignedEnough
    <3>3. QED BY <2>4, <3>1, <3>2, OldFiles DEF Install
  <2>5. QED BY <1>9, <2>1, <2>2, <2>3, <2>4 DEF InstallSteps
<1>10. CASE UNCHANGED vars
  <2>1. TypeOK' BY <1>0, <1>10 DEF TypeOK, vars, File
  <2>2. ReadersInv' BY <1>0, <1>10 DEF ReadersInv, vars, SignedEnough
  <2>3. QED BY <1>10, <2>1, <2>2, OldFiles DEF vars
<1>11. QED
  BY <1>1, <1>2, <1>3, <1>4, <1>5, <1>6, <1>7, <1>8, <1>9, <1>10
  DEF Next, LoadSteps, Installer

\* The invariant holds in every reachable state.
THEOREM DirectoryInvariance == Spec => []DirInv
<1>1. Init => DirInv BY InitDirInv
<1>2. DirInv /\ [Next]_vars => DirInv' BY NextDirInv
<1>3. QED BY <1>1, <1>2, PTL DEF Spec

\* The type invariant of the directory model.
THEOREM DirectoryTypeCorrect == Spec => []TypeOK
<1>1. DirInv => TypeOK BY DEF DirInv
<1>2. QED BY <1>1, DirectoryInvariance, PTL

\* Whatever governance signs and the canonical URL serves, and however loads
\* race with each other and with installers, what Directory.load has ever
\* returned on a host is one chain of files, each naming its predecessor.
THEOREM AuthorityIsOneChain == Spec => []OneChain
<1>1. DirInv => OneChain BY DEF DirInv
<1>2. QED BY <1>1, DirectoryInvariance, PTL

\* No load ever returned a file below the governance threshold, although the
\* file is validated before the lock is taken and used after it.
THEOREM AuthorityIsSigned == Spec => []OnlySignedAuthority
<1>1. DirInv => OnlySignedAuthority BY DEF DirInv
<1>2. QED BY <1>1, DirectoryInvariance, PTL

\* A load never returns an older directory than the load before it, in
\* whichever processes the two ran.
THEOREM AuthorityNeverRollsBack == Spec => NeverRollsBack
<1> DEFINE Forward == last # 0 /\ last' # 0 => files'[last'].epoch >= files'[last].epoch
<1>1. DirInv /\ DirInv' /\ [Next]_vars => [Forward]_vars
  <2> SUFFICES ASSUME DirInv, DirInv', Next, last # 0, last' # 0
               PROVE  files'[last'].epoch >= files'[last].epoch
    OBVIOUS
  <2>1. loaded \subseteq loaded'
    BY DEF Next, Tick, Compose, Sign, Publish, LoadSteps, LoadRead, LoadCommit, Fetch,
           Renew, InstallSteps, CopyState, Verify, Unlink, Install
  <2>2. last \in loaded /\ last' = state'
    BY DEF DirInv, StateInv
  <2>3. files'[last].epoch <= files'[last'].epoch
    BY <2>1, <2>2 DEF DirInv, StateInv
  <2>4. last \in File' /\ last' \in File' /\ files' \in Seq(FileRow)
    BY <2>1, <2>2 DEF DirInv, TypeOK
  <2>5. files'[last] \in FileRow /\ files'[last'] \in FileRow
    BY <2>4 DEF File
  <2>6. files'[last].epoch \in Nat /\ files'[last'].epoch \in Nat
    BY <2>5 DEF FileRow
  <2>7. QED BY <2>3, <2>6
<1>2. QED BY <1>1, DirectoryInvariance, PTL DEF Spec, NeverRollsBack

-----------------------------------------------------------------------------
(* Membership: what it promises for any number of hosts, principals,       *)
(* tribes and artifacts.                                                   *)

\* At most one hand-over per epoch.
OneTransfer(T) ==
    \A x, y \in transfers :
        x.tribe = T /\ y.tribe = T /\ x.epoch = y.epoch => x.by = y.by /\ x.to = y.to

\* Principal p is the founder at epoch e: the declarer, or the successor of
\* the transfer of the epoch before.
Holds(T, e, p) ==
    \/ e = 1 /\ p = Declarer[T]
    \/ \E x \in transfers : x.tribe = T /\ x.epoch = e - 1 /\ x.to = p

\* Unless someone equivocated, the transfers of a tribe are a chain that every
\* host has followed up to its epoch.
ChainInv ==
    \A T \in Tribe :
        \/ Equivocated(T)
        \/ /\ OneTransfer(T)
           /\ \A x \in transfers : x.tribe = T => Holds(T, x.epoch, x.by)
           /\ \A r \in Replica : Follows[r] = T => Holds(T, epoch[r], founder[r])

\* The inductive invariant.
MemInv == MembershipTypeOK /\ ChainInv /\ MembersWereInvited

\* The founders alone, and no artifact.
LEMMA InitMemInv == MembershipInit => MemInv
<1> SUFFICES ASSUME MembershipInit PROVE MemInv
  OBVIOUS
<1>1. MembershipTypeOK
  BY MembershipAssumption DEF MembershipInit, MembershipTypeOK, Epochs
<1>2. ChainInv
  BY MembershipAssumption DEF MembershipInit, ChainInv, OneTransfer, Holds
<1>3. MembersWereInvited
  BY MembershipAssumption DEF MembershipInit, MembersWereInvited
<1> QED BY <1>1, <1>2, <1>3 DEF MemInv

\* Steps that leave founders, epochs and transfers alone keep the chain.
LEMMA ChainKept ==
    ASSUME ChainInv, UNCHANGED <<founder, epoch, transfers>>
    PROVE  ChainInv'
BY DEF ChainInv, Equivocated, OneTransfer, Holds

\* Only the declarer can sign an invitation.
LEMMA InvitationFields ==
    ASSUME NEW i \in Invitations
    PROVE  i \in Invitation /\ i.by = Declarer[i.tribe]
BY DEF Invitations

\* accept
LEMMA AcceptStep ==
    ASSUME MemInv, NEW r \in Replica, NEW i \in Invitations, NEW a \in Acceptances(i),
           Accept(r, i, a)
    PROVE  MemInv'
<1>1. MembershipTypeOK /\ MembersWereInvited
  BY DEF MemInv
<1>2. i \in Invitation /\ i.by = Declarer[i.tribe]
  BY InvitationFields
<1>3. a \in Acceptance
  BY <1>2 DEF Acceptances, Acceptance, Invitation
<1>4. MembershipTypeOK'
  <2>1. i.id \in InviteId /\ a.member \in Principal
    BY <1>2, <1>3 DEF Invitation, Acceptance
  <2>2. used' \in [Replica -> SUBSET InviteId] /\ members' \in [Replica -> SUBSET Principal]
    BY <1>1, <2>1 DEF MembershipTypeOK, Accept
  <2>3. invitations' \subseteq Invitation /\ acceptances' \subseteq Acceptance
    BY <1>1, <1>2, <1>3 DEF MembershipTypeOK, Accept
  <2> QED BY <1>1, <2>2, <2>3 DEF MembershipTypeOK, Accept
<1>5. ChainInv'
  BY ChainKept DEF MemInv, Accept
<1>6. MembersWereInvited'
  <2> SUFFICES ASSUME NEW s \in Replica
               PROVE  /\ founder'[s] \in members'[s]
                      /\ \A m \in members'[s] \ {Declarer[Follows[s]]} :
                            \E j \in invitations', b \in acceptances' :
                               /\ j.tribe = Follows[s] /\ j.by = Declarer[j.tribe]
                               /\ j.invitee = m /\ b.invite = j /\ b.member = m
                               /\ j.issued <= b.at /\ b.at < j.expires
    BY DEF MembersWereInvited
  <2>1. /\ members'[s] = IF s = r THEN members[s] \cup {a.member} ELSE members[s]
        /\ founder'[s] = founder[s]
        /\ invitations \subseteq invitations' /\ acceptances \subseteq acceptances'
        /\ i \in invitations' /\ a \in acceptances'
    BY <1>1 DEF MembershipTypeOK, Accept
  <2>2. founder'[s] \in members'[s]
    BY <1>1, <2>1 DEF MembersWereInvited
  <2>3. ASSUME NEW m \in members'[s] \ {Declarer[Follows[s]]}
        PROVE  \E j \in invitations', b \in acceptances' :
                  /\ j.tribe = Follows[s] /\ j.by = Declarer[j.tribe]
                  /\ j.invitee = m /\ b.invite = j /\ b.member = m
                  /\ j.issued <= b.at /\ b.at < j.expires
    <3>1. CASE m \in members[s]
      <4>1. PICK j \in invitations, b \in acceptances :
                  /\ j.tribe = Follows[s] /\ j.by = Declarer[j.tribe]
                  /\ j.invitee = m /\ b.invite = j /\ b.member = m
                  /\ j.issued <= b.at /\ b.at < j.expires
        BY <1>1, <2>3, <3>1 DEF MembersWereInvited
      <4> QED BY <2>1, <4>1
    <3>2. CASE m \notin members[s]
      <4>1. s = r /\ m = a.member
        BY <2>1, <2>3, <3>2
      <4>2. /\ i.tribe = Follows[s] /\ i.invitee = m /\ a.invite = i /\ a.member = m
            /\ i.issued <= a.at /\ a.at < i.expires
        BY <4>1 DEF Accept, Issuer, Binds
      <4> QED BY <1>2, <2>1, <4>2
    <3> QED BY <3>1, <3>2
  <2> QED BY <2>2, <2>3
<1> QED BY <1>4, <1>5, <1>6 DEF MemInv

\* change
LEMMA ChangeStep ==
    ASSUME MemInv, NEW r \in Replica, NEW c \in Changes, ApplyChange(r, c)
    PROVE  MemInv'
<1>1. MembershipTypeOK /\ MembersWereInvited
  BY DEF MemInv
<1>2. MembershipTypeOK'
  BY <1>1 DEF MembershipTypeOK, ApplyChange, artifacts
<1>3. ChainInv'
  BY ChainKept DEF MemInv, ApplyChange, artifacts
<1>4. MembersWereInvited'
  <2>1. \A s \in Replica :
           /\ members'[s] \subseteq members[s]
           /\ founder[s] \in members[s] => founder[s] \in members'[s]
    BY <1>1 DEF MembershipTypeOK, ApplyChange, Removable
  <2>2. UNCHANGED <<founder, invitations, acceptances>>
    BY DEF ApplyChange, artifacts
  <2> QED BY <1>1, <2>1, <2>2 DEF MembersWereInvited
<1> QED BY <1>2, <1>3, <1>4 DEF MemInv

\* transfer
LEMMA TransferStep ==
    ASSUME MemInv, NEW r \in Replica, NEW t \in FounderTransfer,
           NEW f \in FounderAcceptance(t), Transfer(r, t, f)
    PROVE  MemInv'
<1>1. MembershipTypeOK /\ ChainInv /\ MembersWereInvited
  BY DEF MemInv
<1>2. /\ t.tribe = Follows[r] /\ t.epoch = epoch[r] /\ t.by = founder[r]
      /\ f.by = t.to /\ f.by \in members[r] /\ epoch[r] < MaxEpoch
  BY DEF Transfer, Transferable, Succeeds
<1>3. /\ t.tribe \in Tribe /\ t.epoch \in Epochs /\ t.by \in Principal /\ t.to \in Principal
      /\ epoch[r] \in Nat
  BY <1>1 DEF FounderTransfer, MembershipTypeOK, Epochs
<1>4. \A s \in Replica : /\ founder'[s] = IF s = r THEN t.to ELSE founder[s]
                         /\ epoch'[s] = IF s = r THEN epoch[s] + 1 ELSE epoch[s]
  BY <1>1, <1>2 DEF MembershipTypeOK, Transfer
<1>5. transfers' = transfers \cup {t} /\ UNCHANGED <<members, invitations, acceptances>>
  BY DEF Transfer
<1>6. MembershipTypeOK'
  <2>1. epoch[r] + 1 \in Epochs
    BY <1>1, <1>2, MembershipAssumption DEF MembershipTypeOK, Epochs
  <2>2. founder' \in [Replica -> Principal] /\ epoch' \in [Replica -> Epochs]
    BY <1>1, <1>2, <1>3, <2>1 DEF MembershipTypeOK, Transfer
  <2> QED BY <1>1, <1>5, <2>2 DEF MembershipTypeOK, Transfer
<1>7. ChainInv'
  <2> SUFFICES ASSUME NEW T \in Tribe, ~Equivocated(T)'
               PROVE  /\ OneTransfer(T)'
                      /\ \A x \in transfers' : x.tribe = T => Holds(T, x.epoch, x.by)'
                      /\ \A s \in Replica : Follows[s] = T => Holds(T, epoch[s], founder[s])'
    BY DEF ChainInv
  <2>1. ~Equivocated(T)
    BY <1>5 DEF Equivocated
  <2>2. /\ OneTransfer(T)
        /\ \A x \in transfers : x.tribe = T => Holds(T, x.epoch, x.by)
        /\ \A s \in Replica : Follows[s] = T => Holds(T, epoch[s], founder[s])
    BY <1>1, <2>1 DEF ChainInv
  <2>3. ASSUME NEW e, NEW p, Holds(T, e, p)
        PROVE  \/ e = 1 /\ p = Declarer[T]
               \/ \E x \in transfers' : x.tribe = T /\ x.epoch = e - 1 /\ x.to = p
    BY <1>5, <2>3 DEF Holds
  <2>4. OneTransfer(T)'
    <3> SUFFICES ASSUME NEW x \in transfers', NEW y \in transfers',
                        x.tribe = T, y.tribe = T, x.epoch = y.epoch
                 PROVE  x.by = y.by /\ x.to = y.to
      BY DEF OneTransfer
    <3>1. ASSUME NEW z \in transfers, z.tribe = T, t.tribe = T, z.epoch = t.epoch
          PROVE  z.by = t.by
      <4>1. Holds(T, t.epoch, z.by) /\ Holds(T, t.epoch, t.by)
        BY <1>2, <2>2, <3>1
      <4>2. \A v \in transfers : v.epoch \in Nat /\ v.epoch >= 1
        BY <1>1 DEF MembershipTypeOK, FounderTransfer, Epochs
      <4> QED BY <1>3, <2>2, <4>1, <4>2 DEF Holds, OneTransfer, Epochs
    <3>2. x.by = y.by
      BY <1>5, <2>2, <3>1 DEF OneTransfer
    <3> QED BY <3>2 DEF Equivocated
  <2>5. ASSUME NEW x \in transfers', x.tribe = T
        PROVE  Holds(T, x.epoch, x.by)'
    <3>1. Holds(T, x.epoch, x.by)
      BY <1>2, <1>5, <2>2, <2>5
    <3> QED BY <2>3, <3>1 DEF Holds
  <2>6. ASSUME NEW s \in Replica, Follows[s] = T
        PROVE  Holds(T, epoch[s], founder[s])'
    <3>1. CASE s = r
      <4>1. t \in transfers' /\ t.tribe = T /\ t.epoch = epoch'[s] - 1 /\ t.to = founder'[s]
        BY <1>2, <1>3, <1>4, <1>5, <2>6, <3>1
      <4> QED BY <4>1 DEF Holds
    <3>2. CASE s # r
      <4>1. Holds(T, epoch[s], founder[s]) /\ epoch'[s] = epoch[s] /\ founder'[s] = founder[s]
        BY <1>4, <2>2, <2>6, <3>2
      <4> QED BY <2>3, <4>1 DEF Holds
    <3> QED BY <3>1, <3>2
  <2> QED BY <2>4, <2>5, <2>6
<1>8. MembersWereInvited'
  BY <1>1, <1>2, <1>4, <1>5 DEF MembersWereInvited
<1> QED BY <1>6, <1>7, <1>8 DEF MemInv

\* In every reachable state of every instance the artifacts and states are well
\* formed, the transfers of a tribe form one chain unless its founder
\* equivocated, and all members came by invitation.
THEOREM MembershipInvariance == MembershipSpec => []MemInv
<1>1. MemInv /\ [MembershipNext]_membershipVars => MemInv'
  <2> SUFFICES ASSUME MemInv, [MembershipNext]_membershipVars PROVE MemInv'
    OBVIOUS
  <2>1. CASE UNCHANGED membershipVars
    <3>1. MembershipTypeOK'
      BY <2>1 DEF MemInv, MembershipTypeOK, membershipVars, artifacts
    <3>2. ChainInv'
      BY <2>1, ChainKept DEF MemInv, membershipVars, artifacts
    <3>3. MembersWereInvited'
      BY <2>1 DEF MemInv, MembersWereInvited, membershipVars, artifacts
    <3> QED BY <3>1, <3>2, <3>3 DEF MemInv
  <2>2. CASE MembershipNext
    BY <2>2, AcceptStep, ChangeStep, TransferStep DEF MembershipNext
  <2> QED BY <2>1, <2>2
<1> QED BY InitMemInv, <1>1, PTL DEF MembershipSpec

\* However late, often or in whatever order MembershipState.transfer is given
\* its artifacts, two hosts that differ on the founder of an epoch hold proof
\* that a founder signed two transfers of one epoch.
THEOREM SplitProvesEquivocation == MembershipSpec => []SplitNeedsEquivocation
<1>1. MemInv => SplitNeedsEquivocation
  <2> SUFFICES ASSUME MemInv, NEW r \in Replica, NEW s \in Replica,
                      Follows[r] = Follows[s], epoch[r] = epoch[s], founder[r] # founder[s],
                      ~Equivocated(Follows[r])
               PROVE  FALSE
    BY DEF SplitNeedsEquivocation
  <2>1. Follows[r] \in Tribe
    BY MembershipAssumption
  <2>2. /\ OneTransfer(Follows[r])
        /\ Holds(Follows[r], epoch[r], founder[r]) /\ Holds(Follows[r], epoch[r], founder[s])
    BY <2>1 DEF MemInv, ChainInv
  <2>3. \A v \in transfers : v.epoch \in Nat /\ v.epoch >= 1
    BY DEF MemInv, MembershipTypeOK, FounderTransfer, Epochs
  <2>4. epoch[r] \in Nat
    BY DEF MemInv, MembershipTypeOK, Epochs
  <2> QED BY <2>2, <2>3, <2>4 DEF Holds, OneTransfer
<1> QED BY <1>1, MembershipInvariance, PTL

\* MembershipState never holds a member without an invitation of the declarer
\* to this tribe and an acceptance in its lifetime, and its founder is a member.
THEOREM MembershipByInvitation == MembershipSpec => []MembersWereInvited
<1>1. MemInv => MembersWereInvited
  BY DEF MemInv
<1> QED BY <1>1, MembershipInvariance, PTL

\* MembershipState.accept is the only way in, and it spends an invitation of
\* the host's founder epoch that this host has not used before.
THEOREM EntryByUnusedInvitation == MembershipSpec => EntrySpendsInvitation
<1> DEFINE Entry ==
        \A r \in Replica : \A m \in members'[r] \ members[r] :
            \E i \in invitations' :
                /\ i.invitee = m /\ i.epoch = epoch[r]
                /\ i.id \in used'[r] \ used[r]
<1>1. MemInv /\ [MembershipNext]_membershipVars => [Entry]_membershipVars
  <2> SUFFICES ASSUME MemInv, MembershipNext, NEW r \in Replica, NEW m \in members'[r] \ members[r]
               PROVE  \E i \in invitations' :
                         i.invitee = m /\ i.epoch = epoch[r] /\ i.id \in used'[r] \ used[r]
    OBVIOUS
  <2>1. MembershipTypeOK
    BY DEF MemInv
  <2>2. ASSUME NEW s \in Replica, NEW i \in Invitations, NEW a \in Acceptances(i),
               Accept(s, i, a)
        PROVE  /\ i \in invitations' /\ i.invitee = m /\ i.epoch = epoch[r]
               /\ i.id \in used'[r] \ used[r]
    <3>1. s = r /\ m = a.member
      BY <2>1, <2>2 DEF Accept, MembershipTypeOK
    <3>2. used'[r] = used[r] \cup {i.id}
      BY <2>1, <2>2, <3>1 DEF Accept, MembershipTypeOK
    <3> QED BY <2>2, <3>1, <3>2 DEF Accept, Issuer, Binds, Unused
  <2>3. ASSUME NEW s \in Replica, NEW c \in Changes, ApplyChange(s, c) PROVE FALSE
    BY <2>1, <2>3 DEF ApplyChange, MembershipTypeOK
  <2>4. ASSUME NEW s \in Replica, NEW t \in FounderTransfer, NEW f \in FounderAcceptance(t),
               Transfer(s, t, f)
        PROVE  FALSE
    BY <2>4 DEF Transfer
  <2> QED BY <2>2, <2>3, <2>4 DEF MembershipNext
<1> QED BY <1>1, MembershipInvariance, PTL DEF MembershipSpec, EntrySpendsInvitation
=============================================================================
