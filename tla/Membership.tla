----------------------------- MODULE Membership -----------------------------
(***************************************************************************)
(* Founded tribes (tribe_membership_v1.py): signed artifacts reach every   *)
(* host as encrypted messages, late, twice or in any order, and each host  *)
(* applies them to its own MembershipState.                                *)
(*                                                                         *)
(* The constructors read no state, so an artifact counts as signed when a  *)
(* first host applies it, and the times in it are whatever the signer's    *)
(* clock said.  verify is the signature of the principal the artifact      *)
(* names: every key record has an owner, and nobody signs for another.     *)
(***************************************************************************)
EXTENDS Integers, FiniteSets

CONSTANTS
    Principal,
    Tribe,          \* tribe_ref of the declarations
    Declarer,       \* tribe -> founder_principal_id of its declaration
    Replica,        \* hosts that keep a MembershipState
    Follows,        \* replica -> the tribe it was created for
    InviteId,       \* bound: invite_id (random) of the invitations
    MaxLife,        \* MAX_INVITATION_MS
    MaxStamp,       \* bound on what a clock says
    MaxEpoch        \* bound: founder epochs

ASSUME MembershipAssumption ==
    /\ Declarer \in [Tribe -> Principal]
    /\ Follows \in [Replica -> Tribe]
    /\ MaxLife \in Nat /\ MaxStamp \in Nat /\ MaxEpoch \in Nat \ {0}

VARIABLES
    founder,        \* replica -> founder_principal_id
    epoch,          \* replica -> founder_epoch
    members,        \* replica -> members
    used,           \* replica -> used_invites
    invitations,    \* the signed invitations
    acceptances,    \* the signed acceptances of invitations
    transfers       \* the signed founder transfers

artifacts == <<invitations, acceptances, transfers>>
membershipVars == <<founder, epoch, members, used, artifacts>>

Time == 0..MaxStamp
Epochs == 1..MaxEpoch

-----------------------------------------------------------------------------
(* The artifacts and who can sign which *)

Invitation == [id : InviteId, tribe : Tribe, epoch : Epochs, by : Principal,
               invitee : Principal, issued : Time, expires : 0..(MaxStamp + MaxLife)]

\* invitation: by the declaration's founder, at the declaration's epoch.  The
\* id is fresh.
Invitations ==
    {i \in Invitation :
        /\ i.by = Declarer[i.tribe] /\ i.epoch = 1
        /\ i.issued < i.expires /\ i.expires <= i.issued + MaxLife
        /\ \A j \in invitations : j.id = i.id => j = i}

\* invite is invitation_hash, which stands for the whole invitation
Acceptance == [invite : Invitation, member : Principal, at : Time]

\* acceptance
Acceptances(i) == {a \in [invite : {i}, member : {i.invitee}, at : Time] : a.at < i.expires}

Change == [tribe : Tribe, epoch : Epochs, action : {"leave", "expel"},
           member : Principal, actor : Principal]

\* membership_change: anyone may sign an expulsion, and a leave of itself
Changes == {c \in Change : c.action = "leave" => c.actor = c.member}

\* founder_transfer: anyone may sign one, for any epoch
FounderTransfer == [tribe : Tribe, epoch : Epochs, by : Principal, to : Principal, at : Time]

\* founder_acceptance of a transfer, by its successor
FounderAcceptance(t) == [by : {t.to}, next : {t.epoch + 1}, at : Time]

-----------------------------------------------------------------------------
(* MembershipState *)

\* Mutant: any invitation of the founder, whatever its epoch.
Issuer_AnyEpoch(r, i) == i.tribe = Follows[r] /\ i.by = Declarer[i.tribe]

\* "invitation from inactive founder"
Issuer(r, i) == i.tribe = Follows[r] /\ i.epoch = epoch[r] /\ i.by = founder[r]

Unused(r, i) == i.id \notin used[r]

\* The acceptance is the invitee's, of this invitation, in its lifetime.
Binds(i, a) == a.invite = i /\ a.member = i.invitee /\ i.issued <= a.at /\ a.at < i.expires

\* accept
Accept(r, i, a) ==
    /\ Issuer(r, i) /\ Binds(i, a) /\ Unused(r, i)
    /\ used' = [used EXCEPT ![r] = @ \cup {i.id}]
    /\ members' = [members EXCEPT ![r] = @ \cup {a.member}]
    /\ invitations' = invitations \cup {i}
    /\ acceptances' = acceptances \cup {a}
    /\ UNCHANGED <<founder, epoch, transfers>>

\* An expulsion by the founder or a leave, of anyone but the founder.
Removable(r, c) ==
    /\ c.action = "expel" => c.actor = founder[r]
    /\ c.action = "leave" => c.actor = c.member
    /\ c.member # founder[r]

\* change
ApplyChange(r, c) ==
    /\ c.tribe = Follows[r] /\ c.epoch = epoch[r]
    /\ Removable(r, c)
    /\ members' = [members EXCEPT ![r] = @ \ {c.member}]
    /\ UNCHANGED <<founder, epoch, used, artifacts>>

\* Mutant: anyone may hand over the tribe.
Transferable_ByAnyone(r, t) == t.tribe = Follows[r] /\ t.epoch = epoch[r]

\* "invalid founder transfer"
Transferable(r, t) == t.tribe = Follows[r] /\ t.epoch = epoch[r] /\ t.by = founder[r]

\* Mutant: the successor need not be a member.
Succeeds_Anyone(r, t, f) == f.next = epoch[r] + 1 /\ f.by = t.to /\ t.at <= f.at

\* The successor accepted this transfer and is still a member.
Succeeds(r, t, f) ==
    f.next = epoch[r] + 1 /\ f.by = t.to /\ f.by \in members[r] /\ t.at <= f.at

\* transfer
Transfer(r, t, f) ==
    /\ epoch[r] < MaxEpoch
    /\ Transferable(r, t) /\ Succeeds(r, t, f)
    /\ founder' = [founder EXCEPT ![r] = f.by]
    /\ epoch' = [epoch EXCEPT ![r] = @ + 1]
    /\ transfers' = transfers \cup {t}
    /\ UNCHANGED <<members, used, invitations, acceptances>>

MembershipInit ==
    /\ founder = [r \in Replica |-> Declarer[Follows[r]]]
    /\ epoch = [r \in Replica |-> 1]
    /\ members = [r \in Replica |-> {founder[r]}]
    /\ used = [r \in Replica |-> {}]
    /\ invitations = {} /\ acceptances = {} /\ transfers = {}

MembershipNext ==
    \E r \in Replica :
        \/ \E i \in Invitations : \E a \in Acceptances(i) : Accept(r, i, a)
        \/ \E c \in Changes : ApplyChange(r, c)
        \/ \E t \in FounderTransfer : \E f \in FounderAcceptance(t) : Transfer(r, t, f)

MembershipSpec == MembershipInit /\ [][MembershipNext]_membershipVars

-----------------------------------------------------------------------------
(* Properties *)

\* States and artifacts are well formed.
MembershipTypeOK ==
    /\ founder \in [Replica -> Principal]
    /\ epoch \in [Replica -> Epochs]
    /\ members \in [Replica -> SUBSET Principal]
    /\ used \in [Replica -> SUBSET InviteId]
    /\ invitations \subseteq Invitation
    /\ acceptances \subseteq Acceptance
    /\ transfers \subseteq FounderTransfer

\* The founder of the tribe signed two different transfers of one epoch.
Equivocated(t) ==
    \E x, y \in transfers :
        x.tribe = t /\ y.tribe = t /\ x.epoch = y.epoch /\ x.by = y.by /\ x.to # y.to

\* Two hosts name different founders for one epoch only if a founder signed
\* two transfers: late, repeated or reordered artifacts alone never split the
\* tribe, and a split leaves the evidence.
SplitNeedsEquivocation ==
    \A r, s \in Replica :
        Follows[r] = Follows[s] /\ epoch[r] = epoch[s] /\ founder[r] # founder[s]
          => Equivocated(Follows[r])

\* Everyone but the declarer is in the tribe because its declarer invited
\* him to this tribe and he accepted while the invitation stood.  The founder,
\* also one that took over, is one of them: no order of a leave, an expulsion
\* and a transfer leaves a tribe to someone outside it.
MembersWereInvited ==
    \A r \in Replica :
        /\ founder[r] \in members[r]
        /\ \A m \in members[r] \ {Declarer[Follows[r]]} :
              \E i \in invitations, a \in acceptances :
                  /\ i.tribe = Follows[r] /\ i.by = Declarer[i.tribe] /\ i.invitee = m
                  /\ a.invite = i /\ a.member = m
                  /\ i.issued <= a.at /\ a.at < i.expires

\* Who enters spends an invitation of his own that this host never saw used,
\* of the founder epoch the host is in: one that left or was expelled does not
\* come back with the old artifacts, and an invitation dies with its epoch.
\* (Invitations carry the declaration's epoch, so nobody enters after the
\* first transfer.)
EntrySpendsInvitation ==
    [][\A r \in Replica : \A m \in members'[r] \ members[r] :
          \E i \in invitations' :
              /\ i.invitee = m /\ i.epoch = epoch[r]
              /\ i.id \in used'[r] \ used[r]]_membershipVars
=============================================================================
