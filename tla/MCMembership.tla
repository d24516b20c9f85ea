---------------------------- MODULE MCMembership ----------------------------
(* Small instances of Membership for TLC. *)
EXTENDS Membership, TLC

CONSTANTS t1, f

MCDeclarer == [t \in Tribe |-> f]
MCFollows == [r \in Replica |-> t1]

Symmetry == Permutations(Replica) \cup Permutations(Principal \ {f}) \cup Permutations(InviteId)
=============================================================================
