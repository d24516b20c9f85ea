----------------------------- MODULE MCRotation -----------------------------
(* Small instances of Rotation for TLC. *)
EXTENDS Rotation, TLC

CONSTANTS ann, bob, grp

MCMembers == [x \in Group |-> Agent]

Window(x, n, status, until) == [pub |-> <<x, n>>, status |-> status, from |-> 0, until |-> until]

\* The first encryption key of an agent is retired, with the bytes of the second.
MCFirst ==
    [base |-> 0, issued |-> 0, expires |-> 5,
     keys |-> [x \in Owned |->
                 IF x[2] = "enc"
                 THEN <<Window(x[1], 0, "retired", 1), Window(x[1], 0, "active", IF x[1] = ann THEN 9 ELSE 1)>>
                 ELSE <<Window(x[1], 0, "active", 9)>>],
     groups |-> [x \in Group |-> <<"active">>]]

Symmetry == Permutations(Operator)
=============================================================================
