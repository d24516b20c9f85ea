------------------------------ MODULE MCMirror ------------------------------
(* Small instances of Mirror for TLC. *)
EXTENDS Mirror, TLC

CONSTANTS e1, e2, e3, k1, a

\* e1 is posted in two parts; e2 and e3 are other bytes under the same key: e2
\* is too long and becomes one notice, e3 is for the policy to refuse.
MCKeyOf == [e \in Envelope |-> k1]
MCTo == [e \in Envelope |-> <<a>>]
MCKeyStamp == [k \in Key |-> 0]
MCIssuedAt == [e \in Envelope |-> 0]
MCExpiresAt == [e \in Envelope |-> MaxTtl]
MCKeyNotAfter == [e \in Envelope |-> MaxTime + 1]
MCChunks == [e \in Envelope |-> IF e = e2 THEN MaxMirrorParts + 1 ELSE 2]

Symmetry == Permutations(Worker)
=============================================================================
