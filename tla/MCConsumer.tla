----------------------------- MODULE MCConsumer -----------------------------
(* Small instances of Consumer for TLC. *)
EXTENDS Consumer, TLC

CONSTANTS e1, e2, e3, k1, k2, a

\* e1 and e3 are different bytes under one key; e3 travels another route.
MCKeyOf == [e \in Envelope |-> IF e = e2 THEN k2 ELSE k1]
MCTo == [e \in Envelope |-> <<a>>]
MCKeyStamp == [k \in Key |-> 0]
MCIssuedAt == [e \in Envelope |-> 0]
MCExpiresAt == [e \in Envelope |-> MaxTtl]
MCKeyNotAfter == [e \in Envelope |-> MaxTime + 1]

Symmetry == Permutations(Worker)
=============================================================================
