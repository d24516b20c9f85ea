----------------------------- MODULE MCService ------------------------------
(* Small instances of Service for TLC. *)
EXTENDS Service, TLC

CONSTANTS e1, k1, a

\* One envelope that lives for MaxTtl; its signing key is cut before that.
MCKeyOf == [e \in Envelope |-> k1]
MCTo == [e \in Envelope |-> <<a>>]
MCKeyStamp == [k \in Key |-> 0]
MCIssuedAt == [e \in Envelope |-> 0]
MCExpiresAt == [e \in Envelope |-> MaxTtl]
MCKeyNotAfter == [e \in Envelope |-> MaxTtl - 1]

Symmetry == Permutations(Request) \cup Permutations(Thread)
=============================================================================
