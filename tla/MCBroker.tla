------------------------------ MODULE MCBroker ------------------------------
(* Small instances of Broker for TLC. *)
EXTENDS Broker

CONSTANTS e1, e2, e3, k1, k2, a, b

\* e1 and e2 are different bytes under one key; e3 goes to two recipients.
MCKeyOf == [e \in Envelope |-> IF e = e3 THEN k2 ELSE k1]
MCTo == [e \in Envelope |-> IF e = e3 THEN <<a, b>> ELSE <<a>>]
MCIssuedAt == [e \in Envelope |-> IF e = e2 THEN 1 ELSE 0]
MCExpiresAt == [e \in Envelope |-> IF e = e3 THEN 4 ELSE 3]
MCKeyStamp == [k \in Key |-> 0]
MCKeyNotAfter == [e \in Envelope |-> IF e = e1 THEN 2 ELSE 9]
=============================================================================
