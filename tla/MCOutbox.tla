------------------------------ MODULE MCOutbox ------------------------------
(* Small instances of Outbox for TLC. *)
EXTENDS Outbox

CONSTANTS e1, e2

\* e2 has expired before it is sent.
MCTtl == [e \in Envelope |-> IF e = e1 THEN 1 ELSE 0]
=============================================================================
