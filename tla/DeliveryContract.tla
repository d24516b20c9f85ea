-------------------------- MODULE DeliveryContract --------------------------
(***************************************************************************)
(* What the hub promises about a delivery, without leases, attempts or     *)
(* time: once admitted it is pending until the recipient acknowledges it   *)
(* or the hub gives up on it, that verdict is final, and a message is      *)
(* forgotten only as a whole and only when every recipient has a verdict.  *)
(***************************************************************************)
CONSTANTS Key, Agent

VARIABLE status     \* of each (key, recipient)

DeliveryId == Key \X Agent
Status == {"absent", "pending", "acknowledged", "dead_letter"}

Init == status = [d \in DeliveryId |-> "absent"]

\* All recipients of a message become pending in one step.
Admit(k, R) ==
    /\ \A r \in Agent : status[<<k, r>>] = "absent"
    /\ status' = [d \in DeliveryId |->
                    IF d[1] = k /\ d[2] \in R THEN "pending" ELSE status[d]]

\* The recipient's word settles one delivery.
Acknowledge(d) ==
    /\ status[d] = "pending"
    /\ status' = [status EXCEPT ![d] = "acknowledged"]

\* The hub gives up on some pending deliveries and forgets some messages that
\* already had a verdict for every recipient.
Housekeep(D, K) ==
    /\ \A d \in D : status[d] = "pending"
    /\ \A k \in K, r \in Agent : status[<<k, r>>] # "pending"
    /\ status' = [d \in DeliveryId |-> IF d[1] \in K THEN "absent"
                                       ELSE IF d \in D THEN "dead_letter"
                                       ELSE status[d]]

Next ==
    \/ \E k \in Key, R \in SUBSET Agent : Admit(k, R)
    \/ \E d \in DeliveryId : Acknowledge(d)
    \/ \E D \in SUBSET DeliveryId, K \in SUBSET Key : Housekeep(D, K)

Spec == Init /\ [][Next]_status
=============================================================================
