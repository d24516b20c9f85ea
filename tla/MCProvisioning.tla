--------------------------- MODULE MCProvisioning ---------------------------
(* Small instances of Provisioning for TLC. *)
EXTENDS Provisioning, TLC

CONSTANTS p1, p1b, p2, p2b, p3

\* A chain "d1", "d2", "d3" and a fork "d2b" of its second epoch.  p1 and p1b
\* carry the same directory with different environments, and an upgrade
\* from p1 to p2 changes the environment.
MCEpochOf == ("d1" :> 1) @@ ("d2" :> 2) @@ ("d2b" :> 2) @@ ("d3" :> 3)
MCPrevOf == ("d1" :> None) @@ ("d2" :> "d1") @@ ("d2b" :> "d1") @@ ("d3" :> "d2")
MCDir == [p \in Package |-> CASE p = p1 -> "d1" [] p = p1b -> "d1" [] p = p2 -> "d2"
                              [] p = p2b -> "d2b" [] p = p3 -> "d3"]
\* p2b comes with other governance roots.
MCRootsOf == [p \in Package |-> IF p = p2b THEN "r2" ELSE "r1"]
MCEnvOf == [p \in Package |-> IF p = p1 THEN "e1" ELSE "e2"]
MCUntilOf == [p \in Package |-> IF p = p1 THEN 1 ELSE 2]
=============================================================================
