---------------------------- MODULE MCLimitador ----------------------------
(* Two requests at a time with the same tenant, and an override for that   *)
(* tenant as RATE_LIMIT_OVERRIDES writes it, "1:1:1m".                     *)
EXTENDS Limitador

CONSTANTS p1, p2, e1, e2, e3

MCPedidos == {p1, p2}
MCEntradas == {e1, e2, e3}
MCChaves == {"tenant:1"}
MCSobrescritas == [t \in {"1"} |-> 1]
=============================================================================
