---------------------------- MODULE MCUdhcpProto ----------------------------
(* Model-checking instance of UdhcpProto: two lease addresses and the      *)
(* reasons udhcpc passes to its script ("leasefail" standing for every     *)
(* reason the handler ignores).  The cfg files bound the client processes  *)
(* and the notifications in flight.                                        *)
EXTENDS UdhcpProto

CONSTANTS a1, a2

MCAddrs == {a1, a2}
MCScriptReasons == {"bound", "renew", "deconfig", "leasefail"}
MCLeaseReasons == {"bound", "renew"}
=============================================================================
