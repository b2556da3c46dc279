--------------------------- MODULE MCIscDhcpProto ---------------------------
(* Model-checking instance of IscDhcpProto for "dhcp" (IPv4): dhclient     *)
(* reports BOUND, RENEW, EXPIRE, and PREINIT standing for every reason     *)
(* the handler ignores.                                                    *)
EXTENDS IscDhcpProto

CONSTANTS a1, a2

MCAddrs == {a1, a2}
MCScriptReasons == {"BOUND", "RENEW", "EXPIRE", "PREINIT"}
MCLeaseReasons == {"BOUND", "RENEW"}
=============================================================================
