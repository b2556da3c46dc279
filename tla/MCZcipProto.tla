---------------------------- MODULE MCZcipProto ----------------------------
(* Model-checking instance of ZcipProto: two link-local addresses and the  *)
(* reasons zcip passes to its script.                                      *)
EXTENDS ZcipProto

CONSTANTS a1, a2

MCAddrs == {a1, a2}
MCScriptReasons == {"init", "config", "deconfig"}
MCLeaseReasons == {"config"}
=============================================================================
