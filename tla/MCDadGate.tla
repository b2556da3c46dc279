----------------------------- MODULE MCDadGate -----------------------------
(* Model-checking instance of DadGate: PREINIT6 and one other reason;      *)
(* dad_wait_time values around the "timeout <= 0" test (the default of 5  *)
(* seconds is reached through absent or non-numeric strings).              *)
EXTENDS DadGate

MCReasons == {"PREINIT6", "BOUND6"}
MCDadWaitValues == {-1, 0, 1}
=============================================================================
