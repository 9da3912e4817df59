------------------------------- MODULE MCWake -------------------------------
(* Model-checking instances of the wake protocol: MCWake.cfg, and           *)
(* MCWakeTeardown.cfg (a late write).                                       *)
EXTENDS Wake
=============================================================================
