------------------------------ MODULE MCDriver ------------------------------
(* Model-checking instance of the driver. *)
EXTENDS Driver
=============================================================================
