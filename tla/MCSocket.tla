------------------------------ MODULE MCSocket ------------------------------
(* Model-checking instance of the sockets. *)
EXTENDS Socket
=============================================================================
