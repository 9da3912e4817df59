----------------------------- MODULE MCRuntime -----------------------------
(* A model-checking instance of the runtime's worker list. *)
EXTENDS Runtime
=============================================================================
