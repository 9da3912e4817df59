----------------------------- MODULE MCReadDir -----------------------------
(* A model-checking instance of the directory listings. *)
EXTENDS ReadDir
=============================================================================
