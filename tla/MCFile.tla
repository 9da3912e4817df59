------------------------------- MODULE MCFile -------------------------------
(* A model-checking instance of the files. *)
EXTENDS File
=============================================================================
