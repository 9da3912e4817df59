----------------------------- MODULE MCInterval -----------------------------
(* A model-checking instance of the interval timer. *)
EXTENDS Interval
=============================================================================
