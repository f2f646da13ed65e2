----------------------------- MODULE MCJobOutputs -----------------------------
(* A small instance of JobOutputs for TLC. *)
EXTENDS JobOutputs
=============================================================================
