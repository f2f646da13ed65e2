-------------------------- MODULE MCServeDeployments --------------------------
(* Small instances of ServeDeployments for TLC. *)
EXTENDS ServeDeployments

CONSTANTS base, top, v1

MCRequires == [k \in Keys |-> IF k = top THEN <<base>> ELSE <<>>]
=============================================================================
