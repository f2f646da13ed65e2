-------------------------- MODULE MCJobsControlPlane --------------------------
(* Small instances of JobsControlPlane for TLC. *)
EXTENDS JobsControlPlane

CONSTANTS jOnce, jRetry, r1

MCRunOf == [j \in Jobs |-> r1]
=============================================================================
