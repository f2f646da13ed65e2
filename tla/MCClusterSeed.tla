---------------------------- MODULE MCClusterSeed -----------------------------
(* ClusterSeed on a small instance. *)
EXTENDS ClusterSeed
=============================================================================
