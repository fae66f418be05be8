------------------------------- MODULE MCCluster -------------------------------
(* Cluster on small pools.                                                 *)
EXTENDS Cluster

CONSTANTS w1, w2, t1, t2, t3, t4
=============================================================================
