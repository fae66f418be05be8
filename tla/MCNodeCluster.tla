---------------------------- MODULE MCNodeCluster ----------------------------
(* NodeCluster with two workers and more batches than workers.             *)
EXTENDS NodeCluster

CONSTANTS w1, w2, b1, b2, b3, x1, x2

\* One batch has nothing to run.
MCLength == [b \in Batches |-> IF b = b3 THEN 0 ELSE 2]
=============================================================================
