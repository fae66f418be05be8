----------------------------- MODULE MCCdpEvents -----------------------------
(* CdpEvents with a few waiters and a short ring.                          *)
EXTENDS CdpEvents, TLC

CONSTANTS w1, n1, s1, s2

\* Sessions are interchangeable.
Symmetry == Permutations(Sessions)
=============================================================================
