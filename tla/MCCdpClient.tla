----------------------------- MODULE MCCdpClient -----------------------------
(* CdpClient on two calls.                                                  *)
EXTENDS CdpClient

CONSTANTS c1, c2
=============================================================================
