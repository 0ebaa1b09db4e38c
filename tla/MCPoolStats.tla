---------------------------- MODULE MCPoolStats ----------------------------
(* Constants of PoolStats for TLC.                                         *)
EXTENDS PoolStats

CONSTANTS worker1, worker2, helper
=============================================================================
