------------------------- MODULE MCWorkStealingPool -------------------------
(* Constants of WorkStealingPool for TLC.                                  *)
EXTENDS WorkStealingPool

CONSTANTS main, helper, a, b, c
=============================================================================
