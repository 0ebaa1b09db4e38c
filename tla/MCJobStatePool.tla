--------------------------- MODULE MCJobStatePool ---------------------------
(* Constants of JobStatePool for TLC.                                      *)
EXTENDS JobStatePool

CONSTANTS thread1, thread2, x, y, z
=============================================================================
