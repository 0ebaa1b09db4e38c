------------------------- MODULE MCTraceRingBuffer -------------------------
(* Constants of TraceRingBuffer for TLC.                                   *)
EXTENDS TraceRingBuffer

CONSTANTS a, b, c, d
=============================================================================
