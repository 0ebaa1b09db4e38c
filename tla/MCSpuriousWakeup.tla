-------------------------- MODULE MCSpuriousWakeup --------------------------
(* Constants of SpuriousWakeup for TLC.                                    *)
EXTENDS SpuriousWakeup
=============================================================================
