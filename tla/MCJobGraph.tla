----------------------------- MODULE MCJobGraph -----------------------------
(* Instances of JobGraph for TLC: the graphs the runs submit.              *)
EXTENDS JobGraph

CONSTANTS main, worker1, worker2, a, b, c, d, e

(* Day 11 and 13: two roots, a fan-in that runs whatever happens, one that *)
(* needs success, and behind it a job given the same handle twice.         *)
FanInDeps == (a :> <<>>) @@ (b :> <<>>) @@ (c :> <<a, b>>) @@ (d :> <<b, a>>) @@ (e :> <<d, d>>)
=============================================================================
