---------------------------- MODULE MCThreadPool ----------------------------
(* Instances of ThreadPool for TLC: the workloads the runs give to it.     *)
EXTENDS ThreadPool

CONSTANTS main, helper, a, b, c, d

(* Day 22: a client submits a, whose body submits b and c to the worker's  *)
(* local queue; another client submits d and may wait for b by helping.    *)
(* Day 8: both may block on the handle of a.                               *)
NestedSpawns == {<<main, a>>, <<a, b>>, <<a, c>>, <<helper, d>>}
NestedHelps  == {<<helper, b>>}
NestedBlocks == {<<main, a>>, <<helper, a>>}

(* Day 15: as many parents as workers, each waiting inside its body for a  *)
(* child it submitted.                                                     *)
ForkJoinSpawns == {<<main, a>>, <<main, b>>, <<a, c>>, <<b, d>>}
ForkJoinHelps  == {<<a, c>>, <<b, d>>}

NoCalls == {}
=============================================================================
