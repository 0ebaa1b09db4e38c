---------------------------- MODULE GraphReport ----------------------------
(***************************************************************************)
(* What the experiments compute from the records of a finished graph: the  *)
(* table and the critical path of Day 19, the trace events of Day 20 and   *)
(* Day 27.  Constant operators over the records; text, thread ids and the  *)
(* JSON around the events are left out.                                    *)
(***************************************************************************)
EXTENDS Integers, Sequences, FiniteSets, SequencesExt

GraphStart == 1      \* the clock when the graph starts; unset time points are 0

Executed(record) == record.status \in {"Succeeded", "Failed"}

RunTime(record) == record.finishedAt - record.startedAt

(* Bug: the latest end is looked for from time_point::min() on.            *)
LatestFromMin(records, list) == Max({-1} \cup {records[d].finishedAt : d \in ToSet(list)})

(* LatestDependencyFinish: a dependency without an end time counts as the  *)
(* start of the graph.                                                     *)
LatestDependencyFinish(records, list) ==
  Max({GraphStart} \cup {records[d].finishedAt : d \in ToSet(list)})

-----------------------------------------------------------------------------
(* GraphExecutionReport::Print: wait and run time of each node in          *)
(* submission order.                                                       *)
PrintedTable(records, order) ==
  [k \in DOMAIN order |->
     LET record == records[order[k]]
     IN  [node |-> order[k],
          wait |-> IF Executed(record) THEN record.startedAt - record.readyAt ELSE 0,
          run  |-> IF Executed(record) THEN RunTime(record) ELSE 0]]

(* Bug: the first dependency that succeeded is taken for the longest.      *)
FirstBefore(longest, list) ==
  LET measured == SelectSeq(list, LAMBDA d : longest[d] >= 0)
  IN  IF measured = <<>> THEN 0 ELSE measured[1]

(* The dependency the longest path to a node goes through: the first of    *)
(* those with the largest length, if that is above zero, or none (0).      *)
LongestBefore(longest, list) ==
  LET largest == Max({0} \cup {longest[d] : d \in ToSet(list)})
  IN  IF largest = 0 THEN 0 ELSE list[Min({k \in DOMAIN list : longest[list[k]] = largest})]

(* PrintCriticalPath: a succeeded node extends the longest path before it. *)
Extend(records, lists, found, id) ==
  IF records[id].status # "Succeeded" THEN found
  ELSE LET before == LongestBefore(found.longest, lists[id])
           length == (IF before = 0 THEN 0 ELSE found.longest[before]) + RunTime(records[id])
       IN  [longest  |-> [found.longest EXCEPT ![id] = length],
            previous |-> [found.previous EXCEPT ![id] = before],
            duration |-> IF length > found.duration THEN length ELSE found.duration,
            end      |-> IF length > found.duration THEN id ELSE found.end]

(* One pass over the nodes in topological order.                           *)
LongestPaths(records, lists, order) ==
  LET Found[k \in 0 .. Len(order)] ==
        IF k = 0 THEN [longest |-> [id \in DOMAIN records |-> -1],
                       previous |-> [id \in DOMAIN records |-> 0],
                       duration |-> -1, end |-> 0]
        ELSE Extend(records, lists, Found[k - 1], order[k])
  IN  Found[Len(order)]

(* Back from the end of the longest path, 0 from its beginning on.         *)
WalkBack(found, steps) ==
  LET Back[k \in 0 .. steps] ==
        IF k = 0 THEN found.end
        ELSE IF Back[k - 1] = 0 THEN 0 ELSE found.previous[Back[k - 1]]
  IN  Back

CriticalPath(records, lists, order) ==
  LET found == LongestPaths(records, lists, order)
      back  == WalkBack(found, Len(order))
      nodes == {k \in 0 .. Len(order) : back[k] # 0}
  IN  [path     |-> [k \in 1 .. Cardinality(nodes) |-> back[Cardinality(nodes) - k]],
       duration |-> Max({0, found.duration})]

-----------------------------------------------------------------------------
(* Trace events: time stamps and durations relative to the graph's start.  *)

Duration(from, to) == Max({0, to - from})

Arcs(lists) == {arc \in (DOMAIN lists) \X (DOMAIN lists) : arc[2] \in ToSet(lists[arc[1]])}

(* ChromeTraceRecorder::Export: queue wait and run of every executed node. *)
ExportJobs(records, lists) ==
  {LET ready == LatestDependencyFinish(records, lists[id])
   IN  [node  |-> id,
        ready |-> ready - GraphStart,
        queue |-> Duration(ready, records[id].startedAt),
        start |-> records[id].startedAt - GraphStart,
        run   |-> Duration(records[id].startedAt, records[id].finishedAt)] :
     id \in {j \in DOMAIN records : Executed(records[j])}}

(* Its flow arrows, from the end of a dependency to the start of a node.   *)
ExportFlows(records, lists) ==
  {[from |-> arc[2], to |-> arc[1],
    leaves |-> records[arc[2]].finishedAt, arrives |-> records[arc[1]].startedAt] :
     arc \in {e \in Arcs(lists) : Executed(records[e[1]]) /\ Executed(records[e[2]])}}

(* ExportChromeTrace of Day 27: a canceled node is an instant event with   *)
(* an arrow from each dependency that failed or was canceled itself.       *)
ExportCancelFlows(records, lists) ==
  {[from |-> arc[2], to |-> arc[1],
    leaves |-> records[arc[2]].finishedAt, arrives |-> records[arc[1]].finishedAt] :
     arc \in {e \in Arcs(lists) : /\ records[e[1]].status = "Canceled"
                                   /\ records[e[2]].status \in {"Failed", "Canceled"}}}

=============================================================================
