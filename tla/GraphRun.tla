------------------------------ MODULE GraphRun ------------------------------
(***************************************************************************)
(* The experiments run: a main thread builds its graph (GraphBuild),       *)
(* submits the nodes to a pool, waits for handles and reads what was       *)
(* recorded (GraphReport), while the workers run the wrapped jobs of       *)
(* TimedJobGraph (Day 19), TraceJobGraph (Day 20) and FailureCancelGraph   *)
(* (Day 27), packaged tasks (Day 4) or plain bodies.  The pool is          *)
(* JobOutcomes, which JobGraph implements, with no more bodies running     *)
(* than it has workers.                                                    *)
(***************************************************************************)
EXTENDS GraphBuild, GraphReport

CONSTANTS
  MaxNodes,    \* bound: nodes in a program
  Horizon,     \* bound: the last instant of the clock
  None         \* no exception, no report yet

Jobs == 1 .. MaxNodes

ASSUME RunAssumption ==
  /\ MaxNodes \in Nat /\ Horizon \in Nat /\ GraphStart <= Horizon
  /\ None \notin {"thrown", "canceled"}
  /\ \A p \in Programs : p.n \in Jobs /\ p.workers \in Nat \ {0}

(* What main calls itself: a job is submitted after the jobs whose handles *)
(* it is given, and Run submits for the graph classes.  Children are       *)
(* submitted alone.  A graph has no futures, Day 20's no policies.         *)
ASSUME CallsAssumption ==
  \A p \in Programs :
    /\ p.calls \in Seq(({"submit", "wait", "get"} \X (1 .. p.n)) \cup {<<"waitAll", 0>>})
    /\ \A k \in DOMAIN p.calls : p.calls[k][1] = "submit" =>
         /\ p.class = "ThreadPool"
         /\ \A i \in DOMAIN p.edges : p.edges[i][1] = p.calls[k][2] =>
              \E l \in 1 .. k - 1 : p.calls[l] = <<"submit", p.edges[i][2]>>
    /\ \A c \in p.children : /\ c[2] \notin p.successOnly
                             /\ \A i \in DOMAIN p.edges : p.edges[i][1] # c[2]
    /\ p.class \in {"TimedJobGraph", "TraceJobGraph", "FailureCancelGraph"} => p.futures = {}
    /\ p.class = "TraceJobGraph" => p.successOnly = {}

(* What main waits for before it destroys the pool: the wait of a handle,  *)
(* or WaitAll after the job was submitted.                                 *)
AwaitsHandle(p, j) == \E k \in DOMAIN p.calls : p.calls[k] = <<"wait", j>>
AwaitsAll(p, j) ==
  \E k \in DOMAIN p.calls :
    /\ p.calls[k] = <<"waitAll", 0>>
    /\ p.class = "ThreadPool" => \E l \in 1 .. k - 1 : p.calls[l] = <<"submit", j>>

(* A job whose completion main sees: itself, by its future, by a job that  *)
(* depends on it, or by the body that submitted it.                        *)
LookedAfter(p, j) ==
  \/ \E i \in DOMAIN p.edges : p.edges[i][2] = j
  \/ AwaitsHandle(p, j) \/ AwaitsAll(p, j)
  \/ j \in p.futures /\ \E k \in DOMAIN p.calls : p.calls[k] = <<"get", j>>
  \/ \E i \in 1 .. p.n :
       /\ <<i, j>> \in p.children /\ i \notin p.successOnly \cup p.futures
       /\ AwaitsAll(p, i) \/ (AwaitsHandle(p, i) /\ i \in p.waits \cup p.helps)

(* Every program looks after all its jobs, unless it runs none: it only    *)
(* validates, or Run refuses an edge from a node to itself.  Run of the    *)
(* classes with a report does it for the program.                          *)
ASSUME WaitsAssumption ==
  \A p \in Programs :
    \/ ~p.runs \/ \E i \in DOMAIN p.edges : p.edges[i][1] = p.edges[i][2]
    \/ p.class \in {"TimedJobGraph", "TraceJobGraph", "FailureCancelGraph"}
    \/ \A j \in 1 .. p.n : LookedAfter(p, j)

VARIABLES
  script,      \* what main still does with the pool
  phase, deps, successOnly, outcome, closed,   \* the pool, see JobOutcomes
  now,         \* Clock::now()
  helper,      \* the job in whose helping wait a job runs, or 0
  step,        \* how far the wrapped job of a node has come
  startedAt,   \* its local variable
  records,     \* state->records, the recorder's _records
  report       \* the copy of the records that Run returns or Export takes

Pool == INSTANCE JobOutcomes

poolVars   == <<phase, deps, successOnly, outcome, closed>>
recordVars == <<step, startedAt, records>>
vars == <<buildVars, script, poolVars, helper, now, recordVars, report>>

Recording == Class \in {"TimedJobGraph", "TraceJobGraph", "FailureCancelGraph"}

TypeOK ==
  /\ main \in {"declare", "collect", "search", "ordered", "run", "done", "refused", "threw"}
  /\ phase \in [Jobs -> {"new", "waiting", "queued", "running", "done"}]
  /\ outcome \in [Jobs -> {None, "thrown", "canceled"}]
  /\ now \in GraphStart .. Horizon
  /\ step \in [Nodes -> {"none", "entered", "body", "recorded"}]
  /\ records \in [Nodes -> [status : {"Pending", "Running", "Succeeded", "Failed", "Canceled"},
                            readyAt : 0 .. Horizon, startedAt : 0 .. Horizon,
                            finishedAt : 0 .. Horizon]]

RunInit ==
  /\ Init /\ Pool!Init
  /\ script = <<>>
  /\ helper = [j \in Jobs |-> 0]
  /\ now = GraphStart
  /\ step = [j \in Nodes |-> "none"]
  /\ startedAt = [j \in Nodes |-> 0]
  /\ records = [j \in Nodes |-> [status |-> "Pending", readyAt |-> 0, startedAt |-> 0, finishedAt |-> 0]]
  /\ report = None

-----------------------------------------------------------------------------
(* The main thread.  A call is a pair of an operation and a node.          *)

Calls(op, list) == [k \in DOMAIN list |-> <<op, list[k]>>]

(* Run of each class: submit in order; Day 19, 20 and 27 then wait for     *)
(* every handle and take the records.                                      *)
RunBuilder   == Calls("submit", order)
RunValidated == Calls("submit", order)
(* Bug: only the last node is waited for.                                  *)
RunTimedLast == Calls("submit", order) \o <<<<"reportTimed", Last(order)>>, <<"copy", 0>>>>

RunTimed     == Calls("submit", order) \o Calls("reportTimed", order) \o <<<<"copy", 0>>>>

RunTrace     == Calls("submit", order) \o Calls("wait", order) \o <<<<"copy", 0>>>>
RunFailure   == Calls("submit", order) \o Calls("reportFailure", order)
                  \o <<<<"waitAll", 0>>, <<"copy", 0>>>>

Run == CASE Class = "JobGraphBuilder"    -> RunBuilder
         [] Class = "ValidatedJobGraph"  -> RunValidated
         [] Class = "TimedJobGraph"      -> RunTimed
         [] Class = "TraceJobGraph"      -> RunTrace
         [] Class = "FailureCancelGraph" -> RunFailure
         [] OTHER                        -> <<>>

(* Bug: main leaves out its last wait.                                     *)
LastCallLeftOut == Run \o SubSeq(program.calls, 1, Len(program.calls) - 1)

(* What main does with the pool: Run, then the experiment's own calls.     *)
Full == Run \o program.calls

(* A program that only validates stops here; Run refuses an invalid graph. *)
BeginRun ==
  /\ main = "ordered"
  /\ \/ /\ ~program.runs
        /\ main' = "done"
        /\ UNCHANGED script
     \/ /\ program.runs /\ ~IsValid
        /\ main' = "threw"
        /\ UNCHANGED script
     \/ /\ program.runs /\ IsValid
        /\ main' = "run"
        /\ script' = Full
  /\ UNCHANGED <<program, dependencies, badEdges, searchVars, poolVars, helper, now, recordVars, report>>

Calling(op) == main = "run" /\ script # <<>> /\ Head(script)[1] = op /\ script' = Tail(script)
Argument == Head(script)[2]

(* Bug: every node is submitted under the completion policy.               *)
SubmitIgnoringPolicy ==
  /\ Calling("submit")
  /\ Pool!Submit(Argument, {d \in ToSet(dependencies[Argument]) : phase[d] # "new"}, FALSE)
  /\ UNCHANGED <<buildVars, helper, now, recordVars, report>>

(* An empty handle has no state to wait for: its dependency is dropped.  A *)
(* node left without dependencies is enqueued by the call.                 *)
SubmitNode ==
  /\ Calling("submit")
  /\ Pool!Submit(Argument, {d \in ToSet(dependencies[Argument]) : phase[d] # "new"},
                 Argument \in program.successOnly)
  /\ UNCHANGED <<buildVars, helper, now, recordVars, report>>

(* A rethrown exception is caught by every program.                        *)
Wait ==
  /\ Calling("wait")
  /\ phase[Argument] = "done"
  /\ UNCHANGED <<buildVars, poolVars, helper, now, recordVars, report>>

(* future.get: the future is ready before its job's handle is done.        *)
Get ==
  /\ Calling("get")
  /\ step[Argument] = "recorded"
  /\ UNCHANGED <<buildVars, poolVars, helper, now, recordVars, report>>

WaitAll ==
  /\ Calling("waitAll")
  /\ \A j \in Jobs : phase[j] \in {"new", "done"}
  /\ UNCHANGED <<buildVars, poolVars, helper, now, recordVars, report>>

(* Bug: the end of a canceled node is the end of its first dependency.     *)
FirstDependencyFinish(j) ==
  IF dependencies[j] = <<>> THEN GraphStart ELSE records[dependencies[j][1]].finishedAt

CanceledAt(j) == LatestDependencyFinish(records, dependencies[j])

(* Day 19: main records a cancellation if the job has recorded nothing.    *)
ReportTimed ==
  /\ Calling("reportTimed")
  /\ phase[Argument] = "done"
  /\ records' =
       IF outcome[Argument] = "canceled" /\ records[Argument].status = "Pending"
       THEN [records EXCEPT ![Argument].status = "Canceled",
                            ![Argument].readyAt = CanceledAt(Argument),
                            ![Argument].finishedAt = CanceledAt(Argument)]
       ELSE records
  /\ UNCHANGED <<buildVars, poolVars, helper, now, step, startedAt, report>>

(* Day 27: main records every cancellation.                                *)
ReportFailure ==
  /\ Calling("reportFailure")
  /\ phase[Argument] = "done"
  /\ records' =
       IF outcome[Argument] = "canceled"
       THEN [records EXCEPT ![Argument].status = "Canceled",
                            ![Argument].finishedAt = CanceledAt(Argument)]
       ELSE records
  /\ UNCHANGED <<buildVars, poolVars, helper, now, step, startedAt, report>>

CopyRecords ==
  /\ Calling("copy")
  /\ report' = records
  /\ UNCHANGED <<buildVars, poolVars, helper, now, recordVars>>

(* The end of the experiment: the destructor stops the pool.               *)
DestroyPool ==
  /\ main = "run" /\ script = <<>>
  /\ main' = "done"
  /\ Pool!Close
  /\ UNCHANGED <<program, dependencies, badEdges, searchVars, script, helper, now, recordVars, report>>

MainStep ==
  \/ (Build /\ UNCHANGED <<script, poolVars, helper, now, recordVars, report>>)
  \/ BeginRun \/ SubmitNode \/ Wait \/ Get \/ WaitAll \/ ReportTimed \/ ReportFailure \/ CopyRecords
  \/ DestroyPool

-----------------------------------------------------------------------------
(* The pool and its workers.                                               *)

Running == {j \in Jobs : phase[j] = "running"}

(* A continuation queues or cancels a job that waits no longer.            *)
Resolve(j) ==
  /\ Pool!Queue(j) \/ Pool!Cancel(j)
  /\ UNCHANGED <<buildVars, script, helper, now, recordVars, report>>

(* Jobs whose body calls WaitWithHelping, with a child that is not done    *)
(* and no other job running inside the call.                               *)
Inside(j) == {k \in Running : helper[k] = j}
Helping == {j \in Running \cap program.helps :
              /\ \A c \in Nodes : <<j, c>> \in program.children => phase[c] # "new"
              /\ \E c \in Nodes : <<j, c>> \in program.children /\ phase[c] # "done"
              /\ Inside(j) = {}}

CallJob(j, caller) ==
  /\ Pool!Start(j)
  /\ helper' = [helper EXCEPT ![j] = caller]
  /\ step' = [step EXCEPT ![j] = IF Class \in {"TimedJobGraph", "FailureCancelGraph"} THEN "entered"
                                 ELSE "body"]
  /\ startedAt' = [startedAt EXCEPT ![j] = IF Class \in {"TimedJobGraph", "TraceJobGraph"} THEN now ELSE 0]
  /\ UNCHANGED <<buildVars, script, now, records, report>>

FreeWorker == Cardinality(Inside(0)) < program.workers

(* Bug: a helping wait only waits.                                         *)
EnterJobIdle(j) == FreeWorker /\ CallJob(j, 0)

(* A worker, or a body in a helping wait, calls the wrapped job, which     *)
(* reads the clock first in Days 19 and 20.                                *)
EnterJob(j) == \/ FreeWorker /\ CallJob(j, 0)
               \/ \E caller \in Helping : CallJob(j, caller)

Record(j, from, to, record) ==
  /\ step[j] = from
  /\ step' = [step EXCEPT ![j] = to]
  /\ records' = [records EXCEPT ![j] = record]
  /\ UNCHANGED <<buildVars, script, poolVars, helper, now, startedAt, report>>

Ended(j) == IF j \in program.throws THEN "Failed" ELSE "Succeeded"

(* Bug: a node is ready when it is recorded, not when it could run.        *)
MeasuredNow(j) ==
  /\ Class = "TimedJobGraph"
  /\ Record(j, "entered", "body",
            [records[j] EXCEPT !.status = "Running", !.startedAt = startedAt[j], !.readyAt = now])

(* Day 19, measuredJob: first and last critical section.                   *)
MeasuredJobRuns(j) ==
  /\ Class = "TimedJobGraph"
  /\ Record(j, "entered", "body",
            [records[j] EXCEPT !.status = "Running", !.startedAt = startedAt[j],
                               !.readyAt = LatestDependencyFinish(records, dependencies[j])])

MeasuredJobEnds(j) ==
  /\ Class = "TimedJobGraph"
  /\ Record(j, "body", "recorded", [records[j] EXCEPT !.status = Ended(j), !.finishedAt = now])

(* Day 20, tracedJob: one critical section, some time after the body has   *)
(* ended and the clock was read.                                           *)
RecordExecution(j) ==
  /\ Class = "TraceJobGraph"
  /\ \E finishedAt \in startedAt[j] .. now :
       Record(j, "body", "recorded",
              [records[j] EXCEPT !.status = Ended(j), !.startedAt = startedAt[j],
                                 !.finishedAt = finishedAt])

(* Day 27, tracedJob: first and last critical section.                     *)
TracedJobRuns(j) ==
  /\ Class = "FailureCancelGraph"
  /\ Record(j, "entered", "body", [records[j] EXCEPT !.status = "Running", !.startedAt = now])

TracedJobEnds(j) ==
  /\ Class = "FailureCancelGraph"
  /\ Record(j, "body", "recorded", [records[j] EXCEPT !.status = Ended(j), !.finishedAt = now])

(* A body submits its children, without dependencies: each is in a queue   *)
(* when the body goes on.                                                  *)
SubmitChild(j, child) ==
  /\ <<j, child>> \in program.children
  /\ phase[j] = "running"
  /\ Pool!Submit(child, {}, FALSE)
  /\ UNCHANGED <<buildVars, script, helper, now, recordVars, report>>

(* A body ends when it has submitted its children and, if it calls Wait or *)
(* WaitWithHelping, when they are done and nothing runs inside the call.   *)
(* WaitForForDemo does not keep it: its deadline may pass at any time.     *)
BodyEnds(j) ==
  /\ Inside(j) = {}
  /\ \A c \in Nodes : <<j, c>> \in program.children =>
       /\ phase[c] # "new"
       /\ j \in program.waits \cup program.helps => phase[c] = "done"

(* A packaged_task leaves its result or its exception in the future.       *)
FulfilFuture(j) == j \in program.futures /\ Record(j, "body", "recorded", records[j])

Escaping == program.throws \ program.futures   \* bodies whose exception leaves the job

(* Bug: the handle completes before the job has left its record.           *)
LeaveJobEarly(j) ==
  /\ IF Recording \/ j \in program.futures THEN step[j] \in {"body", "recorded"} ELSE BodyEnds(j)
  /\ Pool!Finish(j, IF j \in Escaping THEN "thrown" ELSE None)
  /\ UNCHANGED <<buildVars, script, helper, now, recordVars, report>>

(* The wrapped job returns or throws, and the handle completes.            *)
LeaveJob(j) ==
  /\ IF Recording \/ j \in program.futures THEN step[j] = "recorded" ELSE BodyEnds(j)
  /\ Pool!Finish(j, IF j \in Escaping THEN "thrown" ELSE None)
  /\ UNCHANGED <<buildVars, script, helper, now, recordVars, report>>

JobStep(j) ==
  \/ Resolve(j) \/ EnterJob(j) \/ LeaveJob(j)
  \/ MeasuredJobRuns(j) \/ MeasuredJobEnds(j) \/ RecordExecution(j)
  \/ TracedJobRuns(j) \/ TracedJobEnds(j) \/ FulfilFuture(j)
  \/ \E child \in Nodes : SubmitChild(j, child)

Tick ==
  /\ main = "run" /\ Recording /\ report = None
  /\ now < Horizon
  /\ now' = now + 1
  /\ UNCHANGED <<buildVars, script, poolVars, helper, recordVars, report>>

Stopped == main \in {"done", "refused", "threw"} /\ \A j \in Jobs : phase[j] \in {"new", "done"}

Next ==
  \/ MainStep
  \/ \E j \in Nodes : JobStep(j)
  \/ Tick
  \/ Stopped /\ UNCHANGED vars

Spec == RunInit /\ [][Next]_vars

(* Main goes on when it can, a worker takes a queued job, a body ends.     *)
FairSpec == Spec /\ WF_vars(MainStep) /\ WF_vars(\E j \in Nodes : JobStep(j))

-----------------------------------------------------------------------------
(* Properties.                                                             *)

(* What the graph alone says of a node, whatever the interleaving.         *)
Expected ==
  LET E[j \in Nodes] ==
        IF j \in program.successOnly /\ \E d \in ToSet(dependencies[j]) : E[d] # None THEN "canceled"
        ELSE IF j \in Escaping THEN "thrown" ELSE None
  IN  E

(* Every job ends the way the graph determines: a failure reaches exactly  *)
(* the success-only nodes behind it, through canceled nodes too, and stops *)
(* at nodes with the completion policy (Days 11 to 13, 17, 19, 26, 27).    *)
OutcomesDetermined ==
  main = "done" =>
    LET expected == Expected IN \A j \in Nodes : phase[j] = "done" => outcome[j] = expected[j]

(* The records that Run returns are complete: every node has ended in the  *)
(* state its handle reports, and nothing is left pending or running.       *)
ReportAgrees ==
  report # None =>
    \A j \in Nodes :
      report[j].status = CASE outcome[j] = "thrown"   -> "Failed"
                           [] outcome[j] = "canceled" -> "Canceled"
                           [] outcome[j] = None       -> "Succeeded"

(* Nobody writes a record after the copy: the recorder of Day 20 is gone   *)
(* by then, the jobs of Days 19 and 27 would write what nobody reads.      *)
RecordsFrozen == [][report # None => UNCHANGED records]_vars

(* The intervals of a report are in order: a node waits, then runs, and    *)
(* runs after every node it depends on; the clamping of negative durations *)
(* to zero in the exports never hides anything.                            *)
IntervalsOrdered ==
  report # None =>
    /\ Class = "TimedJobGraph" =>
         \A row \in ToSet(PrintedTable(report, order)) : row.wait >= 0 /\ row.run >= 0
    /\ \A job \in ExportJobs(report, dependencies) :
         /\ job.ready + job.queue = job.start
         /\ job.start + job.run = report[job.node].finishedAt - GraphStart
    /\ \A flow \in ExportFlows(report, dependencies) : flow.leaves <= flow.arrives

(* A canceled node is dated at the end of the last job that had to end     *)
(* before its cancellation, through canceled dependencies too, and an      *)
(* arrow leads to it from one that ended then.                             *)
CancellationsDated ==
  report # None =>
    \A j \in Nodes : report[j].status = "Canceled" =>
      /\ report[j].finishedAt = Max({report[a].finishedAt : a \in {b \in Above(j) : Executed(report[b])}})
      /\ \E flow \in ExportCancelFlows(report, dependencies) : flow.to = j
      /\ \A flow \in ExportCancelFlows(report, dependencies) : flow.to = j => flow.leaves <= flow.arrives

(* The critical path is a path of succeeded nodes, as long as printed, and *)
(* no path of succeeded nodes is longer.                                   *)
Paths ==
  LET succeeded == {j \in Nodes : report[j].status = "Succeeded"}
      P[k \in 0 .. program.n] ==
        IF k = 0 THEN {<<>>}
        ELSE {Append(e[1], e[2]) :
                e \in {f \in P[k - 1] \X succeeded :
                         f[1] = <<>> \/ Last(f[1]) \in ToSet(dependencies[f[2]])}}
  IN  UNION {P[k] : k \in 0 .. program.n}

Length(path) == MapThenSumSet(LAMBDA k : RunTime(report[path[k]]), DOMAIN path)

CriticalPathIsLongest ==
  report # None /\ Class = "TimedJobGraph" =>
    LET found == CriticalPath(report, dependencies, order)
        paths == Paths
    IN  /\ found.path \in paths
        /\ Length(found.path) = found.duration
        /\ \A path \in paths : Length(path) <= found.duration

(* No experiment destroys its pool while a job still waits for its         *)
(* dependencies: what a stopped pool does to such a job is undefined.      *)
NothingWaitsAtDestruction == closed => \A j \in Jobs : phase[j] # "waiting"

(* The queue wait of a node is the time from when it could run (Day 19):   *)
(* it does not begin before the end of a job the node had to wait for.     *)
ReadyAfterAncestors ==
  report # None /\ Class = "TimedJobGraph" =>
    \A j \in Nodes : Executed(report[j]) =>
      \A a \in Above(j) : Executed(report[a]) => report[a].finishedAt <= report[j].readyAt

(* Every experiment comes to its end, also with all workers in bodies that *)
(* look after their children.                                              *)
MainEnds == <>Stopped

=============================================================================
