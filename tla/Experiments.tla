---------------------------- MODULE Experiments ----------------------------
(***************************************************************************)
(* The experiments of Days 3 to 5, 8 to 13, 15, 17 to 20, 22, 26, 27 and   *)
(* src/main.cpp as data for GraphRun: the jobs a program submits, what     *)
(* they depend on, which throw, and what main waits for.  Jobs are         *)
(* numbered in the order of submission or AddJob.  A loop over many equal  *)
(* jobs makes Parts of them.                                               *)
(***************************************************************************)
EXTENDS Integers, Sequences

CONSTANT Parts  \* bound: jobs of a loop that submits equal jobs

ASSUME PartsAssumption == Parts \in Nat \ {0}

Program(class, workers, n, edges, calls) ==
  [class |-> class, workers |-> workers, n |-> n, edges |-> edges, calls |-> calls, runs |-> TRUE,
   successOnly |-> {}, throws |-> {}, futures |-> {}, children |-> {}, waits |-> {}, helps |-> {}]

Submits(j, k) == [i \in 1 .. k - j + 1 |-> <<"submit", j + i - 1>>]
Gets(j, k)    == [i \in 1 .. k - j + 1 |-> <<"get", j + i - 1>>]
Waits(j, k)   == [i \in 1 .. k - j + 1 |-> <<"wait", j + i - 1>>]
FanIn(j, k)   == [i \in 1 .. k |-> <<j, i>>]     \* j depends on 1 .. k
Everything    == <<<<"waitAll", 0>>>>

Pooled(workers, n, edges, calls) == Program("ThreadPool", workers, n, edges, calls)

-----------------------------------------------------------------------------
(* Days 3 and 5 and src/main.cpp: a range in chunks, one job for each.     *)
(* The experiments of Days 4, 5, 8 and 9 share a pool, one after the       *)
(* other; each ends with its jobs done or about to be, and is taken alone. *)

MeasureThreadPool      == Pooled(2, Parts, <<>>, Submits(1, Parts) \o Everything)
RunThreadPool(workers) == Pooled(workers, Parts, <<>>, Submits(1, Parts) \o Everything)
ChunksEqualToThreads   == Pooled(2, 2, <<>>, Submits(1, 2) \o Everything)
MoreChunks             == Pooled(2, Parts, <<>>, Submits(1, Parts) \o Everything)

(* Day 4: SubmitWithFuture.  An exception goes into the job's future.      *)
FutureBasicUsage == [Pooled(2, 2, <<>>, Submits(1, 2) \o Gets(1, 2)) EXCEPT !.futures = {1, 2}]
MultipleFutures  ==
  [Pooled(2, 2 * Parts, <<>>, Submits(1, Parts) \o Everything
                                \o Submits(Parts + 1, 2 * Parts) \o Gets(Parts + 1, 2 * Parts))
    EXCEPT !.futures = Parts + 1 .. 2 * Parts]
ExceptionPropagation ==
  [Pooled(2, 3, <<>>, Submits(1, 1) \o Everything \o Submits(2, 3) \o Gets(2, 3))
    EXCEPT !.futures = {2, 3}, !.throws = {3}]
AsyncHeavyWork   == [Pooled(2, Parts, <<>>, Submits(1, Parts) \o Gets(1, Parts)) EXCEPT !.futures = 1 .. Parts]

-----------------------------------------------------------------------------
(* Days 8 and 9: handles.                                                  *)

BasicUsage     == Pooled(2, 1, <<>>, Submits(1, 1) \o Waits(1, 1))
SelectiveWait  == Pooled(2, 4, <<>>, Submits(1, 2) \o Everything \o Submits(3, 4)
                                       \o Waits(4, 4) \o Waits(3, 3))
IsDonePolling  == Pooled(2, 1, <<>>, Submits(1, 1) \o Waits(1, 1))
(* Two threads wait for the same job, main joins both.                     *)
HandleCopy     == Pooled(2, 1, <<>>, Submits(1, 1) \o Waits(1, 1) \o Waits(1, 1))
BackwardCompat == Pooled(2, Parts, <<>>, Submits(1, Parts) \o Everything)
HandleUsage    == Pooled(2, 3, <<>>, Submits(1, 3) \o Waits(3, 3) \o Waits(1, 2))
(* The second job is submitted when the first is done, by main.            *)
SimpleDependency == Pooled(2, 4, <<>>, Submits(1, 2) \o Waits(1, 2)
                                         \o Submits(3, 3) \o Waits(3, 3) \o Submits(4, 4) \o Waits(4, 4))
FanOutFanIn    == Pooled(2, Parts, <<>>, Submits(1, Parts) \o Waits(1, Parts))

(* Day 10: jobs 3 and 4 are the children of 1 and 2.  In the second        *)
(* experiment the parent calls Wait, in the third WaitForForDemo, in the   *)
(* fourth nothing.                                                         *)
MainThreadWait == Pooled(2, 1, <<>>, Submits(1, 1) \o Waits(1, 1))
WorkerWaitWithSpareThread ==
  [Pooled(2, 2, <<>>, Submits(1, 1) \o Waits(1, 1)) EXCEPT !.children = {<<1, 2>>}, !.waits = {1}]
SaturatedWorkerWait ==
  [Pooled(2, 4, <<>>, Submits(1, 2) \o Everything) EXCEPT !.children = {<<1, 3>>, <<2, 4>>}]
SubmitAndReturn ==
  [Pooled(2, 4, <<>>, Submits(1, 2) \o Everything) EXCEPT !.children = {<<1, 3>>, <<2, 4>>}]

(* Day 15: WaitForForDemo, then WaitWithHelping.                           *)
NormalWaitCanStarve ==
  [Pooled(2, 4, <<>>, Submits(1, 2) \o Everything) EXCEPT !.children = {<<1, 3>>, <<2, 4>>}]
HelpingWaitMakesProgress == [NormalWaitCanStarve EXCEPT !.helps = {1, 2}]
HelpingWaitRethrows ==
  [Pooled(2, 2, <<>>, Submits(1, 1) \o Waits(1, 1))
    EXCEPT !.children = {<<1, 2>>}, !.helps = {1}, !.throws = {2}]

-----------------------------------------------------------------------------
(* Days 11, 12 and 13: continuations and failure policy.                   *)

SingleDependency == Pooled(2, 2, <<<<2, 1>>>>, Submits(1, 2) \o Waits(2, 2))
FanInOfParts     == Pooled(4, Parts + 1, FanIn(Parts + 1, Parts),
                           Submits(1, Parts + 1) \o Waits(Parts + 1, Parts + 1))
SaturatedWorkersWithoutWait ==
  Pooled(2, 5, <<<<2, 1>>, <<4, 3>>, <<5, 2>>, <<5, 4>>>>, Submits(1, 5) \o Waits(5, 5))

WaitRethrows   == [Pooled(2, 1, <<>>, Submits(1, 1) \o Waits(1, 1)) EXCEPT !.throws = {1}]
WorkerSurvives == [Pooled(2, Parts + 1, <<>>, Submits(1, Parts + 1) \o Waits(2, Parts + 1) \o Waits(1, 1))
                    EXCEPT !.throws = {1}]
DependencyCompletionIsNotSuccess ==
  [Pooled(2, 2, <<<<2, 1>>>>, Submits(1, 2) \o Waits(2, 2) \o Waits(1, 1)) EXCEPT !.throws = {1}]

CompletionPolicy ==
  [Pooled(2, 2, <<<<2, 1>>>>, Submits(1, 2) \o Waits(2, 2) \o Waits(1, 1)) EXCEPT !.throws = {1}]
SuccessPolicyCancels ==
  [Pooled(2, 2, <<<<2, 1>>>>, Submits(1, 2) \o Waits(2, 2) \o Waits(1, 1))
    EXCEPT !.throws = {1}, !.successOnly = {2}]
FanInCancelOnAnyFailure ==
  [Pooled(4, 5, FanIn(5, 4), Submits(1, 5) \o Waits(5, 5) \o Waits(1, 4))
    EXCEPT !.throws = {3}, !.successOnly = {5}]

-----------------------------------------------------------------------------
(* Day 17.                                                                 *)

LinearPipeline == Program("JobGraphBuilder", 3, 3, <<<<2, 1>>, <<3, 2>>>>, Waits(3, 3))
BuilderFanIn   == Program("JobGraphBuilder", 4, Parts + 1, FanIn(Parts + 1, Parts),
                          Waits(Parts + 1, Parts + 1))
(* WaitAllHandles waits for each handle and prints its exception.          *)
WaitAllHandles(n) == Waits(1, n)
PerNodeFailurePolicy ==
  [Program("JobGraphBuilder", 3, 3, <<<<2, 1>>, <<3, 1>>>>, WaitAllHandles(3))
    EXCEPT !.throws = {1}, !.successOnly = {3}]

(* Day 18: declared in reverse, with structural errors, with a cycle that  *)
(* is only validated.  Numbers 8 and 9 stand for ids that do not exist.    *)
ValidGraphAndTopologicalOrder ==
  Program("ValidatedJobGraph", 3, 3, <<<<1, 2>>, <<2, 3>>>>, Waits(1, 1))
StructuralErrors ==
  Program("ValidatedJobGraph", 2, 2, <<<<1, 1>>, <<2, 1>>, <<2, 1>>, <<2, 9>>, <<8, 1>>>>, <<>>)
CycleDetection ==
  [Program("ValidatedJobGraph", 2, 3, <<<<1, 2>>, <<2, 3>>, <<3, 1>>>>, <<>>) EXCEPT !.runs = FALSE]

-----------------------------------------------------------------------------
(* Day 19.                                                                 *)

QueueWait == Program("TimedJobGraph", 2, Parts + 1, FanIn(Parts + 1, Parts), <<>>)

(* Load, Parse, then Shaders, Meshes and Audio, then Package and Upload.   *)
AssetEdges == <<<<2, 1>>, <<3, 2>>, <<4, 2>>, <<5, 2>>, <<6, 3>>, <<6, 4>>, <<6, 5>>, <<7, 6>>>>
CriticalPathGraph == Program("TimedJobGraph", 4, 7, AssetEdges, <<>>)
FailureStatus ==
  [Program("TimedJobGraph", 2, 3, <<<<2, 1>>, <<3, 1>>>>, <<>>) EXCEPT !.throws = {1}, !.successOnly = {3}]

(* Day 20: the same assets.                                                *)
AssetTrace == Program("TraceJobGraph", 3, 7, AssetEdges, <<>>)

(* Day 27: LoadInput, Decode (fails), Cleanup, BuildOutput, Publish.       *)
FailureTrace ==
  [Program("FailureCancelGraph", 3, 5, <<<<2, 1>>, <<3, 2>>, <<4, 2>>, <<5, 4>>>>, <<>>)
    EXCEPT !.throws = {2}, !.successOnly = {2, 4, 5}]

-----------------------------------------------------------------------------
(* Days 22 and 26: volume, nested submission, fan-in, failure policies.    *)

ExternalSubmit == Pooled(4, Parts, <<>>, Submits(1, Parts) \o Everything)
WorkerSubmit   == [Pooled(4, Parts + 1, <<>>, Submits(1, 1) \o Everything)
                    EXCEPT !.children = {<<1, k>> : k \in 2 .. Parts + 1}]
OverloadedLocalQueue == [Pooled(4, Parts + 1, <<>>, Submits(1, 1) \o Everything)
                          EXCEPT !.children = {<<1, k>> : k \in 2 .. Parts + 1}]
HighVolumeExternalSubmit == Pooled(8, Parts, <<>>, Submits(1, Parts) \o Everything)
NestedSubmitAndSteal ==
  [Pooled(4, 2 * Parts, <<>>, Submits(1, Parts) \o Everything)
    EXCEPT !.children = {<<k, Parts + k>> : k \in 1 .. Parts}]
HelpingWaitUnderSaturation ==
  [Pooled(2, 4, <<>>, Submits(1, 2) \o Everything)
    EXCEPT !.children = {<<1, 3>>, <<2, 4>>}, !.helps = {1, 2}]
RepeatedPoolLifecycle == Pooled(3, Parts, <<>>, Submits(1, Parts) \o Everything)
DependencyFanIn ==
  Pooled(6, Parts + 1, FanIn(Parts + 1, Parts),
         Submits(1, Parts + 1) \o Waits(Parts + 1, Parts + 1) \o Everything)
FailurePolicies ==
  [Pooled(3, 3, <<<<2, 1>>, <<3, 1>>>>, Submits(1, 3) \o Waits(1, 3) \o Everything)
    EXCEPT !.throws = {1}, !.successOnly = {3}]

=============================================================================
