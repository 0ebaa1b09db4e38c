----------------------------- MODULE MCGraphRun -----------------------------
(* Instances of GraphRun for TLC: the experiments, and graphs that clients *)
(* of the same classes may declare.                                        *)
EXTENDS GraphRun, Experiments

AllExperiments ==
  {MeasureThreadPool, RunThreadPool(2), RunThreadPool(4), ChunksEqualToThreads, MoreChunks,
   FutureBasicUsage, MultipleFutures, ExceptionPropagation, AsyncHeavyWork,
   BasicUsage, SelectiveWait, IsDonePolling, HandleCopy, BackwardCompat, HandleUsage, SimpleDependency, FanOutFanIn,
   MainThreadWait, WorkerWaitWithSpareThread, SaturatedWorkerWait, SubmitAndReturn,
   NormalWaitCanStarve, HelpingWaitMakesProgress, HelpingWaitRethrows,
   SingleDependency, FanInOfParts, SaturatedWorkersWithoutWait,
   WaitRethrows, WorkerSurvives, DependencyCompletionIsNotSuccess,
   CompletionPolicy, SuccessPolicyCancels, FanInCancelOnAnyFailure,
   LinearPipeline, BuilderFanIn, PerNodeFailurePolicy,
   ValidGraphAndTopologicalOrder, StructuralErrors, CycleDetection,
   QueueWait, CriticalPathGraph, FailureStatus, AssetTrace, FailureTrace,
   ExternalSubmit, WorkerSubmit, OverloadedLocalQueue,
   HighVolumeExternalSubmit, NestedSubmitAndSteal, HelpingWaitUnderSaturation,
   RepeatedPoolLifecycle, DependencyFanIn, FailurePolicies}

(* Every list of at most three edges over three nodes and one number that  *)
(* names no node, declared to the two classes that search for an order.    *)
AnyEdges == UNION {[1 .. k -> (1 .. 4) \X (1 .. 4)] : k \in 0 .. 3}
Searches == {[Program(class, 1, 3, edges, <<>>) EXCEPT !.runs = FALSE] :
               class \in {"ValidatedJobGraph", "TimedJobGraph"}, edges \in AnyEdges}

(* A cancellation that reaches a completion-policy node through another    *)
(* canceled node: 1 fails, 3 and 4 are canceled, 5 runs.                   *)
CanceledChain(class) ==
  [Program(class, 2, 5, <<<<3, 2>>, <<3, 1>>, <<4, 3>>, <<5, 4>>>>, <<>>)
    EXCEPT !.throws = {1}, !.successOnly = {3, 4}]

GraphPrograms == AllExperiments \cup Searches
                   \cup {CanceledChain("TimedJobGraph"), CanceledChain("FailureCancelGraph")}

ReadyPrograms == {CanceledChain("TimedJobGraph")}
=============================================================================
