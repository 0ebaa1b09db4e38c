----------------------------- MODULE ThreadPool -----------------------------
(***************************************************************************)
(* The scheduling core of src/ThreadPool.cpp: the global queue, one local  *)
(* queue per worker, worker wake-up, work stealing, the pending counter    *)
(* with WaitAll, WaitWithHelping and the destructor.                       *)
(*                                                                         *)
(* A step is one critical section, one atomic access or one notification.  *)
(* A mutex is a variable only where a thread keeps it from one step to the *)
(* next: between evaluating a condition variable's predicate and blocking. *)
(* The closures are opaque here: what a body submits and waits for is the  *)
(* workload, given by three constant relations.                            *)
(***************************************************************************)
EXTENDS Integers, Sequences, FiniteSets, SequencesExt

CONSTANTS
  ThreadCount,   \* number of workers, the constructor's argument
  Clients,       \* threads outside the pool that call its public functions
  Owner,         \* the client that owns the pool and runs its destructor
  Jobs,          \* jobs that may be submitted, each at most once
  Spawns,        \* <<f, j>>: frame f may submit job j
  HelpWaits,     \* <<f, j>>: frame f may call WaitWithHelping on j's handle
  BlockWaits,    \* <<f, j>>: frame f may call JobHandle::Wait on j's handle
  None           \* no job; no thread

Workers == 0 .. ThreadCount - 1
Threads == Workers \cup Clients

(* Code runs in frames: the base frame of a thread, or the frame of a job. *)
Frames  == Threads \cup Jobs

ASSUME PoolAssumption ==
  /\ ThreadCount \in Nat \ {0}
  /\ Owner \in Clients
  /\ Workers \cap Clients = {}
  /\ Threads \cap Jobs = {}
  /\ None \notin Frames
  /\ Spawns     \subseteq (Clients \cup Jobs) \X Jobs
  /\ HelpWaits  \subseteq (Clients \cup Jobs) \X Jobs
  /\ BlockWaits \subseteq (Clients \cup Jobs) \X Jobs

VARIABLES
  jobQueue,        \* _jobQueue
  localQueues,     \* _localQueues[w]->jobs
  stop,            \* _stop
  pendingJobs,     \* _pendingJobs
  submitted,       \* jobs whose JobState exists
  done,            \* jobs whose JobState::done is set
  stack,           \* jobs whose ExecuteJob is on the thread's call stack, innermost first
  target,          \* handle a frame waits for, or None
  scan,            \* loop variable of TrySteal and TryStealAny
  queueMutex,      \* thread that blocks on _workerCv next and still holds _queueMutex
  completionMutex, \* thread that blocks on _completionCv next and still holds _completionMutex
  pc               \* what the thread does next

queueVars == <<jobQueue, localQueues>>
jobVars   == <<submitted, done, pendingJobs>>
mutexVars == <<queueMutex, completionMutex>>
vars == <<queueVars, jobVars, mutexVars, stop, stack, target, scan, pc>>

(* Where a thread can be.  "loop" ... "exited" are WorkerLoop's, "idle" ... *)
(* "gone" a client's, and the others belong to whichever thread gets there. *)
WorkerPc == {"loop", "park", "asleep", "local", "exited"}
ClientPc == {"idle", "decided", "waiting", "recheck", "stopping", "joining", "gone"}
SharedPc == {"global", "steal", "body", "cont", "notify", "signal", "help", "wait"}

PcOK ==
  /\ pc \in [Threads -> WorkerPc \cup ClientPc \cup SharedPc]
  /\ \A w \in Workers : pc[w] \notin ClientPc
  /\ \A c \in Clients : pc[c] \notin WorkerPc

TypeOK ==
  /\ jobQueue \in Seq(Jobs)
  /\ localQueues \in [Workers -> Seq(Jobs)]
  /\ stop \in BOOLEAN
  /\ pendingJobs \in Int
  /\ submitted \in SUBSET Jobs
  /\ done \in SUBSET Jobs
  /\ stack \in [Threads -> Seq(Jobs)]
  /\ target \in [Frames -> Jobs \cup {None}]
  /\ scan \in [Threads -> 0 .. ThreadCount]
  /\ queueMutex \in Workers \cup {None}
  /\ completionMutex \in Clients \cup {None}
  /\ PcOK

Init ==
  /\ jobQueue = <<>>
  /\ localQueues = [w \in Workers |-> <<>>]
  /\ stop = FALSE
  /\ pendingJobs = 0
  /\ submitted = {}
  /\ done = {}
  /\ stack = [t \in Threads |-> <<>>]
  /\ target = [f \in Frames |-> None]
  /\ scan = [t \in Threads |-> 0]
  /\ queueMutex = None
  /\ completionMutex = None
  /\ pc = [t \in Threads |-> IF t \in Workers THEN "loop" ELSE "idle"]

-----------------------------------------------------------------------------
(* The frame a thread executes in, and the step it returns to there.       *)

Frame(t) == IF stack[t] = <<>> THEN t ELSE Head(stack[t])

InBody(t) == IF stack[t] = <<>> THEN pc[t] = "idle" ELSE pc[t] = "body"

ResumePc(t) == IF stack[t] = <<>> THEN "idle"
               ELSE IF Head(stack[t]) \in done THEN "cont" ELSE "body"

(* TryExecuteOneJob is called from WorkerLoop with the worker's index and  *)
(* from WaitWithHelping with a null index; it returns to its caller.       *)
IsHelper(t, frames) == t \in Clients \/ frames # <<>>

CallerPcLoop(t, frames) == "loop"   \* bug: a helper goes on as a worker

CallerPc(t, frames) == IF IsHelper(t, frames) THEN "help" ELSE "loop"

Goto(t, to) == pc' = [pc EXCEPT ![t] = to]

(* notify_all on _workerCv, by thread t which continues at "to".           *)
WakeWorkers(t, to) ==
  pc' = [x \in Threads |-> IF x = t THEN to
                           ELSE IF pc[x] = "asleep" THEN "loop" ELSE pc[x]]

HasAnyLocalJob == \E w \in Workers : localQueues[w] # <<>>

-----------------------------------------------------------------------------
(* Submission.  A stopped pool throws and submits nothing.                 *)

EnqueueWithState(t, j) ==
  /\ InBody(t) \/ pc[t] = "cont"
  /\ <<Frame(t), j>> \in Spawns
  /\ j \notin submitted
  /\ queueMutex = None
  /\ ~stop
  /\ submitted' = submitted \cup {j}
  /\ pendingJobs' = pendingJobs + 1
  /\ IF t \in Workers
     THEN /\ localQueues' = [localQueues EXCEPT ![t] = Append(@, j)]
          /\ UNCHANGED jobQueue
     ELSE /\ jobQueue' = Append(jobQueue, j)
          /\ UNCHANGED localQueues
  /\ Goto(t, "notify")
  /\ UNCHANGED <<done, mutexVars, stop, stack, target, scan>>

NotifyWorkers(t) ==
  /\ pc[t] = "notify"
  /\ WakeWorkers(t, ResumePc(t))
  /\ UNCHANGED <<queueVars, jobVars, mutexVars, stop, stack, target, scan>>

-----------------------------------------------------------------------------
(* WorkerLoop.                                                             *)

(* Bug: a stopped worker exits and leaves what is queued.                  *)
WorkerCheckStopFirst(w) ==
  /\ pc[w] = "loop"
  /\ queueMutex = None
  /\ Goto(w, IF stop THEN "exited" ELSE IF jobQueue # <<>> \/ HasAnyLocalJob THEN "local" ELSE "park")
  /\ queueMutex' = IF pc'[w] = "park" THEN w ELSE None
  /\ UNCHANGED <<queueVars, jobVars, completionMutex, stop, stack, target, scan>>

(* Lock _queueMutex and evaluate the predicate of the wait, then the exit  *)
(* test.  No queue grows while the mutex is held, so one state decides.    *)
WorkerCheck(w) ==
  /\ pc[w] = "loop"
  /\ queueMutex = None
  /\ \/ /\ jobQueue # <<>> \/ HasAnyLocalJob
        /\ Goto(w, "local")
        /\ UNCHANGED queueMutex
     \/ /\ jobQueue = <<>> /\ ~HasAnyLocalJob /\ stop
        /\ Goto(w, "exited")
        /\ UNCHANGED queueMutex
     \/ /\ jobQueue = <<>> /\ ~HasAnyLocalJob /\ ~stop
        /\ Goto(w, "park")
        /\ queueMutex' = w
  /\ UNCHANGED <<queueVars, jobVars, completionMutex, stop, stack, target, scan>>

(* _workerCv.wait blocks and releases the mutex.                           *)
WorkerSleep(w) ==
  /\ pc[w] = "park"
  /\ Goto(w, "asleep")
  /\ queueMutex' = None
  /\ UNCHANGED <<queueVars, jobVars, completionMutex, stop, stack, target, scan>>

-----------------------------------------------------------------------------
(* TryExecuteOneJob: a worker looks in its local queue, in the global one, *)
(* then in the other local queues; a helper skips the first.               *)

StartJob(t, j) ==
  /\ stack' = [stack EXCEPT ![t] = <<j>> \o @]
  /\ Goto(t, "body")

TryPopLocal(w) ==
  /\ pc[w] = "local"
  /\ \/ /\ localQueues[w] # <<>>
        /\ StartJob(w, Last(localQueues[w]))
        /\ localQueues' = [localQueues EXCEPT ![w] = Front(@)]
     \/ /\ localQueues[w] = <<>>
        /\ Goto(w, "global")
        /\ UNCHANGED <<localQueues, stack>>
  /\ UNCHANGED <<jobQueue, jobVars, mutexVars, stop, target, scan>>

FirstScan(t) == IF IsHelper(t, stack[t]) THEN 0 ELSE 1

TryPopGlobal(t) ==
  /\ pc[t] = "global"
  /\ queueMutex = None
  /\ \/ /\ jobQueue # <<>>
        /\ StartJob(t, Head(jobQueue))
        /\ jobQueue' = Tail(jobQueue)
        /\ UNCHANGED scan
     \/ /\ jobQueue = <<>>
        /\ Goto(t, "steal")
        /\ scan' = [scan EXCEPT ![t] = FirstScan(t)]
        /\ UNCHANGED <<jobQueue, stack>>
  /\ UNCHANGED <<localQueues, jobVars, mutexVars, stop, target>>

(* The queue that the scan looks at: TryStealAny starts at worker 0,       *)
(* TrySteal at the worker after the thief.                                 *)
Victim(t) == IF IsHelper(t, stack[t]) THEN scan[t] ELSE (t + scan[t]) % ThreadCount

(* Bug: moves from the front, pops at the back.                            *)
TryStealPopBack(t) ==
  /\ pc[t] = "steal"
  /\ scan[t] < ThreadCount
  /\ localQueues[Victim(t)] # <<>>
  /\ StartJob(t, Head(localQueues[Victim(t)]))
  /\ localQueues' = [localQueues EXCEPT ![Victim(t)] = Front(@)]
  /\ UNCHANGED <<jobQueue, jobVars, mutexVars, stop, target, scan>>

TrySteal(t) ==
  /\ pc[t] = "steal"
  /\ \/ /\ scan[t] < ThreadCount
        /\ localQueues[Victim(t)] # <<>>
        /\ StartJob(t, Head(localQueues[Victim(t)]))
        /\ localQueues' = [localQueues EXCEPT ![Victim(t)] = Tail(@)]
        /\ UNCHANGED scan
     \/ /\ scan[t] < ThreadCount
        /\ localQueues[Victim(t)] = <<>>
        /\ scan' = [scan EXCEPT ![t] = @ + 1]
        /\ UNCHANGED <<localQueues, stack, pc>>
     \/ /\ scan[t] >= ThreadCount
        /\ Goto(t, CallerPc(t, stack[t]))
        /\ scan' = [scan EXCEPT ![t] = 0]
        /\ UNCHANGED <<localQueues, stack>>
  /\ UNCHANGED <<jobQueue, jobVars, mutexVars, stop, target>>

-----------------------------------------------------------------------------
(* The wrapped job and ExecuteJob.                                         *)

(* The body returns or throws; CompleteJobState sets done either way.  The *)
(* continuations it then runs can only submit jobs: pc "cont".             *)
CompleteJobState(t) ==
  /\ pc[t] = "body"
  /\ done' = done \cup {Head(stack[t])}
  /\ Goto(t, "cont")
  /\ UNCHANGED <<queueVars, submitted, pendingJobs, mutexVars, stop, stack, target, scan>>

(* Bug: a helper leaves the counter alone, as it does the statistics.      *)
ExecuteJobEndWorkersOnly(t) ==
  /\ pc[t] = "cont"
  /\ stack' = [stack EXCEPT ![t] = Tail(@)]
  /\ pendingJobs' = IF IsHelper(t, Tail(stack[t])) THEN pendingJobs ELSE pendingJobs - 1
  /\ Goto(t, IF pendingJobs' = 0 THEN "signal" ELSE CallerPc(t, Tail(stack[t])))
  /\ UNCHANGED <<queueVars, submitted, done, mutexVars, stop, target, scan>>

(* fetch_sub on _pendingJobs; the last job signals the waiters.            *)
ExecuteJobEnd(t) ==
  /\ pc[t] = "cont"
  /\ pendingJobs' = pendingJobs - 1
  /\ stack' = [stack EXCEPT ![t] = Tail(@)]
  /\ Goto(t, IF pendingJobs' = 0 THEN "signal" ELSE CallerPc(t, Tail(stack[t])))
  /\ UNCHANGED <<queueVars, submitted, done, mutexVars, stop, target, scan>>

WakeWaiters(t) ==
  /\ pc[t] = "signal"
  /\ pc' = [x \in Threads |-> IF x = t THEN CallerPc(t, stack[t])
                              ELSE IF pc[x] = "waiting" THEN "recheck" ELSE pc[x]]
  /\ UNCHANGED <<queueVars, jobVars, mutexVars, stop, stack, target, scan>>

SignalUnlocked(t) == WakeWaiters(t)   \* bug: notify_all without _completionMutex

SignalCompletion(t) == completionMutex = None /\ WakeWaiters(t)

-----------------------------------------------------------------------------
(* Waiting for a handle, by a client or inside a job.                      *)

WaitWithHelping(t, j) ==
  /\ InBody(t)
  /\ <<Frame(t), j>> \in HelpWaits
  /\ j \in submitted \ done
  /\ t \in Clients => ~stop
  /\ target' = [target EXCEPT ![Frame(t)] = j]
  /\ Goto(t, "help")
  /\ UNCHANGED <<queueVars, jobVars, mutexVars, stop, stack, scan>>

(* Bug: the helper only yields.                                            *)
HelpCheckIdle(t) ==
  /\ pc[t] = "help"
  /\ target[Frame(t)] \in done
  /\ target' = [target EXCEPT ![Frame(t)] = None]
  /\ Goto(t, ResumePc(t))
  /\ UNCHANGED <<queueVars, jobVars, mutexVars, stop, stack, scan>>

(* IsDone, at the top of the loop.                                         *)
HelpCheck(t) ==
  /\ pc[t] = "help"
  /\ \/ /\ target[Frame(t)] \in done
        /\ target' = [target EXCEPT ![Frame(t)] = None]
        /\ Goto(t, ResumePc(t))
     \/ /\ target[Frame(t)] \notin done
        /\ Goto(t, "global")
        /\ UNCHANGED target
  /\ UNCHANGED <<queueVars, jobVars, mutexVars, stop, stack, scan>>

Wait(t, j) ==
  /\ InBody(t)
  /\ <<Frame(t), j>> \in BlockWaits
  /\ j \in submitted \ done
  /\ t \in Clients => ~stop
  /\ target' = [target EXCEPT ![Frame(t)] = j]
  /\ Goto(t, "wait")
  /\ UNCHANGED <<queueVars, jobVars, mutexVars, stop, stack, scan>>

WaitReturn(t) ==
  /\ pc[t] = "wait"
  /\ target[Frame(t)] \in done
  /\ target' = [target EXCEPT ![Frame(t)] = None]
  /\ Goto(t, ResumePc(t))
  /\ UNCHANGED <<queueVars, jobVars, mutexVars, stop, stack, scan>>

-----------------------------------------------------------------------------
(* WaitAll, called by clients.                                             *)

WaitAll(c) ==
  /\ pc[c] = "recheck" \/ (pc[c] = "idle" /\ ~stop)
  /\ completionMutex = None
  /\ \/ /\ pendingJobs = 0
        /\ Goto(c, "idle")
        /\ UNCHANGED completionMutex
     \/ /\ pendingJobs # 0
        /\ Goto(c, "decided")
        /\ completionMutex' = c
  /\ UNCHANGED <<queueVars, jobVars, queueMutex, stop, stack, target, scan>>

WaitAllSleep(c) ==
  /\ pc[c] = "decided"
  /\ Goto(c, "waiting")
  /\ completionMutex' = None
  /\ UNCHANGED <<queueVars, jobVars, queueMutex, stop, stack, target, scan>>

-----------------------------------------------------------------------------
(* The destructor.  As for any C++ object, nobody else is in a call.       *)

SetStop ==
  /\ pc[Owner] = "idle" /\ ~stop
  /\ \A c \in Clients \ {Owner} : pc[c] = "idle"
  /\ stop' = TRUE
  /\ Goto(Owner, "stopping")
  /\ UNCHANGED <<queueVars, jobVars, mutexVars, stack, target, scan>>

DestroyUnlocked == SetStop   \* bug: _stop is set without _queueMutex

Destroy == queueMutex = None /\ SetStop

NotifyStop ==
  /\ pc[Owner] = "stopping"
  /\ WakeWorkers(Owner, "joining")
  /\ UNCHANGED <<queueVars, jobVars, mutexVars, stop, stack, target, scan>>

Join ==
  /\ pc[Owner] = "joining"
  /\ \A w \in Workers : pc[w] = "exited"
  /\ Goto(Owner, "gone")
  /\ UNCHANGED <<queueVars, jobVars, mutexVars, stop, stack, target, scan>>

-----------------------------------------------------------------------------
(* A condition variable may wake a thread nobody notified.                 *)
SpuriousWakeup(t) ==
  /\ \/ pc[t] = "asleep"  /\ Goto(t, "loop")
     \/ pc[t] = "waiting" /\ Goto(t, "recheck")
  /\ UNCHANGED <<queueVars, jobVars, mutexVars, stop, stack, target, scan>>

(* The destroyed pool rests.                                               *)
Terminated == pc[Owner] = "gone" /\ UNCHANGED vars

(* What a thread does once it is in a call, or is a worker: it cannot      *)
(* choose not to.                                                          *)
Progress(t) ==
  \/ NotifyWorkers(t) \/ TryPopGlobal(t) \/ TrySteal(t)
  \/ CompleteJobState(t) \/ ExecuteJobEnd(t) \/ SignalCompletion(t)
  \/ HelpCheck(t) \/ WaitReturn(t)

WorkerStep(w) == WorkerCheck(w) \/ WorkerSleep(w) \/ TryPopLocal(w)

(* The calls the workload makes.                                           *)
Call(t) ==
  \E j \in Jobs : EnqueueWithState(t, j) \/ WaitWithHelping(t, j) \/ Wait(t, j)

Next ==
  \/ \E t \in Threads : Progress(t) \/ Call(t) \/ SpuriousWakeup(t)
  \/ \E w \in Workers : WorkerStep(w)
  \/ \E c \in Clients : WaitAll(c) \/ WaitAllSleep(c)
  \/ Destroy \/ NotifyStop \/ Join
  \/ Terminated

Spec == Init /\ [][Next]_vars

(* A mutex is eventually granted to a thread that keeps asking, so a       *)
(* thread inside a call goes on.  Bodies end.  Nothing makes a client call *)
(* or a condition variable wake spuriously.                                *)
WorkerGoesOn(w) == Progress(w) \/ WorkerStep(w)
ClientGoesOn(c) == \/ Progress(c)
                   \/ pc[c] = "recheck" /\ WaitAll(c)
                   \/ WaitAllSleep(c)
                   \/ c = Owner /\ (NotifyStop \/ Join)

Fairness == /\ \A w \in Workers : SF_vars(WorkerGoesOn(w))
            /\ \A c \in Clients : SF_vars(ClientGoesOn(c))

FairSpec == Spec /\ Fairness

-----------------------------------------------------------------------------
(* Properties.                                                             *)

(* The sequences a job can be in: the queues and the call stacks.          *)
Holders == {<<"global", None>>} \cup ({"local"} \X Workers) \cup ({"stack"} \X Threads)

Content(h) == IF h[1] = "global" THEN jobQueue
              ELSE IF h[1] = "local" THEN localQueues[h[2]]
              ELSE stack[h[2]]

(* The positions that hold job j.                                          *)
Copies(j) ==
  UNION {{h} \X {i \in DOMAIN Content(h) : Content(h)[i] = j} : h \in Holders}

InQueue(j) == \/ j \in ToSet(jobQueue)
              \/ \E w \in Workers : j \in ToSet(localQueues[w])

OnStack(j) == \E t \in Threads : j \in ToSet(stack[t])

(* Jobs that count as pending: in a queue, or in ExecuteJob.               *)
Unfinished == {j \in Jobs : InQueue(j) \/ OnStack(j)}

(* A submitted job is never lost, duplicated or run again: until its state *)
(* is done it is in one place, a queue or one thread's call stack; then it *)
(* leaves that stack for good (TryPop*, TrySteal*, ExecuteJob).            *)
JobsConserved ==
  \A j \in Jobs :
    /\ j \notin submitted => Copies(j) = {}
    /\ j \in submitted \ done => Cardinality(Copies(j)) = 1
    /\ j \in done => /\ j \in submitted
                     /\ ~InQueue(j)
                     /\ Cardinality(Copies(j)) <= 1

(* _pendingJobs is the number of jobs queued or being executed, so it      *)
(* never wraps below zero and WaitAll reads the truth.                     *)
PendingCountsUnfinished == pendingJobs = Cardinality(Unfinished)

(* No worker sleeps through work or shutdown: while one is asleep, or has  *)
(* decided to sleep, and a queue holds a job or _stop is set, the          *)
(* notify_all that will wake it is still to come.                          *)
NoLostWorkerWakeup ==
  (\E w \in Workers : pc[w] \in {"park", "asleep"}) /\ (stop \/ jobQueue # <<>> \/ HasAnyLocalJob)
    => \E t \in Threads : pc[t] \in {"notify", "stopping"}

(* No WaitAll sleeps through the completion of the last job: while a       *)
(* client is blocked, or about to block, and the counter is zero, the      *)
(* notification of ExecuteJob is still to come.                            *)
NoLostCompletionSignal ==
  (\E c \in Clients : pc[c] \in {"decided", "waiting"}) /\ pendingJobs = 0
    => \E t \in Threads : pc[t] = "signal"

(* The pool does what JobPool promises: jobs are run and retired once, no  *)
(* wait returns early, the destructor returns with nothing left to do.     *)
JobStatus(j) ==
  IF j \notin submitted THEN "new"
  ELSE IF InQueue(j) THEN "queued"
  ELSE IF ~OnStack(j) THEN "retired"
  ELSE IF j \in done THEN "done" ELSE "running"

Abstract == INSTANCE JobPool WITH
  status  <- [j \in Jobs |-> JobStatus(j)],
  phase   <- IF ~stop THEN "open" ELSE IF pc[Owner] = "gone" THEN "closed" ELSE "stopping",
  waiting <- {c \in Clients : pc[c] \in {"decided", "waiting", "recheck"}}

ImplementsJobPool == Abstract!Spec

(* A submitted job completes, even when every worker is inside a job that  *)
(* waits for it: WaitWithHelping runs what is queued.                      *)
SubmittedJobsComplete == \A j \in Jobs : j \in submitted ~> j \in done

(* A client that called WaitAll comes back.                                *)
WaitAllReturns ==
  \A c \in Clients : pc[c] \in {"decided", "waiting", "recheck"} ~> pc[c] = "idle"

(* The destructor comes back: every worker sees _stop and exits.           *)
DestructorReturns == stop ~> pc[Owner] = "gone"

=============================================================================
