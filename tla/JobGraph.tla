------------------------------ MODULE JobGraph ------------------------------
(***************************************************************************)
(* Job dependencies in src/ThreadPool.cpp and src/ThreadPool.h: the state  *)
(* behind a JobHandle, its continuations, SubmitAfter and                  *)
(* SubmitAfterAllSucceeded, failure and cancellation, and what a stopped   *)
(* pool does to all that.                                                  *)
(*                                                                         *)
(* Scheduling is ThreadPool's subject: here any free worker may take any   *)
(* queued job.  A step is one critical section or one atomic operation.    *)
(***************************************************************************)
EXTENDS Integers, Sequences, FiniteSets, SequencesExt

CONSTANTS
  Workers,     \* threads that execute jobs
  Clients,     \* threads that submit jobs
  Jobs,        \* jobs that may be submitted, each at most once
  Deps,        \* the dependencies a job is submitted with, a sequence of jobs
  SuccessOnly, \* jobs submitted by SubmitAfterAllSucceeded
  MayThrow,    \* jobs whose body may throw
  None         \* no job, no exception

Threads == Workers \cup Clients

ASSUME GraphAssumption ==
  /\ Workers \cap Clients = {}
  /\ Deps \in [Jobs -> Seq(Jobs)]
  /\ SuccessOnly \subseteq Jobs
  /\ MayThrow \subseteq Jobs
  /\ None \notin Jobs \cup {"thrown", "canceled", "rejected"}

VARIABLES
  stop,          \* _stop
  queue,         \* jobs in the queues
  pendingJobs,   \* _pendingJobs
  submitted,     \* jobs whose JobState exists
  returned,      \* jobs whose handle the client has
  done,          \* JobState::done
  exception,     \* JobState::exception
  continuations, \* JobState::continuations: each submits the job it stands for
  remaining,     \* the counter of SubmitAfter
  submitOnce,    \* its flag
  running,       \* the job a worker executes, the job a client is submitting
  cursor,        \* position in the dependencies for a client's AddContinuation
  todo,          \* continuations each CompleteJobState on the stack has yet to run
  target,        \* the job whose continuation the thread runs
  inCatch,       \* the wrapped job is in its catch block
  terminated,    \* std::terminate has been called
  pc

stateVars == <<done, exception, continuations>>
countVars == <<remaining, submitOnce>>
frameVars == <<running, cursor, todo, inCatch>>
vars == <<stop, queue, pendingJobs, submitted, returned, stateVars, countVars, frameVars,
          target, terminated, pc>>

TypeOK ==
  /\ stop \in BOOLEAN /\ terminated \in BOOLEAN
  /\ queue \subseteq Jobs
  /\ pendingJobs \in Nat
  /\ returned \subseteq submitted /\ submitted \subseteq Jobs
  /\ done \subseteq Jobs
  /\ exception \in [Jobs -> {None, "thrown", "canceled", "rejected"}]
  /\ continuations \in [Jobs -> Seq(Jobs)]
  /\ remaining \in [Jobs -> Nat]
  /\ submitOnce \in [Jobs -> BOOLEAN]
  /\ running \in [Threads -> Jobs \cup {None}]
  /\ cursor \in [Clients -> Nat]
  /\ todo \in [Threads -> Seq(Seq(Jobs))]
  /\ target \in [Threads -> Jobs \cup {None}]
  /\ inCatch \in [Workers -> BOOLEAN]
  /\ pc \in [Threads -> {"idle", "body", "run", "ready", "enqueue", "end", "register", "gone"}]

Init ==
  /\ stop = FALSE /\ terminated = FALSE
  /\ queue = {}
  /\ pendingJobs = 0
  /\ submitted = {} /\ returned = {}
  /\ done = {}
  /\ exception = [j \in Jobs |-> None]
  /\ continuations = [j \in Jobs |-> <<>>]
  /\ remaining = [j \in Jobs |-> 0]
  /\ submitOnce = [j \in Jobs |-> FALSE]
  /\ running = [t \in Threads |-> None]
  /\ cursor = [c \in Clients |-> 0]
  /\ todo = [t \in Threads |-> <<>>]
  /\ target = [t \in Threads |-> None]
  /\ inCatch = [w \in Workers |-> FALSE]
  /\ pc = [t \in Threads |-> "idle"]

Goto(t, to) == pc' = [pc EXCEPT ![t] = to]

-----------------------------------------------------------------------------
(* A client that has the handles of the dependencies creates the state and *)
(* the counter.  Without dependencies the job is ready at once.            *)
CreateJob(c, k, count) ==
  /\ pc[c] = "idle" /\ ~stop
  /\ k \notin submitted
  /\ ToSet(Deps[k]) \subseteq returned
  /\ submitted' = submitted \cup {k}
  /\ remaining' = [remaining EXCEPT ![k] = count]
  /\ running' = [running EXCEPT ![c] = k]
  /\ target' = [target EXCEPT ![c] = k]
  /\ cursor' = [cursor EXCEPT ![c] = 1]
  /\ Goto(c, IF Deps[k] = <<>> THEN "ready" ELSE "register")
  /\ UNCHANGED <<stop, queue, pendingJobs, returned, stateVars, submitOnce, todo, inCatch, terminated>>

(* Bug: the counter starts at the number of distinct handles.              *)
SubmitAfterDistinct(c, k) == CreateJob(c, k, Cardinality(ToSet(Deps[k])))

(* Bug: the counter starts at the dependencies that are not done yet, and  *)
(* the continuations of the others count down too.                         *)
SubmitAfterUnfinished(c, k) ==
  CreateJob(c, k, Len(SelectSeq(Deps[k], LAMBDA d : d \notin done)))

(* Submit, SubmitAfter and SubmitAfterAllSucceeded.                        *)
SubmitAfter(c, k) == CreateJob(c, k, Len(Deps[k]))

(* fetch_sub: the thread that takes the last dependency goes on.           *)
CountDown(t, k, otherwise) ==
  /\ remaining' = [remaining EXCEPT ![k] = @ - 1]
  /\ Goto(t, IF remaining[k] = 1 THEN "ready" ELSE otherwise)

(* Bug: the continuation is stored without looking at done.                *)
AddContinuationBlindly(c) ==
  /\ pc[c] = "register"
  /\ cursor[c] <= Len(Deps[running[c]])
  /\ cursor' = [cursor EXCEPT ![c] = @ + 1]
  /\ continuations' = [continuations EXCEPT ![Deps[running[c]][cursor[c]]] = Append(@, running[c])]
  /\ UNCHANGED <<stop, queue, pendingJobs, submitted, returned, done, exception, countVars, running,
                 todo, inCatch, target, terminated, pc>>

(* AddContinuation for the next dependency: under the lock of its state,   *)
(* store the continuation, or find the job done and run it here.           *)
AddContinuation(c) ==
  LET k   == running[c]
      dep == Deps[k][cursor[c]]
  IN  /\ pc[c] = "register"
      /\ cursor[c] <= Len(Deps[k])
      /\ cursor' = [cursor EXCEPT ![c] = @ + 1]
      /\ \/ /\ dep \in done
            /\ CountDown(c, k, "register")
            /\ UNCHANGED continuations
         \/ /\ dep \notin done
            /\ continuations' = [continuations EXCEPT ![dep] = Append(@, k)]
            /\ UNCHANGED <<remaining, pc>>
      /\ UNCHANGED <<stop, queue, pendingJobs, submitted, returned, done, exception, submitOnce,
                     running, todo, inCatch, target, terminated>>

Return(c) ==
  /\ pc[c] = "register"
  /\ cursor[c] > Len(Deps[running[c]])
  /\ returned' = returned \cup {running[c]}
  /\ running' = [running EXCEPT ![c] = None]
  /\ target' = [target EXCEPT ![c] = None]
  /\ Goto(c, "idle")
  /\ UNCHANGED <<stop, queue, pendingJobs, submitted, stateVars, countVars, cursor, todo, inCatch,
                 terminated>>

-----------------------------------------------------------------------------
(* CompleteJobState: publish the outcome under the lock, take the          *)
(* continuations, run them after it.                                       *)
Publish(t, j, ex, frames) ==
  /\ done' = done \cup {j}
  /\ exception' = [exception EXCEPT ![j] = ex]
  /\ continuations' = [continuations EXCEPT ![j] = <<>>]
  /\ todo' = [todo EXCEPT ![t] = <<continuations[j]>> \o frames]
  /\ Goto(t, "run")

Start(w, j) ==
  /\ pc[w] = "idle"
  /\ j \in queue
  /\ queue' = queue \ {j}
  /\ running' = [running EXCEPT ![w] = j]
  /\ Goto(w, "body")
  /\ UNCHANGED <<stop, pendingJobs, submitted, returned, stateVars, countVars, cursor, todo, inCatch,
                 target, terminated>>

(* The body returns, or throws and is caught by the wrapped job.           *)
BodyEnds(w) ==
  /\ pc[w] = "body"
  /\ \/ /\ Publish(w, running[w], None, <<>>)
        /\ UNCHANGED inCatch
     \/ /\ running[w] \in MayThrow
        /\ Publish(w, running[w], "thrown", <<>>)
        /\ inCatch' = [inCatch EXCEPT ![w] = TRUE]
  /\ UNCHANGED <<stop, queue, pendingJobs, submitted, returned, countVars, running, cursor, target,
                 terminated>>

(* Run the next continuation of the innermost CompleteJobState.            *)
RunContinuation(t) ==
  /\ pc[t] = "run"
  /\ todo[t] # <<>> /\ Head(todo[t]) # <<>>
  /\ LET k == Head(Head(todo[t]))
     IN  /\ target' = [target EXCEPT ![t] = k]
         /\ todo' = [todo EXCEPT ![t] = <<Tail(Head(@))>> \o Tail(@)]
         /\ CountDown(t, k, "run")
  /\ UNCHANGED <<stop, queue, pendingJobs, submitted, returned, stateVars, submitOnce, running, cursor,
                 inCatch, terminated>>

(* CompleteJobState returns: to the CompleteJobState around it, to the     *)
(* wrapped job, or to the client's SubmitAfter.                            *)
CompleteReturns(t) ==
  /\ pc[t] = "run"
  /\ todo[t] # <<>> => Head(todo[t]) = <<>>
  /\ todo' = [todo EXCEPT ![t] = IF @ = <<>> THEN <<>> ELSE Tail(@)]
  /\ Goto(t, IF Len(todo[t]) > 1 THEN "run" ELSE IF t \in Workers THEN "end" ELSE "register")
  /\ UNCHANGED <<stop, queue, pendingJobs, submitted, returned, stateVars, countVars, running, cursor,
                 inCatch, target, terminated>>

-----------------------------------------------------------------------------
(* submitIfReady and submitOrCancelIfReady.                                *)

(* Bug: only the first dependency is looked at.                            *)
FirstDependencyFailed(k) == k \in SuccessOnly /\ Deps[k] # <<>> /\ exception[Deps[k][1]] # None

DependencyFailed(k) == k \in SuccessOnly /\ \E d \in ToSet(Deps[k]) : exception[d] # None

(* Bug: a canceled job is not kept from being submitted again.             *)
SubmitIfReadyTwice(t) ==
  LET k == target[t]
  IN  /\ pc[t] = "ready"
      /\ remaining[k] = 0 /\ ~submitOnce[k]
      /\ submitOnce' = [submitOnce EXCEPT ![k] = TRUE]
      /\ IF DependencyFailed(k)
         THEN /\ Publish(t, k, "canceled", todo[t])
              /\ queue' = queue \cup {k}
              /\ pendingJobs' = pendingJobs + 1
         ELSE /\ Goto(t, "enqueue")
              /\ UNCHANGED <<queue, pendingJobs, stateVars, todo>>
      /\ UNCHANGED <<stop, submitted, returned, remaining, running, cursor, inCatch, target, terminated>>

(* CountDown comes here once per job, so the first branch is a second line *)
(* of defence that no execution takes.                                     *)
SubmitIfReady(t) ==
  LET k == target[t]
  IN  /\ pc[t] = "ready"
      /\ IF remaining[k] # 0 \/ submitOnce[k]
         THEN /\ Goto(t, "run")
              /\ UNCHANGED <<stateVars, submitOnce, todo>>
         ELSE /\ submitOnce' = [submitOnce EXCEPT ![k] = TRUE]
              /\ \/ /\ DependencyFailed(k)
                    /\ Publish(t, k, "canceled", todo[t])
                 \/ /\ ~DependencyFailed(k)
                    /\ Goto(t, "enqueue")
                    /\ UNCHANGED <<stateVars, todo>>
      /\ UNCHANGED <<stop, queue, pendingJobs, submitted, returned, remaining, running, cursor, inCatch,
                     target, terminated>>

Enqueue(t, count) ==
  /\ pc[t] = "enqueue" /\ ~stop
  /\ queue' = queue \cup {target[t]}
  /\ pendingJobs' = count
  /\ Goto(t, "run")
  /\ UNCHANGED <<stop, submitted, returned, stateVars, countVars, frameVars, target, terminated>>

(* Bug: only jobs submitted from outside are counted.                      *)
EnqueueUncounted(t) == Enqueue(t, IF t \in Clients THEN pendingJobs + 1 ELSE pendingJobs)

EnqueueWithState(t) == Enqueue(t, pendingJobs + 1)

(* A stopped pool throws.  The exception leaves every CompleteJobState on  *)
(* the worker's stack; the wrapped job completes the running job a second  *)
(* time, or, if it is completing a failure already, lets it escape.        *)
EnqueueThrows(w) ==
  /\ pc[w] = "enqueue"
  /\ stop
  /\ \/ /\ ~inCatch[w]
        /\ inCatch' = [inCatch EXCEPT ![w] = TRUE]
        /\ Publish(w, running[w], "rejected", <<>>)
        /\ UNCHANGED terminated
     \/ /\ inCatch[w]
        /\ terminated' = TRUE
        /\ UNCHANGED <<stateVars, todo, inCatch, pc>>
  /\ UNCHANGED <<stop, queue, pendingJobs, submitted, returned, countVars, running, cursor, target>>

ExecuteJobEnd(w) ==
  /\ pc[w] = "end"
  /\ pendingJobs' = pendingJobs - 1
  /\ running' = [running EXCEPT ![w] = None]
  /\ target' = [target EXCEPT ![w] = None]
  /\ inCatch' = [inCatch EXCEPT ![w] = FALSE]
  /\ Goto(w, "idle")
  /\ UNCHANGED <<stop, queue, submitted, returned, stateVars, countVars, cursor, todo, terminated>>

-----------------------------------------------------------------------------
(* The destructor stops the pool; workers leave when nothing is queued.    *)

Destroy ==
  /\ ~stop
  /\ \A c \in Clients : pc[c] = "idle"
  /\ stop' = TRUE
  /\ UNCHANGED <<queue, pendingJobs, submitted, returned, stateVars, countVars, frameVars, target,
                 terminated, pc>>

WorkerLeaves(w) ==
  /\ pc[w] = "idle" /\ stop
  /\ Goto(w, "gone")
  /\ UNCHANGED <<stop, queue, pendingJobs, submitted, returned, stateVars, countVars, frameVars, target,
                 terminated>>

WorkerExitsEarly(w) == WorkerLeaves(w)   \* bug: it leaves what is queued

WorkerExits(w) == queue = {} /\ WorkerLeaves(w)

AllGone == \A w \in Workers : pc[w] = "gone"

ClientStep(c) == AddContinuation(c) \/ Return(c)
WorkerStep(w) == \/ \E j \in Jobs : Start(w, j)
                 \/ BodyEnds(w) \/ EnqueueThrows(w) \/ ExecuteJobEnd(w) \/ WorkerExits(w)
CommonStep(t) == RunContinuation(t) \/ CompleteReturns(t) \/ SubmitIfReady(t) \/ EnqueueWithState(t)

Next ==
  \/ /\ ~terminated
     /\ \/ \E c \in Clients : ClientStep(c) \/ \E k \in Jobs : SubmitAfter(c, k)
        \/ \E w \in Workers : WorkerStep(w)
        \/ \E t \in Threads : CommonStep(t)
        \/ Destroy
  \/ (terminated \/ AllGone) /\ UNCHANGED vars

Spec == Init /\ [][Next]_vars

(* Threads inside a call go on and a body ends; nobody has to submit.      *)
Fairness ==
  /\ \A c \in Clients : WF_vars(~terminated /\ (ClientStep(c) \/ CommonStep(c)))
  /\ \A w \in Workers : WF_vars(~terminated /\ (WorkerStep(w) \/ CommonStep(w)))

FairSpec == Spec /\ Fairness

-----------------------------------------------------------------------------
(* Properties.                                                             *)

Begun(k) == k \in queue \cup done \/ \E w \in Workers : running[w] = k

(* A job is queued, run or completed only after all of its dependencies,   *)
(* whichever threads complete them and however that races registration.    *)
DependenciesFirst ==
  \A k \in Jobs : Begun(k) => ToSet(Deps[k]) \subseteq done

(* When the counter WaitAll waits for is zero, every job a client holds a  *)
(* handle of is done: a successor is counted before its last dependency is *)
(* discounted.                                                             *)
WaitAllCoversGraph ==
  ~stop /\ pendingJobs = 0 => returned \subseteq done

(* While the pool is not being destroyed, the outcome of a job that is     *)
(* done does not change under those who look at it.                        *)
OutcomesAreFinal ==
  [][\A j \in done : j \in done' /\ (~stop => exception'[j] = exception[j])]_vars

(* SubmitAfter, its counters and its continuations keep the promise that   *)
(* JobOutcomes states without them: a job starts once, after the jobs it   *)
(* was submitted after, or is canceled once, because one of those failed.  *)
(* A job without dependencies is submitted when it is enqueued: nobody has *)
(* its handle before that.                                                 *)
Promise == INSTANCE JobOutcomes WITH
  phase <- [k \in Jobs |-> IF k \notin submitted THEN "new"
                           ELSE IF k \in done THEN "done"
                           ELSE IF k \in queue THEN "queued"
                           ELSE IF \E w \in Workers : running[w] = k THEN "running"
                           ELSE IF Deps[k] = <<>> THEN "new"
                           ELSE "waiting"],
  deps <- [k \in Jobs |-> IF k \in submitted THEN ToSet(Deps[k]) ELSE {}],
  successOnly <- {k \in SuccessOnly \cap submitted : Deps[k] # <<>>},
  outcome <- exception,
  closed <- stop

ImplementsJobOutcomes == Promise!Spec

(* Every handle completes, by running or by cancellation, unless the pool  *)
(* is destroyed first.                                                     *)
HandlesComplete == \A k \in Jobs : k \in returned ~> (k \in done \/ stop)

(* Destruction drains: a job that reached a queue is run to completion,    *)
(* unless an exception that nobody catches ends the program.               *)
QueuedJobsDrain == \A k \in Jobs : k \in queue ~> (k \in done \/ terminated)

=============================================================================
