# Specifications of Learning_JobSystem

TLA+ specifications of the thread pool in `src/` of this repository, of the
experiments in `experiments/` that hold a concurrent design of their own, and of
the programs that use the pool, with TLC configurations that check them on small
instances and proofs that TLAPS checks for every instance.

    tlc -config MCThreadPoolNested.cfg MCThreadPool     # and so on for every cfg
    tlapm ThreadPoolProofs.tla                          # and so on for every *Proofs module
    tlapm DataLemmas.tla

`PROJECT.json` lists the runs, what every definition translates, the mutants
(a plausible bug for each property, which the run must find), the hazards and
the theorems. Paths below are relative to the repository.

## 1. Inventory

### The core, `src/ThreadPool.{h,cpp}`

| Part | State | Operations | Depends on |
|---|---|---|---|
| Scheduling | global queue, one local deque per worker, `_stop`, `_pendingJobs`, two mutexes and two condition variables | constructor, `EnqueueWithState`, `WorkerLoop`, `TryPopLocal`, `TryPopGlobal`, `TrySteal`, `TryStealAny`, `ExecuteJob`, `WaitAll`, `WaitWithHelping`, destructor | job states, for `done` |
| Job states | `JobState`: `done`, exception, continuations, mutex, condition variable; the counter and flag of a `SubmitAfter` | `JobHandle::Wait`, `AddContinuation`, `CompleteJobState`, `SubmitAfter`, `SubmitAfterAllSucceeded` | scheduling, to submit |
| Statistics | four counters per worker | steps at pops and in `ExecuteJob`, `GetQueueStats`, `ResetStats` | scheduling |
| Futures | those of the standard library | `SubmitWithFuture` | `Submit` |

A client thread calls the public functions. A worker runs jobs; a job's body
may submit (to its worker's local queue), wait for handles, and by
`WaitWithHelping` run further jobs on top of itself. A job's last act is to
complete its state, which runs continuations on the same thread, each of which
may submit or cancel another job, whose continuations run nested in turn.

What is hard here: a sleeping worker must be reached by a `notify_all` that is
called after the mutex is released, for work that may be in any of the queues;
the last job's signal must reach every `WaitAll`; owner, thieves and helpers
share deques; registration of a continuation races the completion of its
dependency; waits nest on call stacks; destruction overlaps work that is queued
or about to be.

What makes it correct: no job is lost, run twice or run early; the pending
counter is exact; no wake-up or signal is lost; waits return, and never early;
successors run after, and only as, their dependencies allow; outcomes are final;
destruction drains and returns.

### Experiments, `experiments/DayNN_*.cpp`

| Experiment | What it is | Here |
|---|---|---|
| Day 1 | producer and consumer, with and without a wait predicate | `SpuriousWakeup` |
| Days 2, 6 | `notify_one` against `notify_all`, a data race | not modelled |
| Days 3 and 5, `src/main.cpp` | benchmarks on the core; Day 5 reads the statistics | programs of `Experiments`, `PoolStats` |
| Day 4 | jobs with futures | programs of `Experiments` |
| Days 8 to 13, 15, 22 | handles, waiting in workers, dependencies, failure | programs of `Experiments`, run by `GraphRun` |
| Day 16 | an independent work-stealing pool | `WorkStealingPool` |
| Days 17, 18 | a graph builder, validation and cycle search | `GraphBuild`, `GraphRun` |
| Days 19, 20, 27 | execution reports, traces, failure against cancellation | `GraphReport`, `GraphRun` |
| Day 21 | reuse of job states | `JobStatePool` |
| Day 23 | a ring buffer of trace events | `TraceRingBuffer` |
| Day 26 | the regression suite | programs of `Experiments`, `PoolStats` |

The graph classes of Days 17 to 20 and 27 keep nodes, edges, a submission order and
a record for each node. They submit wrapped jobs, which write the records on
the workers while the main thread waits for handles, adds the records of canceled
nodes, and copies the result. What is hard: records are written by several threads
and read across dependencies, cancellation has no thread of its own and is recorded
later by the reporter, main may destroy what jobs still refer to, and bodies that
look after children can occupy every worker. What makes it correct: a submission
order with dependencies first, exact validation, outcomes that depend on the graph
alone, complete and frozen reports with intervals in order, and an end of every program.

`out/` is generated by CMake and holds nothing to model.

## 2. Modules

    JobPool                 what a pool promises
      ^        ^
      |        +-- WorkStealingPool       Day 16, implements JobPool's safety
    ThreadPool                            the scheduling core, implements JobPool

    JobOutcomes             what a job with dependencies promises
      ^        ^
      |        +-- GraphRun               main, workers and wrapped jobs of a program
      |              ^-- GraphBuild       declaration, validation, submission order
      |              ^-- GraphReport      what is computed from the records
      |              ^-- Experiments      the programs, as data
    JobGraph                              job states and dependencies, implements JobOutcomes

    PoolStats                             statistics
    SpuriousWakeup, JobStatePool, TraceRingBuffer

    DataLemmas                            sequences, finite sets, sums: what the proofs cite
      ^-- ThreadPoolProofs, JobGraphProofs, WorkStealingPoolProofs,
          PoolStatsProofs, JobStatePoolProofs, BufferProofs,
          GraphRunProofs                  (with GraphBuild and GraphReport)

Every `MC*` module only declares model values and workloads. `XProofs` extends `X` and holds
its theorems and their proofs; the modules themselves do without provers. `BufferProofs` is about
two buffers and extends both `TraceRingBuffer`, whose specification is therefore called
`RingSpec`, and `SpuriousWakeup`.

**JobPool** has no threads and no queues: a job is new, queued, running, done,
retired; a pool is open, stopping, closed; clients wait for everything, frames
wait for one job. It closes only when every job is retired, and a `WaitAll`
returns only in a state where that is so.

**ThreadPool** takes one step per critical section, atomic access or
notification. A mutex appears as a variable only where a thread carries it from
one step to the next, which is between evaluating a wait predicate and
blocking: that is where signals get lost. Every other critical section is one
step. `stack[t]` is the call stack of `ExecuteJob`s, because helping nests them;
`CallerPc` is the return address. The workload (which job may submit or wait for
what) is three constant relations, so a body is any interleaving of the calls
they allow. Abstractions and their reasons:

- `HasAnyLocalJob` looks at the local queues one after the other under
  `_queueMutex`, and is one step here. Local queues grow only under that mutex
  (`EnqueueWithState`), so a queue it found empty stays empty, and a scan that
  finds nothing agrees with the state at its end.
- The sleep and the notification of a single `JobState` are "enabled once
  `done`": `CompleteJobState` sets `done` under the state's mutex, the one
  `JobHandle::Wait` evaluates its predicate under.
- A wait for a handle that is done, and a `Submit` that throws because the pool
  stopped, change nothing and are stutters.
- Continuations are opaque submissions between `done` and the end of the job
  (`pc = "cont"`); JobGraph says which there are.
- Clients do not call a pool that is being destroyed, and no job calls
  `WaitAll`: the first is undefined behaviour, the second never returns.

**JobGraph** leaves scheduling out (any free worker takes any queued job) and
follows a dependency from `SubmitAfter` to its completion. `todo[t]` is the stack
of `CompleteJobState` loops on a thread, innermost first, since cancellation
completes a job inside another's completion. `EnqueueThrows` is a submission to
a stopped pool: the exception unwinds to the wrapped job's handler, which
completes the running job once more with it, or, if that job was completing a
failure already, ends the program. The repository leaves the
overlap of shutdown and continuations undefined on purpose (README.md:592), so it is
modelled as it happens and the properties that it breaks are claimed for a pool that
is not being destroyed. A job's dependencies are read for their exceptions in one
step: they are done, and an exception once there stays, so a scan agrees with one state.

**JobOutcomes** has no continuations, counters or locks: a job is new, waiting, queued,
running, done; it leaves `waiting` when the jobs it was submitted after are done,
into the queue or, under the success policy and after a failure, into
cancellation. A job without dependencies never waits: it is in a queue when the call that
submits it returns. `JobGraph!Promise` maps the detailed state to it; a resolved
fan-in, whichever thread resolves it, is one step of `Queue` or `Cancel`, and a
job without dependencies, which is on its way into the queue for a few steps of its client,
is submitted when it gets there: nobody has its handle before.

**GraphBuild** follows a program's main thread up to the submission order. Each class
accepts other declarations (`Accepted`): the builder takes earlier nodes only,
Day 18 takes everything and reports errors when it validates, Day 19 refuses
self edges, repetitions and unknown ids but lets cycles reach the search. The search is
the recursive `visit` with its call stack as a variable, one step per call,
return or dependency; Day 18 goes on after a cycle, Day 19 throws.

**GraphRun** goes on from there over the abstract pool. `script` is what main still
does (`Full`: the calls of `Run`, then the experiment's own): submissions, waits, the
reporter's passes, the copy. A wrapped job takes one
step per critical section (`MeasuredJobRuns`, `MeasuredJobEnds` for Day 19,
`RecordExecution` for Day 20, `TracedJobRuns`, `TracedJobEnds` for Day 27), so
reads of other nodes' records interleave with their writes. Day 20 reads the clock before
it takes the recorder's mutex, so `RecordExecution` writes any instant from the job's start to
now. The clock only advances, between any two steps, up to `Horizon`. `helper[j]` names the job in
whose helping wait `j` runs, so bodies nest and a body returns only from the
innermost call. `FulfilFuture` is a packaged task, ready before its job is done. Of the
pool, GraphRun keeps how many bodies run at once and nothing of which queue a job is in:
which free worker takes which job is ThreadPool's subject. An exception that `Wait`
or `get` rethrows is caught by every program and changes nothing that is modelled.

**GraphReport** is constant operators on records, translated loop by loop: the printed
table, the critical path, and the intervals, arrows and instants of the trace exports.

**Experiments** holds no behaviour: each definition is one experiment, its jobs,
edges, policies, which jobs throw, whom they submit and wait for, and the calls of
main. Loops over equal jobs make `Parts` of them. Experiments of one day that
share a pool come one after the other and are taken alone;
`hardware_concurrency()` is taken as 2.

**WorkStealingPool** is Day 16's pool: no global queue, workers that sleep
without a predicate for a millisecond, a completion signal sent without the
waiter's mutex.

**PoolStats** keeps of the queues only how many jobs they hold, and follows the
four counters of a worker. A helper's run is a runner of its own, whatever
thread it is on. `GetQueueStats` and `ResetStats` deal with one counter of one worker
in a step, in the order of the loops; the client reads at any time and resets after
`WaitAll`, as every caller in the repository does.

**SpuriousWakeup**, **JobStatePool**, **TraceRingBuffer** translate Days 1, 21
and 23. The sleeps of Day 1's producer are no steps: a sleep orders nothing.

## 3. Runs

| Run | Instance | Shows |
|---|---|---|
| `nested_submit` | 2 workers, 2 clients, 4 jobs; a job submits two more to its local queue while both clients submit, block on the same handle, help, or wait for all; 312 000 states | types, `JobsConserved`, `PendingCountsUnfinished`, `NoLostWorkerWakeup`, `NoLostCompletionSignal`, refinement of JobPool |
| `fork_join` | 2 workers, 1 client, 2 parents that wait for a child each | under fairness all jobs complete, `WaitAll` and the destructor return |
| `graph` | 2 workers, 1 client, 5 jobs: two roots, one of which may throw, two fan-ins, a job given one handle twice; destruction at any time; 52 000 states | order, counting, outcomes, refinement of JobOutcomes (which holds the failure policy); under fairness no continuation is lost and queued jobs are drained |
| `day16` | 2 workers, 2 clients, 2 jobs | counting, refinement of JobPool; under fairness timeouts make up for missed notifications |
| `day16_waitall` | 2 workers, 1 client, 1 job | **violated**: `WaitAll` sleeps for good |
| `stats` | 2 workers, a helper, 4 jobs, 2 rounds; 1 833 000 states | what is read after `WaitAll` is exact, although counters are cleared one by one before; a client that reads them one by one while jobs run is not shown more jobs processed than popped |
| `day01` | 6 jobs, either consumer | what the predicate is needed for (`JoinReturns`), and what it is not (`JobsAccounted`) |
| `day01_all` | 2 jobs | **violated**: the SAFE consumer leaves jobs behind |
| `day21` | 2 threads, 3 states, 5 acquisitions | no aliasing, clean reuse |
| `day23` | 3 slots, 4 jobs, 8 events | every snapshot is the recent window, spans pair up |
| `graph_runs` | every program of `Experiments`, all lists of up to three edges for the classes that search, two longer chains of cancellations; 329 000 states | exact validation and order, outcomes determined by the graph, complete, frozen and consistent reports, the longest critical path, nothing left waiting at destruction; under fairness every program ends |
| `report_ready` | one chain of cancellations in Day 19's class | **violated**: a node is dated ready before its ancestors ended |

Bounds. Two workers suffice for a thief and its victim, for a worker that sleeps
while another decides to, and for every worker being blocked. Jobs are few
because each is submitted once, but the workloads reach each queue, both ends of
a local deque, nesting of one job on another, and cancellation behind
cancellation. Two clients are needed for two waiters on one signal. `MaxJobs`,
`MaxRounds` (PoolStats) and `MaxLives` (JobStatePool) bound counters and are
named in their modules. In GraphRun, `Parts` (3) replaces the length of loops over
equal jobs, `MaxNodes` (7) is the size of the largest graph in the repository
(the assets of Days 19 and 20), and `Horizon` (3) is the number of instants: three
tell apart a node that ends before, with and after another, and ties with runs of
length zero occur. Three edges over three nodes and one unknown number give every
self edge, repetition, unknown id and cycle of up to three nodes, alone and beside one
another. Nothing else is cut off: no run uses a state constraint.

Fairness. A thread that is inside a call, or is a worker, goes on: that is the
operating system's scheduling. In ThreadPool it is strong fairness, because such
a step may wait for a mutex that others take again and again, and C++
implementations do not starve a waiter for ever; in JobGraph and
WorkStealingPool, where no step waits for a mutex, weak fairness is enough. In GraphRun
main goes on when it can and some job does (a worker takes a queued job, a body
ends); the clock need not advance. In SpuriousWakeup
it is strong for the producer, which waits for the consumer's mutex. Job bodies end. Timeouts
expire (Day 16). Nothing makes a client call anything, and no condition variable
has to wake spuriously.

### Findings

- `day16_waitall`: `experiments/Day16_WorkStealing.cpp:182-185` decrements the
  counter and notifies without `_waitMutex`. Both can fall between `WaitAll`'s
  evaluation of its predicate and its block; nobody notifies again. `README.md:205`
  says the counter tracks the completion of all jobs, and each experiment relies on
  `WaitAll` to return. The core takes the mutex (`src/ThreadPool.cpp:447-451`),
  and `NoLostCompletionSignal` with its mutant `SignalUnlocked` shows that this is
  what it takes.
- `day01_all`: `experiments/Day01_spuriouswakeup.cpp:211-212` says that the SAFE
  version always processes every job. Its loop tests `g_stop` before it looks at the
  queue, so a stop that comes while it is outside the wait, before that test, leaves the
  rest; the 200 ms sleep before the stop is all that prevents it.
- `report_ready`: `experiments/Day19_GraphExecutionReport.cpp:251` takes the time a node
  became ready from the end times of its dependencies. A canceled dependency gets
  its end time from the reporting main thread (lines 302 to 318), perhaps after
  a completion-policy node behind it has started; the end counts as the start of the
  graph then. Line 493 explains the printed wait as the time from when the node
  could run. No experiment has such a node.

### Known limits of the code that are not claimed as errors

- A continuation that meets a stopped pool changes the outcome of a job that was
  done, drops that job's other successors, or ends the program (README.md:592 calls
  this undefined). `JobGraph` has these steps and `ImplementsJobOutcomes` bounds them (only a job
  that is done, and only in a stopped pool, is completed once more); `OutcomesAreFinal` and `QueuedJobsDrain` say what is left.
- `WaitWithHelping` for a job suspended further down the same stack spins; workers
  that all block in `JobHandle::Wait` starve, which is what Day 10 explains and its experiments
  avoid (`MainEnds` shows that they end); `WaitAll` inside a job
  never returns.
- Statistics read after a wait on a handle may lack that job; after `WaitAll` they do not.
  What `GetQueueStats` returns while jobs run is no moment of the pool: more pops than
  processed jobs may show than there are jobs in hand (`NoReaderSeesAhead` is what holds).
- Day 27 tells canceled from failed by the type of the exception (line 154): a body that
  threw `JobCanceledException` itself would be recorded as canceled. No body does.
- In Day 2, `wastedWakeups` is never stepped: the predicate is evaluated under the mutex, so the
  queue is not empty behind it unless the pool stops.

## 4. Proofs

Each theorem holds for every value of the constants that the named assumption of the
module allows (`PoolAssumption`, `GraphAssumption`, ...: the kinds of constants
are disjoint, there is a worker, the owner is a client, the relations relate frames
to jobs, bounds are numbers; what is summed over is finite). TLC checks each property
in the run beside it, and evaluates the assumptions.

GraphRun's theorems hold for every set `Programs` of records that describe a program:
any class, number of nodes and workers, any sequence of edges, wrong ones
included, any policies, throwing bodies, children and waits. `BuildAssumption` gives the
kinds of these fields, `RunAssumption` the bounds, and `CallsAssumption` what C++ enforces of
the calls of main (a handle exists before it is passed on; the classes submit
their nodes themselves, and hand out no futures; a body submits its children without
dependencies; Day 20 has no success policy). Every experiment satisfies them, which TLC evaluates.

`WaitsAssumption` is about the programs, not the language, and only `NothingIsWaiting` uses it:
a program that waits for nothing and destroys its pool at once would leave jobs behind that
still wait for their dependencies. It asks that main learns of the completion of each job
in one of the ways the experiments have: a wait on its handle, a `WaitAll` after its submission,
its future, a job that depends on it, or the body that submitted it, if main waits for that
body. A program that only validates, or whose `Run` throws because of a self edge, has no jobs,
and `Run` of the classes with a report waits itself. Which waits a program makes is read
off its calls; that they are enough, whatever fails or is canceled, is the theorem.

| Theorem | Statement | Argument |
|---|---|---|
| **ThreadPoolProofs** | | run `nested_submit` |
| `TypeCorrect` | `[]TypeOK` | Inductive once it says which program counters and return addresses belong to which threads, and that a thread about to run on has a frame to run: `TypeOK` alone does not keep `Head(stack[t])` defined. |
| `WakeupsNotLost` | `[]NoLostWorkerWakeup` | Work or a stop flag appears only while `queueMutex` is free, so no worker is between its decision and its sleep, and the thread that made it appear has the notification before it. The invariant ties `queueMutex` to the one worker that is at `"park"`, and `stop` to the owner's program counter. |
| `JobsAreConserved` | `[]JobsConserved` | `Copies(j)` is equal before and after each step except where one copy moves; pops and thefts at either end are lemmas about the positions of a sequence that hold a job. |
| `PendingIsExact` | `[]PendingCountsUnfinished` | `Unfinished` gains one job at a submission and loses one at the end of `ExecuteJob`, because a job on a stack is in no queue and on no other stack. |
| `CompletionsNotLost` | `[]NoLostCompletionSignal` | The counter becomes zero only in `ExecuteJobEnd`, which goes on to the signal; the signal waits for `completionMutex`, so nobody is between evaluation and block when it is sent. |
| `PoolImplementsJobPool` | refinement of JobPool | Step simulation on top of the four invariants. `CalmOK` says that clients are idle once the owner destroys the pool, `StopOK` that a worker leaves only a stopped pool with empty queues; together they make the abstract pool's close a step it may take, and the exact counter makes the return of `WaitAll` one. |
| **JobGraphProofs** | | run `graph` |
| `TypeCorrect` | `[]TypeOK` | Says where each `todo` stack can be and what its frames hold. |
| `DependenciesComeFirst` | `[]DependenciesFirst` | The counter of a fan-in equals the entries still owed to it: registered in a dependency's continuations, taken over by a thread that completes it, or not registered yet. Each step moves one entry from one of these places to another or pays one; a stopped pool drops entries, and the counter then stays above what is owed. |
| `WaitAllCovers` | `[]WaitAllCoversGraph` | With nothing queued or run, nothing is owed to a job whose dependencies are done; dependencies were there before their dependents, so a first such job would exist if any job were left. |
| `OutcomesFinal` | `[][...]` of `OutcomesAreFinal` | An outcome is written by the completion of its job; a job completes once as long as the pool is not stopped. |
| `GraphImplementsOutcomes` | refinement of JobOutcomes | A fan-in whose entries are paid has its dependencies done, with their exceptions as the abstract state has them, so the resolving step is the abstract `Queue` or `Cancel`. |
| **WorkStealingPoolProofs** | | run `day16` |
| `TypeCorrect`, `PendingCovers` | `[]TypeOK`, `[]PendingCoversJobs` | The jobs in a queue, in a hand and running are apart from each other, and the counter is their number. |
| `StealingImplementsJobPool` | refinement of JobPool | Pops and thefts are the abstract start, whichever queue they are from. |
| **PoolStatsProofs** | | run `stats` |
| `ReaderNotAhead` | `[]NoReaderSeesAhead` | For each worker, pops minus processed jobs is one between the pop and the end of the job and zero elsewhere; counters only grow outside a reset, so the pops, loaded after the processed jobs, are at least what they were then. |
| `StatsExact` | `[]StatsExactAfterWaitAll` | The jobs of a round are those queued, popped and processed; the sum over runners changes by one summand in each step (`SumOf` of DataLemmas), and `WaitAll` returns when all are processed. Finiteness of the sets of workers and helpers, which the sums need, is part of `StatsAssumption`. |
| **JobStatePoolProofs** | | run `day21` |
| `StatesHaveOnePlace` | `[]OnePlace` | A state is free, held, or with one thread between the two; the free list is injective. |
| `LivesSeparate` | `[][...]` of `LivesAreSeparate` | A life begins only where `OnePlace` left nobody with the state. |
| **BufferProofs** | | runs `day23`, `day01` |
| `SnapshotIsWindow` | `[]SnapshotIsRecentWindow` | Slot `i % Capacity` holds event `i` for the last `Capacity` events, and what `Snapshot` keeps, by induction over its loop, is those in order. |
| `SpansWhole` | `[]SpansAreWhole` | A job's begin event is written before its end event, so it is in the window whenever the end is and it has not been overwritten. |
| `JobsAreAccounted` | `[]JobsAccounted` of SpuriousWakeup | `QueueInv`: what the consumer has processed, the job in its hand and the queue are the numbers from 1 on without a gap, up to what the producer has pushed; without the predicate a consumer may return early, with a rest in the queue, but takes only the head of a queue that is not empty. |
| **GraphRunProofs** | | run `graph_runs` |
| `OrderTopological` | `[]OrderIsTopological` | The search is a depth-first search: a node is `Visiting` exactly while it is on the stack, once, the frames of the stack follow edges, the order has the visited nodes, and unless a cycle was met each after its dependencies (`StackOK`, `SeenOK`, `OrderOK`). The builder of Day 17 needs no search: it accepts earlier nodes only. |
| `ValidationExact` | `[]ValidationIsExact` | An error means a cycle: what is reported is a part of the stack that an edge closes, and `Above` follows it around (`CycleRefutes`). No error means none: a finished order has dependencies first, along which no path leads back (`SortedAcyclic`), and a repeated, self or unknown edge is exactly one that `Keeps` rejects, by counting distinct pairs (`DistinctEdges`). |
| `TypeCorrect` | `[]TypeOK` | With the types of what `TypeOK` leaves open: the script, the local start times, the call stacks of helpers. |
| `OutcomesFollowGraph` | `[]OutcomesDetermined` | `JobOK`: a job that was submitted has exactly the dependencies and policy of its node, which takes the order of submission (a handle looked up too early is an empty one), and a done job has the outcome that the rule gives from those of its dependencies, which are done. Along the order the rule has one solution. |
| `ReportsAgree` | `[]ReportAgrees` | The script is a suffix of `Run` and the calls of main, every call before it has had its effect (`Passed`), and `Run` closes each node before it copies (`FullShape`). A node's record follows its job (`RecordOK`). |
| `FrozenRecords` | `[][...]` of `RecordsFrozen` | After the copy no closing call is left, and every job is done. |
| `IntervalsInOrder` | `[]IntervalsOrdered` | `TimeOK`: when a node begins, all that is behind it, directly or not, has ended. Dependencies that are canceled are the difficulty: they are done, but dated later, by main; the date is the end of something that is behind them, therefore also behind the node. |
| `CancellationsAreDated` | `[]CancellationsDated` | `Dated`: when main dates a canceled node, its dependencies' records are final, since the closing calls come in the order of submission. Going back along canceled dependencies, an executed node with that end is found; nothing behind the node ends later; and what is behind a node is what `Above` computes in as many rounds as there are nodes (`BehindIsAbove`), because an edge leads back in the order. |
| `CriticalPathLongest` | `[]CriticalPathIsLongest` | `PassOK`: when the pass of `PrintCriticalPath` has met a set of nodes, what it has found of each succeeded one is its own run time and the largest of its dependencies', all of which it has met, because a validated order has them first. So what is found of a node bounds every path that ends there (`PathsBounded`); the walk back goes to an earlier place of the order in each step, therefore ends (`WalkEnds`), and each end of it is a path as long as what was found (`WalkIsPath`). Run times are not negative, by `TimeOK`: otherwise a path could be longer than its end. |
| `NothingIsWaiting` | `[]NothingWaitsAtDestruction` | `LookInv`: a body that has ended has submitted its children, and has seen them done if it waits for them; every `get` and `WaitAll` that main has left behind has had its effect. A job with a future may still be on its way out of `ExecuteJob` when the pool is destroyed, so what is shown of each node is that it is running or done. Otherwise take the last node of the order of submission that is neither (`AllEnded`): no dependent can be without it, since a dependent comes later in the order, is running or done, and so found it done; and in each other way that `WaitsAssumption` allows, main has seen it end (`EndedOrNeeded`). |

DataLemmas has what these need of data: what pushes, pops and thefts do to the elements
and the injectivity of a sequence, induction over numbers and finite sets in the
form `NatInduct` and `SubsetInduct` (over a set of numbers or a subset, since the provers cannot
instantiate the library's schemes, which take a predicate), least and greatest elements,
the existence and the range of functions that are defined by recursion, and sums over a
finite set.

Only model-checked is everything under fairness, since liveness and `ENABLED` are outside the
prover: the temporal properties of `fork_join`, `graph`, `day16`, `day01` and `graph_runs`. Every
invariant and every action property of a passing run is a theorem.

## 5. Not modelled

- Days 2 and 6. Neither uses the pool; Day 6 loses updates on purpose and Day 2 counts
  wake-ups. Both are measurements, and nothing in the programs depends on the result.
- The arithmetic of `src/main.cpp` and Day 3: bounds of chunks, sums, times, tables.
- Of the regression suite: the counting and printing of results, the load multiplier.
- Failure to create a thread in the constructor, memory exhaustion, use of a handle of
  Day 21 after its pool.
- Text: printing, JSON, names of nodes in error messages, thread ids.

`PoolStats`, `SpuriousWakeup`, `JobStatePool` and `TraceRingBuffer` state no type
invariant: their other invariants fix the values that matter. Memory ordering is taken as
sequentially consistent: every shared access is an atomic with acquire and release,
or under a mutex.

## 6. Plan

1. More of the system: `NotifyComparison` (Day 2), the split of a range into chunks
   (Day 3), jobs that submit graphs from their bodies in JobGraph.
2. Proofs for what item 1 adds. Of what is modelled now, every safety property of a passing run
   is proved, and liveness stays with TLC.
