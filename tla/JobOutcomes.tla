---------------------------- MODULE JobOutcomes ----------------------------
(***************************************************************************)
(* What a client of ThreadPool may rely on when it submits jobs with       *)
(* dependencies: one life for each job, one outcome for each life.  There  *)
(* are no continuations, counters, flags or locks here; JobGraph has them  *)
(* and implements this, and GraphRun builds the graph classes on it.       *)
(***************************************************************************)
CONSTANTS
  Jobs,        \* jobs that may be submitted
  None         \* the outcome of success, and of a job that is not done

VARIABLES
  phase,       \* how far each job has come
  deps,        \* the jobs it was submitted after
  successOnly, \* jobs submitted by SubmitAfterAllSucceeded
  outcome,     \* the exception a handle reports, or None
  closed       \* the pool has been stopped

vars == <<phase, deps, successOnly, outcome, closed>>

Init ==
  /\ phase = [j \in Jobs |-> "new"]
  /\ deps = [j \in Jobs |-> {}]
  /\ successOnly = {}
  /\ outcome = [j \in Jobs |-> None]
  /\ closed = FALSE

Move(j, from, to) ==
  /\ phase[j] = from
  /\ phase' = [phase EXCEPT ![j] = to]

(* A job is submitted after jobs whose handles exist; one that is          *)
(* submitted after none is in a queue when the call returns.               *)
Submit(j, after, needsSuccess) ==
  /\ ~closed
  /\ \A d \in after : phase[d] # "new"
  /\ Move(j, "new", IF after = {} THEN "queued" ELSE "waiting")
  /\ deps' = [deps EXCEPT ![j] = after]
  /\ successOnly' = IF needsSuccess THEN successOnly \cup {j} ELSE successOnly
  /\ UNCHANGED <<outcome, closed>>

Ready(j) == \A d \in deps[j] : phase[d] = "done"

DependencyFailed(j) == j \in successOnly /\ \E d \in deps[j] : outcome[d] # None

Queue(j) ==
  /\ Ready(j) /\ ~DependencyFailed(j) /\ ~closed
  /\ Move(j, "waiting", "queued")
  /\ UNCHANGED <<deps, successOnly, outcome, closed>>

Cancel(j) ==
  /\ Ready(j) /\ DependencyFailed(j)
  /\ Move(j, "waiting", "done")
  /\ outcome' = [outcome EXCEPT ![j] = "canceled"]
  /\ UNCHANGED <<deps, successOnly, closed>>

Start(j) ==
  /\ Move(j, "queued", "running")
  /\ UNCHANGED <<deps, successOnly, outcome, closed>>

Finish(j, result) ==
  /\ Move(j, "running", "done")
  /\ outcome' = [outcome EXCEPT ![j] = result]
  /\ UNCHANGED <<deps, successOnly, closed>>

(* A stopped pool rejects the successors of a job that completes late, and *)
(* the rejection replaces the outcome of that job.                         *)
Reject(j) ==
  /\ closed /\ phase[j] = "done"
  /\ outcome' = [outcome EXCEPT ![j] = "rejected"]
  /\ UNCHANGED <<phase, deps, successOnly, closed>>

Close ==
  /\ ~closed
  /\ closed' = TRUE
  /\ UNCHANGED <<phase, deps, successOnly, outcome>>

JobStep(j) ==
  \/ \E after \in SUBSET Jobs, needsSuccess \in BOOLEAN : Submit(j, after, needsSuccess)
  \/ Queue(j) \/ Cancel(j) \/ Start(j) \/ Reject(j)
  \/ \E result \in {None, "thrown"} : Finish(j, result)

Next == Close \/ \E j \in Jobs : JobStep(j)

Spec == Init /\ [][Next]_vars

=============================================================================
