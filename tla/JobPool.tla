------------------------------ MODULE JobPool ------------------------------
(***************************************************************************)
(* What a thread pool promises, with no threads and no queues in it: a     *)
(* submitted job is run once and retired once, nobody returns from a wait  *)
(* early, and the pool closes only when it has retired every job.          *)
(***************************************************************************)
CONSTANTS
  Jobs,      \* jobs that may be submitted
  Clients,   \* callers of WaitAll
  Frames,    \* whatever can wait for one job: a client's code, a job's body
  None       \* no job

VARIABLES
  status,    \* how far each job has come
  phase,     \* of the pool
  waiting,   \* clients blocked in WaitAll
  target     \* the job a frame is blocked on, or None

vars == <<status, phase, waiting, target>>

Quiescent == \A j \in Jobs : status[j] \in {"new", "retired"}

Init ==
  /\ status = [j \in Jobs |-> "new"]
  /\ phase = "open"
  /\ waiting = {}
  /\ target = [f \in Frames |-> None]

Advance(j, from, to) ==
  /\ status[j] = from
  /\ status' = [status EXCEPT ![j] = to]
  /\ UNCHANGED <<phase, waiting, target>>

(* A stopped pool takes no job.                                            *)
Submit(j) == phase = "open" /\ Advance(j, "new", "queued")
Start(j)  == Advance(j, "queued", "running")
Finish(j) == Advance(j, "running", "done")
Retire(j) == Advance(j, "done", "retired")

BeginWaitAll(c) ==
  /\ phase = "open"
  /\ waiting' = waiting \cup {c}
  /\ UNCHANGED <<status, phase, target>>

EndWaitAll(c) ==
  /\ c \in waiting
  /\ Quiescent
  /\ waiting' = waiting \ {c}
  /\ UNCHANGED <<status, phase, target>>

BeginWait(f, j) ==
  /\ target[f] = None
  /\ status[j] # "new"
  /\ target' = [target EXCEPT ![f] = j]
  /\ UNCHANGED <<status, phase, waiting>>

EndWait(f) ==
  /\ target[f] # None
  /\ status[target[f]] \in {"done", "retired"}
  /\ target' = [target EXCEPT ![f] = None]
  /\ UNCHANGED <<status, phase, waiting>>

Stop ==
  /\ phase = "open"
  /\ waiting = {}
  /\ phase' = "stopping"
  /\ UNCHANGED <<status, waiting, target>>

Close ==
  /\ phase = "stopping"
  /\ Quiescent
  /\ phase' = "closed"
  /\ UNCHANGED <<status, waiting, target>>

Next ==
  \/ \E j \in Jobs : Submit(j) \/ Start(j) \/ Finish(j) \/ Retire(j)
  \/ \E c \in Clients : BeginWaitAll(c) \/ EndWaitAll(c)
  \/ \E f \in Frames : EndWait(f) \/ \E j \in Jobs : BeginWait(f, j)
  \/ Stop \/ Close

Spec == Init /\ [][Next]_vars

=============================================================================
