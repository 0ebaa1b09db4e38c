-------------------------- MODULE WorkStealingPool --------------------------
(***************************************************************************)
(* The pool of experiments/Day16_WorkStealing.cpp: one queue per worker    *)
(* and no global one, no mutex around the sleep of the workers but a 1 ms  *)
(* timeout, and a completion signal that is sent without _waitMutex.       *)
(*                                                                         *)
(* Jobs are submitted by clients and do not throw, as in the experiment:   *)
(* nothing in this pool catches an exception.                              *)
(***************************************************************************)
EXTENDS Integers, Sequences, FiniteSets, SequencesExt

CONSTANTS
  WorkerCount, \* number of workers
  Clients,     \* threads that submit and wait
  Owner,       \* the client that destroys the pool
  Jobs,        \* jobs that may be submitted, each once
  None         \* no job

Workers == 0 .. WorkerCount - 1
Threads == Workers \cup Clients

ASSUME StealingAssumption ==
  /\ WorkerCount \in Nat \ {0}
  /\ Owner \in Clients
  /\ Workers \cap Clients = {}
  /\ None \notin Jobs

VARIABLES
  queues,      \* _workers[w]->queue
  pendingJobs, \* _pendingJobs
  stop,        \* _stop
  job,         \* a worker's job; the job and queue of a client's SubmitTo
  offset,      \* loop variable of TrySteal
  counted,     \* jobs SubmitTo has counted
  ran,         \* jobs whose body has returned
  pc

vars == <<queues, pendingJobs, stop, job, offset, counted, ran, pc>>

WorkerPc == {"look", "steal", "body", "count", "signal", "check", "park", "rest", "exited"}
ClientPc == {"idle", "push", "wake", "decided", "waiting", "recheck", "stopping", "joining", "gone"}

TypeOK ==
  /\ queues \in [Workers -> Seq(Jobs)]
  /\ pendingJobs \in Nat
  /\ stop \in BOOLEAN
  /\ job \in [Threads -> Jobs \cup {None}]
  /\ offset \in [Workers -> 1 .. WorkerCount]
  /\ counted \subseteq Jobs /\ ran \subseteq Jobs
  /\ \A w \in Workers : pc[w] \in WorkerPc
  /\ \A c \in Clients : pc[c] \in ClientPc

Init ==
  /\ queues = [w \in Workers |-> <<>>]
  /\ pendingJobs = 0
  /\ stop = FALSE
  /\ job = [t \in Threads |-> None]
  /\ offset = [w \in Workers |-> 1]
  /\ counted = {} /\ ran = {}
  /\ pc = [t \in Threads |-> IF t \in Workers THEN "look" ELSE "idle"]

Goto(t, to) == pc' = [pc EXCEPT ![t] = to]

(* notify_all: the threads at "from" go on at "to", the caller at "next".  *)
Notify(t, next, from, to) ==
  pc' = [x \in Threads |-> IF x = t THEN next ELSE IF pc[x] = from THEN to ELSE pc[x]]

-----------------------------------------------------------------------------
(* SubmitTo: count, push, notify.                                          *)

(* Bug: the counter is not touched before the push.                        *)
CountLater(c, j) ==
  /\ pc[c] = "idle" /\ ~stop
  /\ j \notin counted
  /\ counted' = counted \cup {j}
  /\ job' = [job EXCEPT ![c] = j]
  /\ Goto(c, "push")
  /\ UNCHANGED <<queues, pendingJobs, stop, offset, ran>>

Count(c, j) ==
  /\ pc[c] = "idle" /\ ~stop
  /\ j \notin counted
  /\ counted' = counted \cup {j}
  /\ pendingJobs' = pendingJobs + 1
  /\ job' = [job EXCEPT ![c] = j]
  /\ Goto(c, "push")
  /\ UNCHANGED <<queues, stop, offset, ran>>

Push(c, w) ==
  /\ pc[c] = "push"
  /\ queues' = [queues EXCEPT ![w] = Append(@, job[c])]
  /\ job' = [job EXCEPT ![c] = None]
  /\ Goto(c, "wake")
  /\ UNCHANGED <<pendingJobs, stop, offset, counted, ran>>

NotifyWorkers(c) ==
  /\ pc[c] = "wake"
  /\ Notify(c, "idle", "rest", "look")
  /\ UNCHANGED <<queues, pendingJobs, stop, job, offset, counted, ran>>

-----------------------------------------------------------------------------
(* WorkerLoop.                                                             *)

Take(w, j) ==
  /\ job' = [job EXCEPT ![w] = j]
  /\ Goto(w, "body")

TryPopOwn(w) ==
  /\ pc[w] = "look"
  /\ \/ /\ queues[w] # <<>>
        /\ Take(w, Last(queues[w]))
        /\ queues' = [queues EXCEPT ![w] = Front(@)]
        /\ UNCHANGED offset
     \/ /\ queues[w] = <<>>
        /\ Goto(w, "steal")
        /\ offset' = [offset EXCEPT ![w] = 1]
        /\ UNCHANGED <<queues, job>>
  /\ UNCHANGED <<pendingJobs, stop, counted, ran>>

Victim(w) == (w + offset[w]) % WorkerCount

(* Bug: moves from the front, pops at the back.                            *)
TryStealPopBack(w) ==
  /\ pc[w] = "steal"
  /\ IF offset[w] < WorkerCount /\ queues[Victim(w)] # <<>>
     THEN /\ Take(w, Head(queues[Victim(w)]))
          /\ queues' = [queues EXCEPT ![Victim(w)] = Front(@)]
     ELSE /\ Goto(w, "check")
          /\ UNCHANGED <<queues, job>>
  /\ UNCHANGED <<pendingJobs, stop, offset, counted, ran>>

TrySteal(w) ==
  /\ pc[w] = "steal"
  /\ \/ /\ offset[w] < WorkerCount /\ queues[Victim(w)] # <<>>
        /\ Take(w, Head(queues[Victim(w)]))
        /\ queues' = [queues EXCEPT ![Victim(w)] = Tail(@)]
        /\ UNCHANGED offset
     \/ /\ offset[w] < WorkerCount /\ queues[Victim(w)] = <<>>
        /\ offset' = [offset EXCEPT ![w] = @ + 1]
        /\ UNCHANGED <<queues, job, pc>>
     \/ /\ offset[w] = WorkerCount
        /\ Goto(w, "check")
        /\ UNCHANGED <<queues, job, offset>>
  /\ UNCHANGED <<pendingJobs, stop, counted, ran>>

RunJob(w) ==
  /\ pc[w] = "body"
  /\ ran' = ran \cup {job[w]}
  /\ Goto(w, "count")
  /\ UNCHANGED <<queues, pendingJobs, stop, job, offset, counted>>

(* fetch_sub on _pendingJobs.                                              *)
Discount(w) ==
  /\ pc[w] = "count"
  /\ pendingJobs' = pendingJobs - 1
  /\ job' = [job EXCEPT ![w] = None]
  /\ Goto(w, IF pendingJobs = 1 THEN "signal" ELSE "look")
  /\ UNCHANGED <<queues, stop, offset, counted, ran>>

(* _waitCv.notify_all: no mutex is held.                                   *)
SignalCompletion(w) ==
  /\ pc[w] = "signal"
  /\ Notify(w, "look", "waiting", "recheck")
  /\ UNCHANGED <<queues, pendingJobs, stop, job, offset, counted, ran>>

(* Bug: the exit test is for zero or one job left.                         *)
CheckExitOneLeft(w) ==
  /\ pc[w] = "check"
  /\ Goto(w, IF stop /\ pendingJobs <= 1 THEN "exited" ELSE "park")
  /\ UNCHANGED <<queues, pendingJobs, stop, job, offset, counted, ran>>

CheckExit(w) ==
  /\ pc[w] = "check"
  /\ Goto(w, IF stop /\ pendingJobs = 0 THEN "exited" ELSE "park")
  /\ UNCHANGED <<queues, pendingJobs, stop, job, offset, counted, ran>>

(* wait_for blocks; nothing kept a notification from coming before that.   *)
Rest(w) ==
  /\ pc[w] = "park"
  /\ Goto(w, "rest")
  /\ UNCHANGED <<queues, pendingJobs, stop, job, offset, counted, ran>>

NoTimeout(w) == FALSE   \* bug: wait in place of wait_for

Timeout(w) ==
  /\ pc[w] = "rest"
  /\ Goto(w, "look")
  /\ UNCHANGED <<queues, pendingJobs, stop, job, offset, counted, ran>>

-----------------------------------------------------------------------------
(* WaitAll and the destructor.  _waitMutex is not modelled: nobody who     *)
(* changes _pendingJobs or signals takes it.                               *)

WaitAll(c) ==
  /\ pc[c] = "recheck" \/ (pc[c] = "idle" /\ ~stop)
  /\ Goto(c, IF pendingJobs = 0 THEN "idle" ELSE "decided")
  /\ UNCHANGED <<queues, pendingJobs, stop, job, offset, counted, ran>>

WaitAllSleep(c) ==
  /\ pc[c] = "decided"
  /\ Goto(c, "waiting")
  /\ UNCHANGED <<queues, pendingJobs, stop, job, offset, counted, ran>>

SpuriousWakeup(c) ==
  /\ pc[c] = "waiting"
  /\ Goto(c, "recheck")
  /\ UNCHANGED <<queues, pendingJobs, stop, job, offset, counted, ran>>

Destroy ==
  /\ ~stop
  /\ \A c \in Clients : pc[c] = "idle"
  /\ stop' = TRUE
  /\ Goto(Owner, "stopping")
  /\ UNCHANGED <<queues, pendingJobs, job, offset, counted, ran>>

NotifyStop ==
  /\ pc[Owner] = "stopping"
  /\ Notify(Owner, "joining", "rest", "look")
  /\ UNCHANGED <<queues, pendingJobs, stop, job, offset, counted, ran>>

Join ==
  /\ pc[Owner] = "joining"
  /\ \A w \in Workers : pc[w] = "exited"
  /\ Goto(Owner, "gone")
  /\ UNCHANGED <<queues, pendingJobs, stop, job, offset, counted, ran>>

Terminated == pc[Owner] = "gone" /\ UNCHANGED vars

-----------------------------------------------------------------------------
WorkerStep(w) == \/ TryPopOwn(w) \/ TrySteal(w) \/ RunJob(w) \/ Discount(w) \/ SignalCompletion(w)
                 \/ CheckExit(w) \/ Rest(w) \/ Timeout(w)

InSubmit(c) == (\E w \in Workers : Push(c, w)) \/ NotifyWorkers(c)

Next ==
  \/ \E w \in Workers : WorkerStep(w)
  \/ \E c \in Clients : \/ \E j \in Jobs : Count(c, j)
                        \/ InSubmit(c) \/ WaitAll(c) \/ WaitAllSleep(c) \/ SpuriousWakeup(c)
  \/ Destroy \/ NotifyStop \/ Join \/ Terminated

Spec == Init /\ [][Next]_vars

(* Timeouts expire, bodies end, and a thread inside a call goes on.        *)
Fairness ==
  /\ \A w \in Workers : WF_vars(WorkerStep(w))
  /\ \A c \in Clients : WF_vars(InSubmit(c) \/ (pc[c] = "recheck" /\ WaitAll(c)) \/ WaitAllSleep(c))
  /\ WF_vars(NotifyStop \/ Join)

FairSpec == Spec /\ Fairness

-----------------------------------------------------------------------------
(* Properties.                                                             *)

Queued(j) == \E w \in Workers : j \in ToSet(queues[w])
Held(j)   == \E t \in Threads : job[t] = j

(* The counter covers every job from before it is pushed until after its   *)
(* body, so it never passes below zero and a worker that exits because it  *)
(* is zero leaves nothing behind.                                          *)
PendingCoversJobs ==
  pendingJobs = Cardinality({j \in Jobs : Queued(j) \/ Held(j)})

(* The pool keeps the promise of JobPool, as ThreadPool does: stealing     *)
(* from one end while the owner works at the other neither loses nor       *)
(* repeats a job, and no WaitAll or destructor returns early.              *)
JobStatus(j) ==
  IF Queued(j) THEN "queued"
  ELSE IF \E w \in Workers : job[w] = j THEN IF j \in ran THEN "done" ELSE "running"
  ELSE IF j \in ran THEN "retired" ELSE "new"

Abstract == INSTANCE JobPool WITH
  Frames  <- {},
  status  <- [j \in Jobs |-> JobStatus(j)],
  phase   <- IF ~stop THEN "open" ELSE IF pc[Owner] = "gone" THEN "closed" ELSE "stopping",
  waiting <- {c \in Clients : pc[c] \in {"decided", "waiting", "recheck"}},
  target  <- <<>>

ImplementsJobPool == Abstract!Spec

(* A worker that misses a notification is late by a timeout, not asleep    *)
(* for good: what is submitted runs, and the destructor returns.           *)
SubmittedJobsRun  == \A j \in Jobs : j \in counted ~> j \in ran
DestructorReturns == stop ~> pc[Owner] = "gone"

(* The pending counter tracks the completion of everything submitted, so   *)
(* a client that waits for it comes back (README.md, Day 16).              *)
WaitAllReturns ==
  \A c \in Clients : pc[c] \in {"decided", "waiting", "recheck"} ~> pc[c] = "idle"

=============================================================================
