--------------------------- MODULE SpuriousWakeup ---------------------------
(***************************************************************************)
(* experiments/Day01_spuriouswakeup.cpp: one consumer waits on a condition *)
(* variable with a predicate (SafeConsumer), one without (BrokenConsumer), *)
(* for the jobs RunExperiment submits before it stops them.                *)
(*                                                                         *)
(* The sleeps of the producer guarantee nothing, so they are no steps.     *)
(***************************************************************************)
EXTENDS Integers, Sequences, FiniteSets, SequencesExt

CONSTANTS
  JobCount, \* jobs the producer submits, numbered from 1
  None      \* no job

ASSUME SpuriousAssumption == JobCount \in Nat /\ None \notin 1 .. JobCount

VARIABLES
  safe,      \* RunExperiment was given SafeConsumer, not BrokenConsumer
  queue,     \* g_queue
  stop,      \* g_stop
  processed, \* jobs counted by g_processedCount
  job,       \* the consumer's job
  mutex,     \* the consumer is about to block and still holds g_mutex
  next,      \* loop variable of the producer
  consumer,  \* what the consumer does next
  producer   \* what the producer does next

vars == <<safe, queue, stop, processed, job, mutex, next, consumer, producer>>

Init ==
  /\ safe \in BOOLEAN
  /\ queue = <<>>
  /\ stop = FALSE
  /\ processed = {}
  /\ job = None
  /\ mutex = FALSE
  /\ next = 1
  /\ consumer = "test"
  /\ producer = "push"

-----------------------------------------------------------------------------
(* The consumer.                                                           *)

LoopTest ==
  /\ consumer = "test"
  /\ consumer' = IF stop THEN "returned" ELSE "lock"
  /\ UNCHANGED <<queue, stop, processed, job, mutex, next, producer>>

TakeKeepsFront ==   \* bug: front without pop
  /\ job' = Head(queue)
  /\ consumer' = "run"
  /\ UNCHANGED queue

TakeJob ==
  /\ job' = Head(queue)
  /\ queue' = Tail(queue)
  /\ consumer' = "run"

Block == consumer' = "park" /\ mutex' = TRUE

(* BrokenConsumer blocks without a look at the queue or at the flag; it    *)
(* looks at the queue once something woke it.                              *)
WaitWithoutPredicate ==
  /\ \/ /\ consumer = "lock"
        /\ Block
        /\ UNCHANGED <<queue, job>>
     \/ /\ consumer = "awake" /\ queue = <<>>
        /\ consumer' = "test"
        /\ UNCHANGED <<queue, job, mutex>>
     \/ /\ consumer = "awake" /\ queue # <<>>
        /\ TakeJob
        /\ UNCHANGED mutex
  /\ UNCHANGED <<stop, processed, next, producer>>

(* SafeConsumer: the predicate, the exit test and the pop, under g_mutex.  *)
WaitWithPredicate ==
  /\ consumer \in {"lock", "awake"}
  /\ \/ /\ queue # <<>>
        /\ TakeJob
        /\ UNCHANGED mutex
     \/ /\ queue = <<>> /\ stop
        /\ consumer' = "returned"
        /\ UNCHANGED <<queue, job, mutex>>
     \/ /\ queue = <<>> /\ ~stop
        /\ Block
        /\ UNCHANGED <<queue, job>>
  /\ UNCHANGED <<stop, processed, next, producer>>

Sleep ==
  /\ consumer = "park"
  /\ consumer' = "asleep"
  /\ mutex' = FALSE
  /\ UNCHANGED <<queue, stop, processed, job, next, producer>>

SpuriousWake ==
  /\ consumer = "asleep"
  /\ consumer' = "awake"
  /\ UNCHANGED <<queue, stop, processed, job, mutex, next, producer>>

Run ==
  /\ consumer = "run"
  /\ processed' = processed \cup {job}
  /\ job' = None
  /\ consumer' = "test"
  /\ UNCHANGED <<queue, stop, mutex, next, producer>>

-----------------------------------------------------------------------------
(* The producer, RunExperiment.                                            *)

Notify == consumer' = IF consumer = "asleep" THEN "awake" ELSE consumer

Push ==
  /\ producer = "push" /\ next <= JobCount
  /\ ~mutex
  /\ queue' = Append(queue, next)
  /\ next' = next + 1
  /\ producer' = "notify"
  /\ UNCHANGED <<stop, processed, job, mutex, consumer>>

NotifyOne ==
  /\ producer = "notify"
  /\ Notify
  /\ producer' = "push"
  /\ UNCHANGED <<queue, stop, processed, job, mutex, next>>

Stop ==
  /\ producer = "push" /\ next > JobCount
  /\ ~mutex
  /\ stop' = TRUE
  /\ producer' = "stopping"
  /\ UNCHANGED <<queue, processed, job, mutex, next, consumer>>

NotifyAll ==
  /\ producer = "stopping"
  /\ Notify
  /\ producer' = "joining"
  /\ UNCHANGED <<queue, stop, processed, job, mutex, next>>

Join ==
  /\ producer = "joining" /\ consumer = "returned"
  /\ producer' = "joined"
  /\ UNCHANGED <<queue, stop, processed, job, mutex, next, consumer>>

Finished == producer = "joined" /\ UNCHANGED vars

ConsumerStep ==
  /\ \/ LoopTest \/ Sleep \/ Run
     \/ safe /\ WaitWithPredicate
     \/ ~safe /\ WaitWithoutPredicate
  /\ UNCHANGED safe

ProducerStep == (Push \/ NotifyOne \/ Stop \/ NotifyAll \/ Join) /\ UNCHANGED safe

Spurious == SpuriousWake /\ UNCHANGED safe

Next == ConsumerStep \/ ProducerStep \/ Spurious \/ Finished

Spec == Init /\ [][Next]_vars

FairSpec == Spec /\ WF_vars(ConsumerStep) /\ SF_vars(ProducerStep)

-----------------------------------------------------------------------------
(* Properties.                                                             *)

(* Whatever wakes the consumer and when, it takes no job from an empty     *)
(* queue, none is lost on the way to the count, and they leave in the      *)
(* order they came (lines 50 to 126).                                      *)
JobsAccounted ==
  /\ processed = 1 .. Cardinality(processed)
  /\ LET inHand == IF job = None THEN <<>> ELSE <<job>>
     IN  inHand \o queue = [i \in 1 .. next - 1 - Cardinality(processed) |-> Cardinality(processed) + i]

(* The consumer with the predicate sees the flag however the stop races    *)
(* its wait, so join returns.  BrokenConsumer may block after the flag was *)
(* set and notified, and then it does not return.                          *)
JoinReturns == safe => <>(producer = "joined")

(* In the SAFE version the number of processed jobs is always the number   *)
(* of submitted ones (comment at lines 211 and 212).                       *)
SafeProcessesAll == safe /\ producer = "joined" => processed = 1 .. JobCount

=============================================================================
