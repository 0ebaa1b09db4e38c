----------------------- MODULE WorkStealingPoolProofs -----------------------
(***************************************************************************)
(* Theorems about WorkStealingPool, for every number of workers and every  *)
(* set of clients and jobs.                                                *)
(*                                                                         *)
(* A job that SubmitTo has counted is in the hand of its client, in one    *)
(* queue, or in the hand of one worker; it leaves each place in the step   *)
(* that puts it into the next, and the counter covers all three.           *)
(***************************************************************************)
EXTENDS WorkStealingPool, DataLemmas, TLAPS

PcOK ==
  /\ pc \in [Threads -> WorkerPc \cup ClientPc]
  /\ \A w \in Workers : pc[w] \in WorkerPc
  /\ \A c \in Clients : pc[c] \in ClientPc

DataOK ==
  /\ queues \in [Workers -> Seq(Jobs)] /\ \A w \in Workers : IsInjective(queues[w])
  /\ stop \in BOOLEAN
  /\ job \in [Threads -> Jobs \cup {None}]
  /\ offset \in [Workers -> 1 .. WorkerCount]
  /\ counted \subseteq Jobs /\ ran \subseteq Jobs

(* Where a thread has a job in its hand.                                   *)
HandPc == {"push", "body", "count"}

HandOK == \A t \in Threads : job[t] = None <=> pc[t] \notin HandPc

(* A job is in one place, and its body runs once, between the queue and    *)
(* the counter.                                                            *)
QueuedOK(j) ==
  \A w \in Workers : j \in ToSet(queues[w]) =>
    /\ j \in counted \ ran
    /\ \A v \in Workers : j \in ToSet(queues[v]) => v = w
    /\ \A t \in Threads : job[t] # j

HeldOK(j) ==
  \A t \in Threads : job[t] = j => /\ j \in counted
                                   /\ j \in ran <=> pc[t] = "count"
                                   /\ \A u \in Threads : job[u] = j => u = t

PlaceOK == \A j \in Jobs : QueuedOK(j) /\ HeldOK(j) /\ (j \in ran => j \in counted)

(* What the pending counter counts.                                        *)
Live == {j \in Jobs : Queued(j) \/ Held(j)}

CountOK == IsFiniteSet(Live) /\ pendingJobs = Cardinality(Live)

(* Nobody is in a call while the pool is destroyed, and a worker that has  *)
(* left found nothing to do.                                               *)
StopOK ==
  /\ \A c \in Clients : IF stop THEN pc[c] = "idle" \/ c = Owner
                                ELSE pc[c] \notin {"stopping", "joining", "gone"}
  /\ stop => pc[Owner] \in {"stopping", "joining", "gone"}
  /\ \A w \in Workers : pc[w] = "exited" => stop /\ pendingJobs = 0
  /\ pc[Owner] = "gone" => pendingJobs = 0

Inv == PcOK /\ DataOK /\ HandOK /\ PlaceOK /\ CountOK /\ StopOK

-----------------------------------------------------------------------------
(* How a step moves the threads.                                           *)

LEMMA GotoMoves ==
  ASSUME PcOK, NEW t \in Threads, NEW to, Goto(t, to),
         t \in Workers => to \in WorkerPc, t \in Clients => to \in ClientPc
  PROVE  PcOK' /\ pc'[t] = to /\ \A u \in Threads \ {t} : pc'[u] = pc[u]
<1>1. to \in WorkerPc \cup ClientPc
  BY DEF Threads
<1>2. pc' \in [Threads -> WorkerPc \cup ClientPc]
  BY <1>1 DEF Goto, PcOK
<1>3. pc'[t] = to /\ \A u \in Threads \ {t} : pc'[u] = pc[u]
  BY DEF Goto, PcOK
<1> QED  BY <1>2, <1>3 DEF PcOK, Threads

(* notify_all by t wakes the threads of the other kind only.               *)
LEMMA NotifyMoves ==
  ASSUME PcOK, NEW t \in Threads, NEW next, NEW from, NEW to, Notify(t, next, from, to),
         \/ t \in Clients /\ next \in ClientPc /\ from = "rest" /\ to = "look"
         \/ t \in Workers /\ next \in WorkerPc /\ from = "waiting" /\ to = "recheck"
  PROVE  /\ PcOK' /\ pc'[t] = next
         /\ \A u \in Threads \ {t} : \/ pc'[u] = pc[u]
                                     \/ pc[u] = "rest" /\ pc'[u] = "look"
                                     \/ pc[u] = "waiting" /\ pc'[u] = "recheck"
<1> USE StealingAssumption
<1>1. pc'[t] = next /\ \A u \in Threads \ {t} : pc'[u] = IF pc[u] = from THEN to ELSE pc[u]
  BY DEF Notify
<1>2. ASSUME NEW u \in Threads
      PROVE  /\ u \in Workers => pc'[u] \in WorkerPc
             /\ u \in Clients => pc'[u] \in ClientPc
  BY <1>1, <1>2 DEF PcOK, WorkerPc, ClientPc, Threads
<1>3. pc' \in [Threads -> WorkerPc \cup ClientPc]
  BY <1>2 DEF Notify, Threads
<1> QED  BY <1>1, <1>2, <1>3 DEF PcOK, Threads

(* A step that moves threads, and no job.                                  *)
LEMMA QuietStep ==
  ASSUME Inv, PcOK', DataOK',
         UNCHANGED <<queues, pendingJobs, job, counted, ran>>,
         \A t \in Threads : pc'[t] = pc[t] \/ (pc[t] \notin HandPc /\ pc'[t] \notin HandPc)
  PROVE  HandOK' /\ PlaceOK' /\ CountOK'
<1>1. HandOK'
  BY DEF Inv, HandOK
<1>2. ASSUME NEW j \in Jobs PROVE QueuedOK(j)' /\ HeldOK(j)' /\ (j \in ran => j \in counted)'
  <2>1. QueuedOK(j) /\ HeldOK(j) /\ (j \in ran => j \in counted)
    BY DEF Inv, PlaceOK
  <2>2. \A t \in Threads : pc'[t] = "count" <=> pc[t] = "count"
    BY DEF HandPc
  <2> QED  BY <2>1, <2>2 DEF QueuedOK, HeldOK
<1>3. CountOK'
  <2>1. Live' = Live
    BY DEF Live, Queued, Held
  <2> QED  BY <2>1 DEF Inv, CountOK
<1> QED  BY <1>1, <1>2, <1>3 DEF PlaceOK

(* Where a job is, when it is somewhere.                                   *)
LEMMA PendingPositive ==
  ASSUME Inv, NEW j \in Live
  PROVE  pendingJobs \in Nat \ {0}
<1>1. IsFiniteSet(Live) /\ pendingJobs = Cardinality(Live) /\ Live # {}
  BY DEF Inv, CountOK
<1> QED  BY <1>1, FS_CardinalityType, FS_EmptySet

LEMMA PendingZero ==
  ASSUME Inv, pendingJobs = 0
  PROVE  Live = {}
BY PendingPositive DEF Inv

-----------------------------------------------------------------------------
LEMMA InvInit == Init => Inv
<1> SUFFICES ASSUME Init PROVE Inv
  OBVIOUS
<1> USE StealingAssumption
<1>1. PcOK
  <2>1. pc \in [Threads -> WorkerPc \cup ClientPc]
    BY DEF Init, WorkerPc, ClientPc
  <2> QED  BY <2>1 DEF Init, PcOK, WorkerPc, ClientPc, Threads
<1>2. DataOK
  <2>1. <<>> \in Seq(Jobs) /\ IsInjective(<<>>)
    BY DEF IsInjective
  <2>2. 1 \in 1 .. WorkerCount
    OBVIOUS
  <2> QED  BY <2>1, <2>2 DEF Init, DataOK
<1>3. HandOK
  BY DEF Init, HandOK, HandPc
<1>4. \A w \in Workers : ToSet(queues[w]) = {}
  BY DEF Init, ToSet
<1>5. PlaceOK
  BY <1>4 DEF Init, PlaceOK, QueuedOK, HeldOK
<1>6. CountOK
  <2>1. Live = {}
    BY <1>4 DEF Init, Live, Queued, Held
  <2> QED  BY <2>1, FS_EmptySet DEF Init, CountOK
<1>7. StopOK
  BY DEF Init, StopOK, Threads
<1> QED  BY <1>1, <1>2, <1>3, <1>5, <1>6, <1>7 DEF Inv

-----------------------------------------------------------------------------
(* The steps that move a job.                                              *)

LEMMA CountInv ==
  ASSUME Inv, NEW c \in Clients, NEW j \in Jobs, Count(c, j)
  PROVE  Inv'
<1> USE StealingAssumption
<1>0. PcOK /\ DataOK /\ HandOK /\ PlaceOK /\ CountOK /\ StopOK
  BY DEF Inv
<1>1. /\ pc[c] = "idle" /\ ~stop /\ j \notin counted
      /\ counted' = counted \cup {j} /\ pendingJobs' = pendingJobs + 1
      /\ job' = [job EXCEPT ![c] = j]
      /\ UNCHANGED <<queues, stop, offset, ran>>
  BY DEF Count
<1>2. /\ PcOK' /\ pc'[c] = "push" /\ \A u \in Threads \ {c} : pc'[u] = pc[u]
  <2>1. c \in Threads /\ "push" \in ClientPc /\ c \notin Workers
    BY DEF Threads, ClientPc
  <2> QED  BY <1>0, <2>1, GotoMoves DEF Count
<1>3. /\ job'[c] = j /\ \A u \in Threads \ {c} : job'[u] = job[u]
      /\ job[c] = None
  BY <1>0, <1>1 DEF DataOK, HandOK, HandPc, Threads
<1>4. DataOK'
  BY <1>0, <1>1 DEF DataOK
<1>5. HandOK'
  BY <1>0, <1>2, <1>3 DEF HandOK, HandPc
<1>6. ~Queued(j) /\ ~Held(j)
  BY <1>0, <1>1 DEF Queued, Held, PlaceOK, QueuedOK, HeldOK
<1>7. ASSUME NEW k \in Jobs PROVE QueuedOK(k)' /\ HeldOK(k)' /\ (k \in ran => k \in counted)'
  <2>1. QueuedOK(k) /\ HeldOK(k) /\ (k \in ran => k \in counted)
    BY <1>0 DEF PlaceOK
  <2>2. CASE k = j
    BY <1>1, <1>2, <1>3, <1>6, <2>1, <2>2 DEF QueuedOK, HeldOK, Queued, Held, Threads
  <2>3. CASE k # j
    <3>1. \A t \in Threads : job'[t] = k => job[t] = k /\ pc'[t] = pc[t]
      BY <1>2, <1>3, <2>3
    <3> QED  BY <1>1, <2>1, <2>3, <3>1 DEF QueuedOK, HeldOK
  <2> QED  BY <2>2, <2>3
<1>8. Live' = Live \cup {j} /\ j \notin Live
  <2>1. \A k \in Jobs : Queued(k)' <=> Queued(k)
    BY <1>1 DEF Queued
  <2>2. \A k \in Jobs : Held(k)' <=> Held(k) \/ k = j
    BY <1>3 DEF Held, Threads
  <2> QED  BY <1>6, <2>1, <2>2 DEF Live
<1>9. CountOK'
  <2>1. IsFiniteSet(Live \cup {j}) /\ Cardinality(Live \cup {j}) = Cardinality(Live) + 1
    BY <1>0, <1>8, FS_AddElement DEF CountOK
  <2> QED  BY <1>0, <1>1, <1>8, <2>1 DEF CountOK
<1>10. StopOK'
  BY <1>0, <1>1, <1>2 DEF StopOK, Threads
<1> QED  BY <1>2, <1>4, <1>5, <1>7, <1>9, <1>10 DEF Inv, PlaceOK

(* The job a client is submitting, as Push finds it.                       *)
LEMMA Pushing ==
  ASSUME Inv, NEW c \in Clients, pc[c] = "push"
  PROVE  /\ job[c] \in Jobs /\ job[c] \in counted \ ran /\ ~Queued(job[c])
         /\ \A u \in Threads : job[u] = job[c] => u = c
         /\ ~stop
<1>1. job[c] \in Jobs /\ c \in Threads
  BY DEF Inv, DataOK, HandOK, HandPc, Threads
<1>2. QueuedOK(job[c]) /\ HeldOK(job[c])
  BY <1>1 DEF Inv, PlaceOK
<1>3. ~stop
  BY DEF Inv, StopOK
<1> QED  BY <1>1, <1>2, <1>3 DEF QueuedOK, HeldOK, Queued

LEMMA PushInv ==
  ASSUME Inv, NEW c \in Clients, NEW w \in Workers, Push(c, w)
  PROVE  /\ Inv'
         /\ ToSet(queues'[w]) = ToSet(queues[w]) \cup {job[c]}
         /\ \A v \in Workers \ {w} : queues'[v] = queues[v]
         /\ job'[c] = None /\ \A u \in Threads \ {c} : job'[u] = job[u]
<1> USE StealingAssumption
<1>0. PcOK /\ DataOK /\ HandOK /\ PlaceOK /\ CountOK /\ StopOK
  BY DEF Inv
<1>1. PICK x \in Jobs : x = job[c]
  BY Pushing DEF Push
<1>2. x \in counted \ ran /\ ~Queued(x) /\ ~stop /\ \A u \in Threads : job[u] = x => u = c
  BY <1>1, Pushing DEF Push
<1>3. /\ pc[c] = "push"
      /\ queues' = [queues EXCEPT ![w] = Append(queues[w], x)]
      /\ job' = [job EXCEPT ![c] = None]
      /\ UNCHANGED <<pendingJobs, stop, offset, counted, ran>>
  BY <1>1 DEF Push
<1>4. /\ PcOK' /\ pc'[c] = "wake" /\ \A u \in Threads \ {c} : pc'[u] = pc[u]
  <2>1. c \in Threads /\ "wake" \in ClientPc /\ c \notin Workers
    BY DEF Threads, ClientPc
  <2> QED  BY <1>0, <2>1, GotoMoves DEF Push
<1>5. job'[c] = None /\ \A u \in Threads \ {c} : job'[u] = job[u]
  BY <1>0, <1>3 DEF DataOK, Threads
<1>6. /\ Append(queues[w], x) \in Seq(Jobs) /\ IsInjective(Append(queues[w], x))
      /\ ToSet(Append(queues[w], x)) = ToSet(queues[w]) \cup {x}
  BY <1>0, <1>2, AppendElems DEF DataOK, Queued
<1>7. /\ queues'[w] = Append(queues[w], x) /\ \A v \in Workers \ {w} : queues'[v] = queues[v]
      /\ ToSet(queues'[w]) = ToSet(queues[w]) \cup {x}
  BY <1>0, <1>3, <1>6 DEF DataOK
<1>8. DataOK'
  BY <1>0, <1>3, <1>6, <1>7 DEF DataOK
<1>9. HandOK'
  BY <1>0, <1>4, <1>5 DEF HandOK, HandPc
<1>10. ASSUME NEW k \in Jobs PROVE QueuedOK(k)' /\ HeldOK(k)' /\ (k \in ran => k \in counted)'
  <2>1. QueuedOK(k) /\ HeldOK(k) /\ (k \in ran => k \in counted)
    BY <1>0 DEF PlaceOK
  <2>2. CASE k = x
    <3>1. \A t \in Threads : job'[t] # k
      BY <1>2, <1>5, <2>2
    <3>2. \A v \in Workers : k \in ToSet(queues'[v]) => v = w
      BY <1>2, <1>7, <2>2 DEF Queued
    <3> QED  BY <1>2, <1>3, <2>2, <3>1, <3>2 DEF QueuedOK, HeldOK
  <2>3. CASE k # x
    <3>1. \A t \in Threads : job'[t] = k => job[t] = k /\ pc'[t] = pc[t]
      BY <1>4, <1>5
    <3>2. \A v \in Workers : k \in ToSet(queues'[v]) => k \in ToSet(queues[v])
      BY <1>7, <2>3
    <3> QED  BY <1>3, <2>1, <3>1, <3>2 DEF QueuedOK, HeldOK
  <2> QED  BY <2>2, <2>3
<1>11. CountOK'
  <2>1. \A k \in Jobs : Queued(k)' <=> Queued(k) \/ k = x
    BY <1>7 DEF Queued
  <2>2. \A k \in Jobs : Held(k) <=> Held(k)' \/ k = x
    BY <1>1, <1>5 DEF Held, Threads
  <2>3. Live' = Live
    BY <2>1, <2>2 DEF Live
  <2> QED  BY <1>0, <1>3, <2>3 DEF CountOK
<1>12. StopOK'
  BY <1>0, <1>2, <1>3, <1>4 DEF StopOK, Threads
<1> QED  BY <1>1, <1>4, <1>5, <1>7, <1>8, <1>9, <1>10, <1>11, <1>12 DEF Inv, PlaceOK

(* TryPopOwn and TrySteal: worker w takes x off one end of a queue.        *)
LEMMA TakeInv ==
  ASSUME Inv, NEW w \in Workers, NEW v \in Workers, NEW x, NEW q, Take(w, x),
         pc[w] \in {"look", "steal"},
         q \in Seq(Jobs), IsInjective(q), ToSet(q) = ToSet(queues[v]) \ {x}, x \in ToSet(queues[v]),
         queues' = [queues EXCEPT ![v] = q],
         UNCHANGED <<offset, pendingJobs, stop, counted, ran>>
  PROVE  /\ Inv' /\ x \in Jobs \ ran
         /\ job[w] = None /\ job'[w] = x /\ \A u \in Threads \ {w} : job'[u] = job[u]
         /\ \A j \in Jobs : Queued(j)' <=> Queued(j) /\ j # x
<1> USE StealingAssumption
<1>0. PcOK /\ DataOK /\ HandOK /\ PlaceOK /\ CountOK /\ StopOK
  BY DEF Inv
<1>1. w \in Threads /\ w \notin Clients
  BY DEF Threads
<1>2. x \in Jobs
  BY <1>0 DEF DataOK, ToSet
<1>3. QueuedOK(x) /\ HeldOK(x)
  BY <1>0, <1>2 DEF PlaceOK
<1>4. /\ x \in counted \ ran /\ \A u \in Threads : job[u] # x
      /\ \A u \in Workers : x \in ToSet(queues[u]) => u = v
  BY <1>3 DEF QueuedOK
<1>5. PcOK' /\ pc'[w] = "body" /\ \A u \in Threads \ {w} : pc'[u] = pc[u]
  BY <1>0, <1>1, GotoMoves DEF Take, WorkerPc
<1>6. job' = [job EXCEPT ![w] = x]
  BY DEF Take
<1>7. job[w] = None /\ job'[w] = x /\ \A u \in Threads \ {w} : job'[u] = job[u]
  BY <1>0, <1>1, <1>6 DEF DataOK, HandOK, HandPc
<1>8. queues'[v] = q /\ \A u \in Workers \ {v} : queues'[u] = queues[u]
  BY <1>0 DEF DataOK
<1>9. \A u \in Workers : ToSet(queues'[u]) = ToSet(queues[u]) \ {x}
  BY <1>4, <1>8
<1>10. DataOK'
  BY <1>0, <1>1, <1>2, <1>6, <1>8 DEF DataOK
<1>11. HandOK'
  BY <1>0, <1>2, <1>5, <1>7 DEF HandOK, HandPc
<1>12. ASSUME NEW k \in Jobs PROVE QueuedOK(k)' /\ HeldOK(k)' /\ (k \in ran => k \in counted)'
  <2>1. QueuedOK(k) /\ HeldOK(k) /\ (k \in ran => k \in counted)
    BY <1>0 DEF PlaceOK
  <2>2. CASE k = x
    <3>1. \A t \in Threads : job'[t] = k => t = w
      BY <1>4, <1>7, <2>2
    <3> QED  BY <1>4, <1>5, <1>9, <2>2, <3>1 DEF QueuedOK, HeldOK
  <2>3. CASE k # x
    <3>1. \A t \in Threads : job'[t] = k => job[t] = k /\ pc'[t] = pc[t]
      BY <1>5, <1>7, <2>3
    <3> QED  BY <1>9, <2>1, <3>1 DEF QueuedOK, HeldOK
  <2> QED  BY <2>2, <2>3
<1>13. \A j \in Jobs : Queued(j)' <=> Queued(j) /\ j # x
  BY <1>9 DEF Queued
<1>14. CountOK'
  <2>1. \A k \in Jobs : Held(k)' <=> Held(k) \/ k = x
    BY <1>1, <1>2, <1>7 DEF Held
  <2>2. Queued(x)
    BY DEF Queued
  <2>3. Live' = Live
    BY <1>2, <1>13, <2>1, <2>2 DEF Live
  <2> QED  BY <1>0, <2>3 DEF CountOK
<1>15. StopOK'
  BY <1>0, <1>1, <1>5 DEF StopOK, Threads
<1> QED  BY <1>2, <1>4, <1>5, <1>7, <1>10, <1>11, <1>12, <1>13, <1>14, <1>15 DEF Inv, PlaceOK

LEMMA RunJobInv ==
  ASSUME Inv, NEW w \in Workers, RunJob(w)
  PROVE  Inv' /\ job[w] \in Jobs \ ran /\ ~Queued(job[w])
<1> USE StealingAssumption
<1>0. PcOK /\ DataOK /\ HandOK /\ PlaceOK /\ CountOK /\ StopOK
  BY DEF Inv
<1>1. w \in Threads /\ w \notin Clients
  BY DEF Threads
<1>2. PICK x \in Jobs : x = job[w]
  BY <1>0, <1>1 DEF RunJob, DataOK, HandOK, HandPc
<1>3. /\ pc[w] = "body" /\ ran' = ran \cup {x}
      /\ UNCHANGED <<queues, pendingJobs, stop, job, offset, counted>>
  BY <1>2 DEF RunJob
<1>4. PcOK' /\ pc'[w] = "count" /\ \A u \in Threads \ {w} : pc'[u] = pc[u]
  BY <1>0, <1>1, GotoMoves DEF RunJob, WorkerPc
<1>5. QueuedOK(x) /\ HeldOK(x)
  BY <1>0 DEF PlaceOK
<1>6. x \in counted \ ran /\ ~Queued(x) /\ \A u \in Threads : job[u] = x => u = w
  BY <1>1, <1>2, <1>3, <1>5 DEF QueuedOK, HeldOK, Queued
<1>7. DataOK'
  BY <1>0, <1>3, <1>6 DEF DataOK
<1>8. HandOK'
  BY <1>0, <1>3, <1>4 DEF HandOK, HandPc
<1>9. ASSUME NEW k \in Jobs PROVE QueuedOK(k)' /\ HeldOK(k)' /\ (k \in ran => k \in counted)'
  <2>1. QueuedOK(k) /\ HeldOK(k) /\ (k \in ran => k \in counted)
    BY <1>0 DEF PlaceOK
  <2>2. CASE k = x
    <3>1. \A u \in Workers : k \notin ToSet(queues[u])
      BY <1>6, <2>2 DEF Queued
    <3> QED  BY <1>3, <1>4, <1>6, <2>2, <3>1 DEF QueuedOK, HeldOK
  <2>3. CASE k # x
    <3>1. \A t \in Threads : job[t] = k => pc'[t] = pc[t]
      BY <1>2, <1>4, <2>3
    <3> QED  BY <1>3, <2>1, <2>3, <3>1 DEF QueuedOK, HeldOK
  <2> QED  BY <2>2, <2>3
<1>10. CountOK'
  <2>1. Live' = Live
    BY <1>3 DEF Live, Queued, Held
  <2> QED  BY <1>0, <1>3, <2>1 DEF CountOK
<1>11. StopOK'
  BY <1>0, <1>1, <1>3, <1>4 DEF StopOK, Threads
<1> QED  BY <1>2, <1>4, <1>6, <1>7, <1>8, <1>9, <1>10, <1>11 DEF Inv, PlaceOK

LEMMA DiscountInv ==
  ASSUME Inv, NEW w \in Workers, Discount(w)
  PROVE  /\ Inv' /\ job[w] \in Jobs /\ job[w] \in ran /\ ~Queued(job[w])
         /\ job'[w] = None /\ \A u \in Threads \ {w} : job'[u] = job[u]
         /\ \A u \in Threads : job[u] = job[w] => u = w
<1> USE StealingAssumption
<1>0. PcOK /\ DataOK /\ HandOK /\ PlaceOK /\ CountOK /\ StopOK
  BY DEF Inv
<1>1. w \in Threads /\ w \notin Clients
  BY DEF Threads
<1>2. PICK x \in Jobs : x = job[w]
  BY <1>0, <1>1 DEF Discount, DataOK, HandOK, HandPc
<1>3. /\ pc[w] = "count" /\ pendingJobs' = pendingJobs - 1
      /\ job' = [job EXCEPT ![w] = None]
      /\ UNCHANGED <<queues, stop, offset, counted, ran>>
  BY DEF Discount
<1>4. PICK to \in {"signal", "look"} : pc'[w] = to /\ PcOK' /\ \A u \in Threads \ {w} : pc'[u] = pc[u]
  <2>1. PICK to \in {"signal", "look"} : Goto(w, to)
    BY DEF Discount
  <2>2. to \in WorkerPc
    BY DEF WorkerPc
  <2> QED  BY <1>0, <1>1, <2>1, <2>2, GotoMoves
<1>5. QueuedOK(x) /\ HeldOK(x)
  BY <1>0 DEF PlaceOK
<1>6. x \in counted /\ x \in ran /\ ~Queued(x) /\ \A u \in Threads : job[u] = x => u = w
  BY <1>1, <1>2, <1>3, <1>5 DEF QueuedOK, HeldOK, Queued
<1>7. job'[w] = None /\ \A u \in Threads \ {w} : job'[u] = job[u]
  BY <1>0, <1>1, <1>3 DEF DataOK
<1>8. DataOK'
  BY <1>0, <1>3 DEF DataOK
<1>9. HandOK'
  BY <1>0, <1>4, <1>7 DEF HandOK, HandPc
<1>10. ASSUME NEW k \in Jobs PROVE QueuedOK(k)' /\ HeldOK(k)' /\ (k \in ran => k \in counted)'
  <2>1. QueuedOK(k) /\ HeldOK(k) /\ (k \in ran => k \in counted)
    BY <1>0 DEF PlaceOK
  <2>2. \A t \in Threads : job'[t] = k => job[t] = k /\ pc'[t] = pc[t]
    BY <1>4, <1>7
  <2> QED  BY <1>3, <2>1, <2>2 DEF QueuedOK, HeldOK
<1>11. Live' = Live \ {x} /\ x \in Live
  <2>1. \A k \in Jobs : Queued(k)' <=> Queued(k)
    BY <1>3 DEF Queued
  <2>2. \A k \in Jobs : Held(k)' <=> Held(k) /\ k # x
    BY <1>1, <1>2, <1>6, <1>7 DEF Held
  <2>3. Held(x)
    BY <1>1, <1>2 DEF Held
  <2> QED  BY <1>6, <2>1, <2>2, <2>3 DEF Live
<1>12. CountOK'
  <2>1. IsFiniteSet(Live \ {x}) /\ Cardinality(Live \ {x}) = Cardinality(Live) - 1
    BY <1>0, <1>11, FS_RemoveElement DEF CountOK
  <2> QED  BY <1>0, <1>3, <1>11, <2>1 DEF CountOK
<1>13. StopOK'
  <2>1. pendingJobs # 0
    BY <1>11, PendingPositive
  <2> QED  BY <1>0, <1>1, <1>3, <1>4, <2>1 DEF StopOK, Threads
<1> QED  BY <1>2, <1>4, <1>6, <1>7, <1>8, <1>9, <1>10, <1>12, <1>13 DEF Inv, PlaceOK

-----------------------------------------------------------------------------
(* The steps that move no job.                                             *)

(* A worker without a job goes on, or leaves because it found nothing.     *)
LEMMA WorkerMoves ==
  ASSUME Inv, NEW w \in Workers, NEW to \in WorkerPc \ HandPc, Goto(w, to), pc[w] \notin HandPc,
         to = "exited" => stop /\ pendingJobs = 0,
         UNCHANGED <<queues, pendingJobs, stop, job, counted, ran>>,
         offset' \in [Workers -> 1 .. WorkerCount]
  PROVE  Inv' /\ \A c \in Clients : pc'[c] = pc[c]
<1> USE StealingAssumption
<1>0. PcOK /\ DataOK /\ StopOK
  BY DEF Inv
<1>1. w \in Threads /\ w \notin Clients
  BY DEF Threads
<1>2. PcOK' /\ pc'[w] = to /\ \A u \in Threads \ {w} : pc'[u] = pc[u]
  BY <1>0, <1>1, GotoMoves
<1>3. DataOK'
  BY <1>0 DEF DataOK
<1>4. HandOK' /\ PlaceOK' /\ CountOK'
  BY <1>2, <1>3, QuietStep
<1>5. StopOK'
  BY <1>0, <1>1, <1>2 DEF StopOK, Threads
<1> QED  BY <1>1, <1>2, <1>3, <1>4, <1>5 DEF Inv, Threads

(* A thread notifies the others.                                           *)
LEMMA NotifyInv ==
  ASSUME Inv, NEW t \in Threads, NEW next, NEW from, NEW to, Notify(t, next, from, to),
         \/ t \in Clients /\ next \in {"idle", "joining"} /\ from = "rest" /\ to = "look"
         \/ t \in Workers /\ next = "look" /\ from = "waiting" /\ to = "recheck",
         pc[t] \notin HandPc,
         next = "joining" => t = Owner /\ stop,
         next = "idle" => t # Owner \/ ~stop,
         UNCHANGED <<queues, pendingJobs, stop, job, offset, counted, ran>>
  PROVE  /\ Inv' /\ pc'[t] = next
         /\ \A u \in Threads \ {t} : \/ pc'[u] = pc[u]
                                     \/ pc[u] = "rest" /\ pc'[u] = "look"
                                     \/ pc[u] = "waiting" /\ pc'[u] = "recheck"
<1> USE StealingAssumption
<1>0. PcOK /\ DataOK /\ StopOK
  BY DEF Inv
<1>1. /\ PcOK' /\ pc'[t] = next
      /\ \A u \in Threads \ {t} : \/ pc'[u] = pc[u]
                                  \/ pc[u] = "rest" /\ pc'[u] = "look"
                                  \/ pc[u] = "waiting" /\ pc'[u] = "recheck"
  <2>1. "idle" \in ClientPc /\ "joining" \in ClientPc /\ "look" \in WorkerPc
    BY DEF WorkerPc, ClientPc
  <2> QED  BY <1>0, <2>1, NotifyMoves
<1>2. DataOK'
  BY <1>0 DEF DataOK
<1>3. HandOK' /\ PlaceOK' /\ CountOK'
  <2>1. \A u \in Threads : pc'[u] = pc[u] \/ (pc[u] \notin HandPc /\ pc'[u] \notin HandPc)
    BY <1>1 DEF HandPc
  <2> QED  BY <1>1, <1>2, <2>1, QuietStep
<1>4. StopOK'
  <2>1. \A w \in Workers : pc'[w] = "exited" => pc[w] = "exited"
    BY <1>1 DEF Threads
  <2>2. ASSUME NEW c \in Clients
        PROVE  IF stop THEN pc'[c] = "idle" \/ c = Owner
                       ELSE pc'[c] \notin {"stopping", "joining", "gone"}
    BY <1>0, <1>1 DEF StopOK, Threads
  <2>3. stop => pc'[Owner] \in {"stopping", "joining", "gone"}
    BY <1>0, <1>1 DEF StopOK, Threads
  <2>4. pc'[Owner] = "gone" => pc[Owner] = "gone"
    BY <1>1 DEF Threads
  <2> QED  BY <1>0, <2>1, <2>2, <2>3, <2>4 DEF StopOK
<1> QED  BY <1>1, <1>2, <1>3, <1>4 DEF Inv

(* A client of a pool that lives goes from one step of a call to the next. *)
LEMMA ClientMoves ==
  ASSUME Inv, NEW c \in Clients, NEW to \in {"idle", "decided", "waiting", "recheck"}, Goto(c, to),
         pc[c] \notin HandPc, ~stop,
         UNCHANGED <<queues, pendingJobs, stop, job, offset, counted, ran>>
  PROVE  Inv' /\ pc'[c] = to /\ \A u \in Threads \ {c} : pc'[u] = pc[u]
<1> USE StealingAssumption
<1>0. PcOK /\ DataOK /\ StopOK
  BY DEF Inv
<1>1. c \in Threads /\ c \notin Workers /\ to \in ClientPc /\ to \notin HandPc
  BY DEF Threads, ClientPc, HandPc
<1>2. PcOK' /\ pc'[c] = to /\ \A u \in Threads \ {c} : pc'[u] = pc[u]
  BY <1>0, <1>1, GotoMoves
<1>3. DataOK'
  BY <1>0 DEF DataOK
<1>4. HandOK' /\ PlaceOK' /\ CountOK'
  BY <1>1, <1>2, <1>3, QuietStep
<1>5. StopOK'
  BY <1>0, <1>1, <1>2 DEF StopOK, Threads
<1> QED  BY <1>2, <1>3, <1>4, <1>5 DEF Inv

(* The destructor's steps; Join finds every worker gone.                   *)
LEMMA OwnerMoves ==
  ASSUME Inv, Destroy \/ Join
  PROVE  /\ Inv' /\ UNCHANGED <<queues, pendingJobs, job, counted, ran>>
         /\ \A u \in Threads \ {Owner} : pc'[u] = pc[u]
         /\ Destroy => ~stop /\ stop' /\ pc'[Owner] = "stopping"
         /\ Join => /\ stop /\ stop' /\ pc[Owner] = "joining" /\ pc'[Owner] = "gone"
                    /\ pendingJobs = 0
<1> USE StealingAssumption
<1>0. PcOK /\ DataOK /\ StopOK
  BY DEF Inv
<1>1. Owner \in Threads /\ Owner \notin Workers /\ 0 \in Workers
  BY DEF Threads, Workers
<1>2. UNCHANGED <<queues, pendingJobs, job, offset, counted, ran>> /\ stop' \in BOOLEAN
  BY <1>0 DEF Destroy, Join, DataOK
<1>3. /\ Destroy => Goto(Owner, "stopping") /\ ~stop /\ stop' /\ \A c \in Clients : pc[c] = "idle"
      /\ Join => Goto(Owner, "gone") /\ pc[Owner] = "joining" /\ stop' = stop
  BY DEF Destroy, Join
<1>4. /\ PcOK' /\ \A u \in Threads \ {Owner} : pc'[u] = pc[u]
      /\ Destroy => pc'[Owner] = "stopping"
      /\ Join => pc'[Owner] = "gone"
  <2>1. "stopping" \in ClientPc /\ "gone" \in ClientPc
    BY DEF ClientPc
  <2> QED  BY <1>0, <1>1, <1>3, <2>1, GotoMoves
<1>5. pc[Owner] \notin HandPc /\ pc'[Owner] \notin HandPc
  BY <1>3, <1>4 DEF HandPc
<1>6. Join => stop /\ pendingJobs = 0
  <2>1. Join => pc[0] = "exited"
    BY <1>1 DEF Join
  <2> QED  BY <1>0, <1>1, <2>1 DEF StopOK
<1>7. DataOK'
  BY <1>0, <1>2 DEF DataOK
<1>8. HandOK' /\ PlaceOK' /\ CountOK'
  BY <1>2, <1>4, <1>5, <1>7, QuietStep
<1>9. StopOK'
  <2>1. \A w \in Workers : pc'[w] = pc[w]
    BY <1>1, <1>4 DEF Threads
  <2>2. \A c \in Clients : pc'[c] = pc[c] \/ c = Owner
    BY <1>4 DEF Threads
  <2>3. CASE Destroy
    BY <1>0, <1>2, <1>3, <1>4, <2>1, <2>2, <2>3 DEF StopOK
  <2>4. CASE Join
    BY <1>0, <1>2, <1>3, <1>4, <1>6, <2>1, <2>2, <2>4 DEF StopOK
  <2> QED  BY <2>3, <2>4
<1> QED  BY <1>2, <1>3, <1>4, <1>6, <1>7, <1>8, <1>9 DEF Inv

(* TryPopOwn and TrySteal find a job at one end of a queue, or go on.      *)
LEMMA LookForJob ==
  ASSUME Inv, NEW w \in Workers, TryPopOwn(w) \/ TrySteal(w)
  PROVE  \/ /\ Inv' /\ UNCHANGED <<stop, ran>>
            /\ \A c \in Clients : pc'[c] = pc[c]
            /\ \E x \in Jobs \ ran :
                 /\ Queued(x) /\ job[w] = None /\ job'[w] = x
                 /\ \A u \in Threads \ {w} : job'[u] = job[u]
                 /\ \A j \in Jobs : Queued(j)' <=> Queued(j) /\ j # x
         \/ Inv' /\ UNCHANGED <<queues, stop, job, ran>> /\ \A c \in Clients : pc'[c] = pc[c]
<1> USE StealingAssumption
<1>0. PcOK /\ DataOK
  BY DEF Inv
<1>1. UNCHANGED <<pendingJobs, stop, counted, ran>> /\ pc[w] \in {"look", "steal"}
  BY DEF TryPopOwn, TrySteal
<1>2. ASSUME NEW v \in Workers, NEW x, NEW q, Take(w, x),
             q \in Seq(Jobs), IsInjective(q),
             ToSet(q) = ToSet(queues[v]) \ {x}, x \in ToSet(queues[v]),
             queues' = [queues EXCEPT ![v] = q], UNCHANGED offset
      PROVE  /\ Inv' /\ \A c \in Clients : pc'[c] = pc[c]
             /\ \E y \in Jobs \ ran :
                  /\ Queued(y) /\ job[w] = None /\ job'[w] = y
                  /\ \A u \in Threads \ {w} : job'[u] = job[u]
                  /\ \A j \in Jobs : Queued(j)' <=> Queued(j) /\ j # y
  <2>1. /\ Inv' /\ x \in Jobs \ ran
        /\ job[w] = None /\ job'[w] = x /\ \A u \in Threads \ {w} : job'[u] = job[u]
        /\ \A j \in Jobs : Queued(j)' <=> Queued(j) /\ j # x
    BY <1>1, <1>2, TakeInv
  <2>2. Queued(x)
    BY <1>2 DEF Queued
  <2>3. \A c \in Clients : pc'[c] = pc[c]
    BY <1>0, <1>2 DEF Take, Goto, PcOK, Threads
  <2> QED  BY <2>1, <2>2, <2>3
<1>3. ASSUME NEW to \in {"steal", "check"}, Goto(w, to), UNCHANGED <<queues, job>>,
             offset' \in [Workers -> 1 .. WorkerCount]
      PROVE  Inv' /\ \A c \in Clients : pc'[c] = pc[c]
  <2>1. to \in WorkerPc \ HandPc /\ to # "exited" /\ pc[w] \notin HandPc
    BY <1>1 DEF WorkerPc, HandPc
  <2> QED  BY <1>1, <1>3, <2>1, WorkerMoves
<1>4. CASE TryPopOwn(w)
  <2>1. CASE queues[w] # <<>>
    <3>1. /\ Take(w, Last(queues[w])) /\ UNCHANGED offset
          /\ queues' = [queues EXCEPT ![w] = Front(queues[w])]
      BY <1>4, <2>1 DEF TryPopOwn
    <3>2. queues[w] \in Seq(Jobs) /\ IsInjective(queues[w])
      BY <1>0 DEF DataOK
    <3>3. /\ Front(queues[w]) \in Seq(Jobs) /\ IsInjective(Front(queues[w]))
          /\ ToSet(Front(queues[w])) = ToSet(queues[w]) \ {Last(queues[w])}
          /\ Last(queues[w]) \in ToSet(queues[w])
      BY <2>1, <3>2, FrontElems, PopBack
    <3> QED  BY <1>1, <1>2, <3>1, <3>3
  <2>2. CASE queues[w] = <<>>
    <3>1. Goto(w, "steal") /\ UNCHANGED <<queues, job>> /\ offset' = [offset EXCEPT ![w] = 1]
      BY <1>4, <2>2 DEF TryPopOwn
    <3>2. offset' \in [Workers -> 1 .. WorkerCount]
      <4>1. 1 \in 1 .. WorkerCount
        OBVIOUS
      <4> QED  BY <1>0, <3>1, <4>1 DEF DataOK
    <3> QED  BY <1>1, <1>3, <3>1, <3>2
  <2> QED  BY <2>1, <2>2
<1>5. CASE TrySteal(w)
  <2>1. offset[w] \in 1 .. WorkerCount /\ Victim(w) \in Workers
    <3>1. offset[w] \in 1 .. WorkerCount /\ w + offset[w] \in Nat
      BY <1>0 DEF DataOK, Workers
    <3> QED  BY <3>1 DEF Victim, Workers
  <2>2. CASE offset[w] < WorkerCount /\ queues[Victim(w)] # <<>>
    <3>1. /\ Take(w, Head(queues[Victim(w)])) /\ UNCHANGED offset
          /\ queues' = [queues EXCEPT ![Victim(w)] = Tail(queues[Victim(w)])]
      BY <1>5, <2>1, <2>2 DEF TrySteal
    <3>2. queues[Victim(w)] \in Seq(Jobs) /\ IsInjective(queues[Victim(w)])
      BY <1>0, <2>1 DEF DataOK
    <3>3. /\ Tail(queues[Victim(w)]) \in Seq(Jobs) /\ IsInjective(Tail(queues[Victim(w)]))
          /\ ToSet(Tail(queues[Victim(w)])) = ToSet(queues[Victim(w)]) \ {Head(queues[Victim(w)])}
          /\ Head(queues[Victim(w)]) \in ToSet(queues[Victim(w)])
      BY <2>2, <3>2, TailElems, PopFront
    <3> QED  BY <1>1, <1>2, <2>1, <3>1, <3>3
  <2>3. CASE offset[w] < WorkerCount /\ queues[Victim(w)] = <<>>
    <3>1. offset' = [offset EXCEPT ![w] = offset[w] + 1] /\ UNCHANGED <<queues, job, pc>> /\ pc[w] = "steal"
      BY <1>5, <2>1, <2>3 DEF TrySteal
    <3>2. offset' \in [Workers -> 1 .. WorkerCount]
      <4>1. offset[w] + 1 \in 1 .. WorkerCount
        BY <2>1, <2>3
      <4> QED  BY <1>0, <3>1, <4>1 DEF DataOK
    <3>3. Goto(w, "steal")
      BY <1>0, <3>1 DEF Goto, PcOK, Threads
    <3> QED  BY <1>1, <1>3, <3>1, <3>2, <3>3
  <2>4. CASE offset[w] = WorkerCount
    <3>1. Goto(w, "check") /\ UNCHANGED <<queues, job, offset>>
      BY <1>5, <2>1, <2>4 DEF TrySteal
    <3> QED  BY <1>0, <1>1, <1>3, <3>1 DEF DataOK
  <2> QED  BY <2>1, <2>2, <2>3, <2>4
<1> QED  BY <1>4, <1>5

LEMMA InvNext == Inv /\ [Next]_vars => Inv'
<1> SUFFICES ASSUME Inv, [Next]_vars PROVE Inv'
  OBVIOUS
<1> USE StealingAssumption
<1>0. PcOK /\ DataOK /\ StopOK
  BY DEF Inv
<1>1. ASSUME NEW w \in Workers, SignalCompletion(w) PROVE Inv'
  <2>1. w \in Threads /\ pc[w] \notin HandPc
    BY <1>1 DEF SignalCompletion, Threads, HandPc
  <2> QED  BY <1>1, <2>1, NotifyInv DEF SignalCompletion
<1>2. ASSUME NEW w \in Workers, NEW to \in {"exited", "park", "rest", "look"}, Goto(w, to),
             pc[w] \in {"check", "park", "rest"}, to = "exited" => stop /\ pendingJobs = 0,
             UNCHANGED <<queues, pendingJobs, stop, job, offset, counted, ran>>
      PROVE  Inv'
  <2>1. to \in WorkerPc \ HandPc /\ pc[w] \notin HandPc
    BY <1>2 DEF WorkerPc, HandPc
  <2> QED  BY <1>0, <1>2, <2>1, WorkerMoves DEF DataOK
<1>3. ASSUME NEW w \in Workers, CheckExit(w) \/ Rest(w) \/ Timeout(w) PROVE Inv'
  BY <1>2, <1>3 DEF CheckExit, Rest, Timeout
<1>4. ASSUME NEW c \in Clients, NotifyWorkers(c) PROVE Inv'
  <2>1. c \in Threads /\ pc[c] = "wake" /\ pc[c] \notin HandPc
    BY <1>4 DEF NotifyWorkers, Threads, HandPc
  <2>2. ~stop
    BY <1>0, <2>1 DEF StopOK
  <2> QED  BY <1>4, <2>1, <2>2, NotifyInv DEF NotifyWorkers
<1>5. ASSUME NEW c \in Clients, WaitAll(c) \/ WaitAllSleep(c) \/ SpuriousWakeup(c) PROVE Inv'
  <2>1. pc[c] \in {"recheck", "idle", "decided", "waiting"} /\ (pc[c] = "idle" => ~stop)
    BY <1>5 DEF WaitAll, WaitAllSleep, SpuriousWakeup
  <2>2. ~stop /\ pc[c] \notin HandPc
    BY <1>0, <2>1 DEF StopOK, HandPc
  <2>3. PICK to \in {"idle", "decided", "waiting", "recheck"} : Goto(c, to)
    BY <1>5 DEF WaitAll, WaitAllSleep, SpuriousWakeup
  <2>4. UNCHANGED <<queues, pendingJobs, stop, job, offset, counted, ran>>
    BY <1>5 DEF WaitAll, WaitAllSleep, SpuriousWakeup
  <2> QED  BY <2>2, <2>3, <2>4, ClientMoves
<1>6. CASE NotifyStop
  <2>1. Owner \in Threads /\ pc[Owner] = "stopping" /\ pc[Owner] \notin HandPc
    BY <1>6 DEF NotifyStop, Threads, HandPc
  <2>2. stop
    BY <1>0, <2>1 DEF StopOK
  <2> QED  BY <1>6, <2>1, <2>2, NotifyInv DEF NotifyStop
<1>7. CASE UNCHANGED vars
  BY <1>7 DEF vars, Inv, PcOK, DataOK, HandOK, PlaceOK, QueuedOK, HeldOK, CountOK, Live, Queued, Held,
              StopOK
<1>8. ASSUME NEW w \in Workers, TryPopOwn(w) \/ TrySteal(w) PROVE Inv'
  BY <1>8, LookForJob
<1> QED  BY <1>1, <1>3, <1>4, <1>5, <1>6, <1>7, <1>8, CountInv, PushInv, RunJobInv, DiscountInv, OwnerMoves
            DEF Next, WorkerStep, InSubmit, Terminated

LEMMA Invariance == Spec => []Inv
<1>1. Init => Inv
  BY InvInit
<1>2. Inv /\ [Next]_vars => Inv'
  BY InvNext
<1> QED  BY <1>1, <1>2, PTL DEF Spec

-----------------------------------------------------------------------------
(* Every variable keeps its type: the unsigned counter does not go below   *)
(* zero, and the offset of TrySteal stays within the workers.              *)
THEOREM TypeCorrect == Spec => []TypeOK
<1>1. Inv => TypeOK
  BY FS_CardinalityType DEF Inv, PcOK, DataOK, CountOK, TypeOK
<1> QED  BY <1>1, Invariance, PTL

(* The counter of experiments/Day16_WorkStealing.cpp is the number of jobs *)
(* that are being pushed, queued or run, whoever pops or steals them: a    *)
(* worker that reads zero and leaves, leaves nothing behind.               *)
THEOREM PendingCovers == Spec => []PendingCoversJobs
<1>1. Inv => PendingCoversJobs
  BY DEF Inv, CountOK, Live, PendingCoversJobs
<1> QED  BY <1>1, Invariance, PTL

-----------------------------------------------------------------------------
(* The refinement of JobPool.                                              *)

(* The variables of JobPool, as Abstract maps them.                        *)
Status == [j \in Jobs |-> JobStatus(j)]
Phase == IF ~stop THEN "open" ELSE IF pc[Owner] = "gone" THEN "closed" ELSE "stopping"
Waiters == {c \in Clients : pc[c] \in {"decided", "waiting", "recheck"}}

LEMMA AbstractInit == Init => Abstract!Init
<1> SUFFICES ASSUME Init PROVE Abstract!Init
  OBVIOUS
<1> USE StealingAssumption
<1>1. \A j \in Jobs : ~Queued(j) /\ \A w \in Workers : job[w] # j
  BY DEF Init, Queued, ToSet, Threads
<1>2. Status = [j \in Jobs |-> "new"]
  BY <1>1 DEF Init, Status, JobStatus
<1>3. Phase = "open"
  BY DEF Init, Phase
<1>4. Waiters = {}
  BY DEF Init, Waiters, Threads
<1>5. <<>> = [f \in {} |-> None]
  OBVIOUS
<1> QED  BY <1>2, <1>3, <1>4, <1>5 DEF Abstract!Init, Status, Phase, Waiters

(* A step that moves one job on.                                           *)
LEMMA StatusMoves ==
  ASSUME NEW x \in Jobs, NEW from, NEW to, JobStatus(x) = from, JobStatus(x)' = to,
         \A j \in Jobs \ {x} : JobStatus(j)' = JobStatus(j),
         Phase' = Phase, Waiters' = Waiters
  PROVE  Abstract!Advance(x, from, to)
<1>1. Status[x] = from /\ Status' = [Status EXCEPT ![x] = to]
  BY DEF Status
<1>2. UNCHANGED <<Phase, Waiters, <<>>>>
  OBVIOUS
<1> QED  BY <1>1, <1>2 DEF Abstract!Advance, Status, Phase, Waiters

(* A step that moves none.                                                 *)
LEMMA StatusStays ==
  ASSUME \A j \in Jobs : Queued(j)' <=> Queued(j),
         \A j \in Jobs : \A w \in Workers : job'[w] = j <=> job[w] = j,
         ran' = ran
  PROVE  Status' = Status
BY DEF Status, JobStatus

LEMMA AllRetired ==
  ASSUME Inv, pendingJobs = 0
  PROVE  Abstract!Quiescent
<1>1. \A j \in Jobs : ~Queued(j) /\ ~Held(j)
  BY PendingZero DEF Live
<1>2. \A j \in Jobs : JobStatus(j) \in {"new", "retired"}
  BY <1>1 DEF JobStatus, Held, Threads
<1> QED  BY <1>2 DEF Abstract!Quiescent

LEMMA AbstractNext == Inv /\ [Next]_vars => [Abstract!Next]_(Abstract!vars)
<1> SUFFICES ASSUME Inv, [Next]_vars PROVE [Abstract!Next]_(Abstract!vars)
  OBVIOUS
<1> USE StealingAssumption
<1>0. PcOK /\ DataOK /\ HandOK /\ StopOK /\ Inv'
  BY InvNext DEF Inv
<1>1. ASSUME Status' = Status, stop' = stop, \A c \in Clients : pc'[c] = pc[c] PROVE UNCHANGED Abstract!vars
  <2>1. Phase' = Phase /\ Waiters' = Waiters
    BY <1>1 DEF Phase, Waiters
  <2>2. <<>>' = <<>>
    OBVIOUS
  <2> QED  BY <1>1, <2>1, <2>2 DEF Abstract!vars, Status, Phase, Waiters
<1>2. ASSUME NEW c \in Clients, NEW j \in Jobs, Count(c, j) PROVE UNCHANGED Abstract!vars
  <2>1. UNCHANGED <<queues, stop, ran>> /\ \A w \in Workers : job'[w] = job[w]
    BY <1>0, <1>2 DEF Count, DataOK, Threads
  <2>2. Status' = Status
    BY <2>1, StatusStays DEF Queued
  <2>3. Phase' = Phase /\ Waiters' = Waiters
    <3>1. pc[c] = "idle" /\ pc'[c] = "push" /\ \A u \in Clients \ {c} : pc'[u] = pc[u]
      BY <1>0, <1>2 DEF Count, Goto, PcOK, Threads
    <3>2. ~stop
      BY <1>2 DEF Count
    <3> QED  BY <2>1, <3>1, <3>2 DEF Phase, Waiters
  <2> QED  BY <2>2, <2>3 DEF Abstract!vars, Status, Phase, Waiters
<1>3. ASSUME NEW c \in Clients, NEW w \in Workers, Push(c, w) PROVE Abstract!Next
  <2>1. PICK x \in Jobs : x = job[c]
    BY <1>3, Pushing DEF Push
  <2>2. x \notin ran /\ ~Queued(x) /\ ~stop /\ \A u \in Workers : job[u] # x
    <3>1. x \notin ran /\ ~Queued(x) /\ ~stop /\ \A u \in Threads : job[u] = x => u = c
      BY <1>3, <2>1, Pushing DEF Push
    <3> QED  BY <3>1 DEF Threads
  <2>3. /\ ToSet(queues'[w]) = ToSet(queues[w]) \cup {x}
        /\ \A v \in Workers \ {w} : queues'[v] = queues[v]
        /\ \A u \in Workers : job'[u] = job[u]
        /\ UNCHANGED <<stop, ran>>
    <3>1. \A u \in Workers : u # c /\ u \in Threads
      BY DEF Threads
    <3> QED  BY <1>3, <2>1, <3>1, PushInv DEF Push
  <2>4. JobStatus(x) = "new" /\ JobStatus(x)' = "queued"
    BY <2>2, <2>3 DEF JobStatus, Queued
  <2>5. ASSUME NEW j \in Jobs \ {x} PROVE JobStatus(j)' = JobStatus(j)
    <3>1. Queued(j)' <=> Queued(j)
      BY <2>3 DEF Queued
    <3> QED  BY <2>3, <3>1 DEF JobStatus
  <2>6. Phase = "open" /\ Phase' = Phase /\ Waiters' = Waiters
    <3>1. pc[c] = "push" /\ pc'[c] = "wake" /\ \A u \in Clients \ {c} : pc'[u] = pc[u]
      BY <1>0, <1>3 DEF Push, Goto, PcOK, Threads
    <3> QED  BY <2>2, <2>3, <3>1 DEF Phase, Waiters
  <2>7. Abstract!Advance(x, "new", "queued")
    BY <2>4, <2>5, <2>6, StatusMoves
  <2>8. Abstract!Submit(x)
    BY <2>6, <2>7 DEF Abstract!Submit, Phase
  <2> QED  BY <2>8 DEF Abstract!Next
<1>4. ASSUME NEW w \in Workers, TryPopOwn(w) \/ TrySteal(w) PROVE [Abstract!Next]_(Abstract!vars)
  <2>1. stop' = stop /\ ran' = ran /\ \A c \in Clients : pc'[c] = pc[c]
    BY <1>4, LookForJob
  <2>2. CASE UNCHANGED <<queues, job>>
    <3>1. Status' = Status
      BY <2>1, <2>2, StatusStays DEF Queued
    <3> QED  BY <1>1, <2>1, <3>1
  <2>3. ASSUME NEW x \in Jobs \ ran, Queued(x), job[w] = None, job'[w] = x,
               \A u \in Threads \ {w} : job'[u] = job[u],
               \A j \in Jobs : Queued(j)' <=> Queued(j) /\ j # x
        PROVE  Abstract!Next
    <3>1. JobStatus(x) = "queued" /\ JobStatus(x)' = "running"
      BY <2>1, <2>3 DEF JobStatus
    <3>2. ASSUME NEW j \in Jobs \ {x} PROVE JobStatus(j)' = JobStatus(j)
      <4>1. Queued(j)' <=> Queued(j)
        BY <2>3
      <4>2. (\E u \in Workers : job'[u] = j) <=> \E u \in Workers : job[u] = j
        BY <2>3 DEF Threads
      <4> QED  BY <2>1, <4>1, <4>2 DEF JobStatus
    <3>3. Phase' = Phase /\ Waiters' = Waiters
      BY <2>1 DEF Phase, Waiters
    <3>4. Abstract!Start(x)
      BY <3>1, <3>2, <3>3, StatusMoves DEF Abstract!Start
    <3> QED  BY <3>4 DEF Abstract!Next
  <2> QED  BY <1>4, <2>2, <2>3, LookForJob
<1>5. ASSUME NEW w \in Workers, RunJob(w) PROVE Abstract!Next
  <2>1. PICK x \in Jobs \ ran : x = job[w] /\ ~Queued(x)
    BY <1>5, RunJobInv
  <2>2. ran' = ran \cup {x} /\ UNCHANGED <<queues, stop, job>>
    BY <1>5, <2>1 DEF RunJob
  <2>3. JobStatus(x) = "running" /\ JobStatus(x)' = "done"
    BY <2>1, <2>2 DEF JobStatus, Queued
  <2>4. \A j \in Jobs \ {x} : JobStatus(j)' = JobStatus(j)
    BY <2>2 DEF JobStatus, Queued
  <2>5. Phase' = Phase /\ Waiters' = Waiters
    <3>1. \A c \in Clients : pc'[c] = pc[c]
      BY <1>0, <1>5 DEF RunJob, Goto, PcOK, Threads
    <3> QED  BY <2>2, <3>1 DEF Phase, Waiters
  <2>6. Abstract!Finish(x)
    BY <2>3, <2>4, <2>5, StatusMoves DEF Abstract!Finish
  <2> QED  BY <2>6 DEF Abstract!Next
<1>6. ASSUME NEW w \in Workers, Discount(w) PROVE Abstract!Next
  <2>1. PICK x \in Jobs : x = job[w]
    BY <1>6, DiscountInv
  <2>2. /\ x \in ran /\ ~Queued(x) /\ job'[w] = None /\ \A u \in Workers \ {w} : job'[u] = job[u]
        /\ \A u \in Workers : job[u] = x => u = w
    BY <1>6, <2>1, DiscountInv DEF Threads
  <2>3. UNCHANGED <<queues, stop, ran>>
    BY <1>6 DEF Discount
  <2>4. JobStatus(x) = "done" /\ JobStatus(x)' = "retired"
    BY <2>1, <2>2, <2>3 DEF JobStatus, Queued
  <2>5. ASSUME NEW j \in Jobs \ {x} PROVE JobStatus(j)' = JobStatus(j)
    <3>1. (\E u \in Workers : job'[u] = j) <=> \E u \in Workers : job[u] = j
      BY <2>1, <2>2
    <3> QED  BY <2>3, <3>1 DEF JobStatus, Queued
  <2>6. Phase' = Phase /\ Waiters' = Waiters
    <3>1. \A c \in Clients : pc'[c] = pc[c]
      BY <1>0, <1>6 DEF Discount, Goto, PcOK, Threads
    <3> QED  BY <2>3, <3>1 DEF Phase, Waiters
  <2>7. Abstract!Retire(x)
    BY <2>4, <2>5, <2>6, StatusMoves DEF Abstract!Retire
  <2> QED  BY <2>7 DEF Abstract!Next
<1>7. ASSUME UNCHANGED <<queues, stop, job, ran>>, Phase' = Phase, Waiters' = Waiters
      PROVE  UNCHANGED Abstract!vars
  <2>1. Status' = Status
    BY <1>7, StatusStays DEF Queued
  <2>2. <<>>' = <<>>
    OBVIOUS
  <2> QED  BY <1>7, <2>1, <2>2 DEF Abstract!vars, Status, Phase, Waiters
<1>8. ASSUME NEW w \in Workers, SignalCompletion(w) PROVE UNCHANGED Abstract!vars
  <2>1. UNCHANGED <<queues, stop, job, ran>>
    BY <1>8 DEF SignalCompletion
  <2>2. \A c \in Clients : pc'[c] = pc[c] \/ (pc[c] = "waiting" /\ pc'[c] = "recheck")
    BY <1>0, <1>8 DEF SignalCompletion, Notify, Threads
  <2>3. Phase' = Phase /\ Waiters' = Waiters
    BY <2>1, <2>2 DEF Phase, Waiters
  <2> QED  BY <1>7, <2>1, <2>3
<1>9. ASSUME NEW w \in Workers, CheckExit(w) \/ Rest(w) \/ Timeout(w) PROVE UNCHANGED Abstract!vars
  <2>1. UNCHANGED <<queues, stop, job, ran>>
    BY <1>9 DEF CheckExit, Rest, Timeout
  <2>2. \A c \in Clients : pc'[c] = pc[c]
    BY <1>0, <1>9 DEF CheckExit, Rest, Timeout, Goto, PcOK, Threads
  <2>3. Phase' = Phase /\ Waiters' = Waiters
    BY <2>1, <2>2 DEF Phase, Waiters
  <2> QED  BY <1>7, <2>1, <2>3
<1>10. ASSUME NEW c \in Clients, NotifyWorkers(c) PROVE UNCHANGED Abstract!vars
  <2>1. UNCHANGED <<queues, stop, job, ran>> /\ pc[c] = "wake"
    BY <1>10 DEF NotifyWorkers
  <2>2. pc'[c] = "idle" /\ \A u \in Clients \ {c} : pc'[u] = pc[u]
    <3>1. \A u \in Clients : pc[u] # "rest"
      BY <1>0 DEF PcOK, ClientPc
    <3> QED  BY <1>10, <3>1 DEF NotifyWorkers, Notify, Threads
  <2>3. ~stop
    BY <1>0, <2>1 DEF StopOK
  <2>4. Phase' = Phase /\ Waiters' = Waiters
    BY <2>1, <2>2, <2>3 DEF Phase, Waiters
  <2> QED  BY <1>7, <2>1, <2>4
<1>11. ASSUME NEW c \in Clients, WaitAll(c) PROVE [Abstract!Next]_(Abstract!vars)
  <2>1. /\ UNCHANGED <<queues, stop, job, ran>> /\ pc[c] \in {"recheck", "idle"}
        /\ pc'[c] = IF pendingJobs = 0 THEN "idle" ELSE "decided"
        /\ \A u \in Clients \ {c} : pc'[u] = pc[u]
    BY <1>0, <1>11 DEF WaitAll, Goto, PcOK, Threads
  <2>2. ~stop
    BY <1>0, <1>11 DEF WaitAll, StopOK
  <2>3. Phase = "open" /\ Phase' = Phase /\ Status' = Status
    BY <2>1, <2>2, StatusStays DEF Phase, Queued
  <2>4. CASE Waiters' = Waiters
    BY <1>7, <2>1, <2>3, <2>4
  <2>5. CASE pc[c] = "idle" /\ pendingJobs # 0
    <3>1. Waiters' = Waiters \cup {c}
      BY <2>1, <2>5 DEF Waiters
    <3>2. Abstract!BeginWaitAll(c)
      BY <2>3, <3>1 DEF Abstract!BeginWaitAll, Status, Phase, Waiters
    <3> QED  BY <3>2 DEF Abstract!Next
  <2>6. CASE pc[c] = "recheck" /\ pendingJobs = 0
    <3>1. c \in Waiters /\ Waiters' = Waiters \ {c}
      BY <2>1, <2>6 DEF Waiters
    <3>2. Abstract!Quiescent
      BY <2>6, AllRetired
    <3>3. Abstract!EndWaitAll(c)
      BY <2>3, <3>1, <3>2 DEF Abstract!EndWaitAll, Status, Phase, Waiters
    <3> QED  BY <3>3 DEF Abstract!Next
  <2>7. CASE (pc[c] = "idle" /\ pendingJobs = 0) \/ (pc[c] = "recheck" /\ pendingJobs # 0)
    <3>1. Waiters' = Waiters
      BY <2>1, <2>7 DEF Waiters
    <3> QED  BY <2>4, <3>1
  <2> QED  BY <2>1, <2>5, <2>6, <2>7
<1>12. ASSUME NEW c \in Clients, WaitAllSleep(c) \/ SpuriousWakeup(c) PROVE UNCHANGED Abstract!vars
  <2>1. UNCHANGED <<queues, stop, job, ran>>
    BY <1>12 DEF WaitAllSleep, SpuriousWakeup
  <2>2. /\ pc[c] \in {"decided", "waiting"} /\ pc'[c] \in {"waiting", "recheck"}
        /\ \A u \in Clients \ {c} : pc'[u] = pc[u]
    BY <1>0, <1>12 DEF WaitAllSleep, SpuriousWakeup, Goto, PcOK, Threads
  <2>3. Phase' = Phase /\ Waiters' = Waiters
    BY <2>1, <2>2 DEF Phase, Waiters
  <2> QED  BY <1>7, <2>1, <2>3
<1>13. CASE Destroy
  <2>1. UNCHANGED <<queues, job, ran>> /\ ~stop /\ stop' /\ pc'[Owner] = "stopping"
    BY <1>13, OwnerMoves
  <2>2. \A c \in Clients : pc[c] = "idle" /\ pc'[c] \in {"idle", "stopping"}
    <3>1. \A c \in Clients \ {Owner} : pc'[c] = pc[c]
      BY <1>13, OwnerMoves DEF Threads
    <3> QED  BY <1>13, <2>1, <3>1 DEF Destroy
  <2>3. Status' = Status
    BY <2>1, StatusStays DEF Queued
  <2>4. Waiters = {} /\ Waiters' = {}
    BY <2>2 DEF Waiters
  <2>5. Phase = "open" /\ Phase' = "stopping"
    BY <2>1 DEF Phase
  <2>6. Abstract!Stop
    BY <2>3, <2>4, <2>5 DEF Abstract!Stop, Status, Phase, Waiters
  <2> QED  BY <2>6 DEF Abstract!Next
<1>14. CASE NotifyStop
  <2>1. UNCHANGED <<queues, stop, job, ran>> /\ pc[Owner] = "stopping" /\ pc'[Owner] = "joining"
    BY <1>14 DEF NotifyStop, Notify, Threads
  <2>2. \A u \in Clients \ {Owner} : pc'[u] = pc[u]
    <3>1. \A u \in Clients : pc[u] # "rest"
      BY <1>0 DEF PcOK, ClientPc
    <3> QED  BY <1>14, <3>1 DEF NotifyStop, Notify, Threads
  <2>3. Phase' = Phase /\ Waiters' = Waiters
    BY <2>1, <2>2 DEF Phase, Waiters
  <2> QED  BY <1>7, <2>1, <2>3
<1>15. CASE Join
  <2>1. /\ UNCHANGED <<queues, job, ran>> /\ pendingJobs = 0
        /\ stop /\ stop' /\ pc[Owner] = "joining" /\ pc'[Owner] = "gone"
        /\ \A c \in Clients \ {Owner} : pc'[c] = pc[c]
    BY <1>15, OwnerMoves DEF Threads
  <2>2. Status' = Status /\ Waiters' = Waiters
    BY <2>1, StatusStays DEF Queued, Waiters
  <2>3. Phase = "stopping" /\ Phase' = "closed"
    BY <2>1 DEF Phase
  <2>4. Abstract!Quiescent
    BY <2>1, AllRetired
  <2>5. Abstract!Close
    BY <2>2, <2>3, <2>4 DEF Abstract!Close, Status, Phase, Waiters
  <2> QED  BY <2>5 DEF Abstract!Next
<1>16. CASE UNCHANGED vars
  <2>1. Phase' = Phase /\ Waiters' = Waiters /\ UNCHANGED <<queues, stop, job, ran>>
    BY <1>16 DEF vars, Phase, Waiters
  <2> QED  BY <1>7, <2>1
<1> QED  BY <1>2, <1>3, <1>4, <1>5, <1>6, <1>8, <1>9, <1>10, <1>11, <1>12, <1>13, <1>14, <1>15, <1>16
            DEF Next, WorkerStep, InSubmit, Terminated

(* The work stealing experiment keeps the promise of a thread pool: each   *)
(* job is pushed, taken by one worker, run and retired once; no WaitAll    *)
(* returns, and the destructor does not, before every job is retired.      *)
THEOREM StealingImplementsJobPool == Spec => ImplementsJobPool
<1>1. Init => Abstract!Init
  BY AbstractInit
<1>2. Inv /\ [Next]_vars => [Abstract!Next]_(Abstract!vars)
  BY AbstractNext
<1> QED  BY <1>1, <1>2, Invariance, PTL DEF Spec, Abstract!Spec, ImplementsJobPool

=============================================================================
