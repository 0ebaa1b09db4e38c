-------------------------- MODULE ThreadPoolProofs --------------------------
(***************************************************************************)
(* Theorems about ThreadPool, for every number of workers, every set of    *)
(* clients and jobs and every workload, in three parts: types and worker   *)
(* wake-ups; conservation, counting and completion signals; the promise of *)
(* JobPool.                                                                *)
(***************************************************************************)
EXTENDS ThreadPool, DataLemmas, TLAPS

-----------------------------------------------------------------------------
(* Where a thread is determines whether it has a job on its stack; after a *)
(* job's body, its state is done.                                          *)
ControlOK ==
  /\ \A t \in Threads :
       /\ pc[t] \in WorkerPc \cup ClientPc => stack[t] = <<>>
       /\ pc[t] \in {"body", "cont"} => stack[t] # <<>>
       /\ pc[t] = "cont" => Head(stack[t]) \in done
  /\ \A w \in Workers : pc[w] \in {"notify", "help", "wait"} => stack[w] # <<>>

Typed == TypeOK /\ ControlOK

LEMMA TypedInit == Init => Typed
<1> SUFFICES ASSUME Init PROVE Typed
  OBVIOUS
<1> USE PoolAssumption
<1>1. PcOK
  BY DEF Init, PcOK, Threads, WorkerPc, ClientPc, SharedPc
<1>2. ControlOK
  BY DEF Init, ControlOK, Threads, WorkerPc, ClientPc
<1>3. /\ jobQueue \in Seq(Jobs)
      /\ localQueues \in [Workers -> Seq(Jobs)]
      /\ stack \in [Threads -> Seq(Jobs)]
  BY DEF Init
<1>4. scan \in [Threads -> 0 .. ThreadCount]
  BY DEF Init
<1>5. stop \in BOOLEAN
  BY DEF Init
<1>6. /\ pendingJobs \in Int
      /\ submitted \in SUBSET Jobs /\ done \in SUBSET Jobs
      /\ target \in [Frames -> Jobs \cup {None}]
      /\ queueMutex \in Workers \cup {None}
      /\ completionMutex \in Clients \cup {None}
  BY DEF Init
<1> QED  BY ONLY <1>1, <1>2, <1>3, <1>4, <1>5, <1>6 DEF Typed, TypeOK

-----------------------------------------------------------------------------
(* Thread t goes to "to"; the others stay, or are woken.                   *)
AllPc == WorkerPc \cup ClientPc \cup SharedPc

Moves(t, to) ==
  /\ pc' \in [Threads -> AllPc]
  /\ pc'[t] = to
  /\ \A x \in Threads \ {t} : \/ pc'[x] = pc[x]
                              \/ pc[x] = "asleep" /\ pc'[x] = "loop"
                              \/ pc[x] = "waiting" /\ pc'[x] = "recheck"

(* What the step to "to" must have established.                            *)
Arrives(t, to) ==
  /\ t \in Workers => to \notin ClientPc
  /\ t \in Clients => to \notin WorkerPc
  /\ to \in WorkerPc \cup ClientPc => stack'[t] = <<>>
  /\ to \in {"body", "cont"} => stack'[t] # <<>>
  /\ to = "cont" => Head(stack'[t]) \in done'
  /\ t \in Workers /\ to \in {"notify", "help", "wait"} => stack'[t] # <<>>

LEMMA GotoMoves ==
  ASSUME Typed, NEW t \in Threads, NEW to \in AllPc, Goto(t, to)
  PROVE  Moves(t, to)
  BY DEF Typed, TypeOK, PcOK, Goto, Moves, AllPc

LEMMA WakeWorkersMoves ==
  ASSUME Typed, NEW t \in Threads, NEW to \in AllPc, WakeWorkers(t, to)
  PROVE  Moves(t, to)
  BY DEF Typed, TypeOK, PcOK, WakeWorkers, Moves, AllPc, WorkerPc

LEMMA MovesTyped ==
  ASSUME Typed, NEW t \in Threads, NEW to, Moves(t, to), Arrives(t, to),
         \A x \in Threads \ {t} : stack'[x] = stack[x],
         done \subseteq done'
  PROVE  PcOK' /\ ControlOK'
<1>1. PcOK'
  BY DEF Typed, TypeOK, PcOK, Moves, Arrives, AllPc, Threads, WorkerPc, ClientPc
<1>2. ControlOK'
  BY PoolAssumption DEF Typed, TypeOK, PcOK, ControlOK, Moves, Arrives, Threads, WorkerPc, ClientPc
<1> QED  BY <1>1, <1>2

-----------------------------------------------------------------------------
LEMMA FrameTyped ==
  ASSUME Typed, NEW t \in Threads
  PROVE  /\ Frame(t) \in Frames
         /\ stack[t] \in Seq(Jobs)
         /\ stack[t] # <<>> => Head(stack[t]) \in Jobs /\ Tail(stack[t]) \in Seq(Jobs)
  BY PopFront DEF Typed, TypeOK, Frame, Frames

LEMMA ResumeTyped ==
  ASSUME Typed, NEW t \in Threads, pc[t] \in {"notify", "help", "wait"},
         UNCHANGED <<stack, done>>
  PROVE  ResumePc(t) \in AllPc /\ Arrives(t, ResumePc(t))
  BY PoolAssumption DEF Typed, ControlOK, ResumePc, Arrives, AllPc, WorkerPc, ClientPc, SharedPc, Threads

LEMMA CallerTyped ==
  ASSUME Typed, NEW t \in Threads, stack'[t] \in Seq(Jobs)
  PROVE  CallerPc(t, stack'[t]) \in AllPc /\ Arrives(t, CallerPc(t, stack'[t]))
  BY PoolAssumption DEF CallerPc, IsHelper, Arrives, AllPc, WorkerPc, ClientPc, SharedPc, Threads

(* TrySteal looks at a worker's queue.                                     *)
LEMMA VictimTyped ==
  ASSUME Typed, NEW t \in Threads, pc[t] = "steal", scan[t] < ThreadCount
  PROVE  Victim(t) \in Workers
<1>1. scan[t] \in Nat /\ ThreadCount \in Nat \ {0}
  BY PoolAssumption DEF Typed, TypeOK
<1>2. CASE IsHelper(t, stack[t])
  BY <1>1, <1>2 DEF Victim, Workers
<1>3. CASE ~IsHelper(t, stack[t])
  <2>1. t \in Nat
    BY <1>3 DEF IsHelper, Threads, Workers
  <2>2. \A a, n \in Nat : n > 0 => a % n \in 0 .. n - 1
    OBVIOUS
  <2> QED  BY <1>1, <1>3, <2>1, <2>2 DEF Victim, Workers
<1> QED  BY <1>2, <1>3

(* A job moves from a queue to the call stack of t.                        *)
LEMMA StartTyped ==
  ASSUME Typed, NEW t \in Threads, NEW j \in Jobs, StartJob(t, j),
         jobQueue' \in Seq(Jobs), localQueues' \in [Workers -> Seq(Jobs)],
         UNCHANGED <<jobVars, mutexVars, stop, target, scan>>
  PROVE  Typed'
<1>1. /\ stack' \in [Threads -> Seq(Jobs)]
      /\ stack'[t] # <<>>
      /\ \A x \in Threads \ {t} : stack'[x] = stack[x]
  BY PushFront, FrameTyped DEF StartJob, Typed, TypeOK
<1>2. Moves(t, "body") /\ Arrives(t, "body")
  BY <1>1, GotoMoves DEF StartJob, Arrives, AllPc, WorkerPc, ClientPc, SharedPc
<1>3. PcOK' /\ ControlOK'
  BY <1>1, <1>2, MovesTyped DEF jobVars
<1> QED  BY <1>1, <1>3 DEF Typed, TypeOK, jobVars, mutexVars

(* Each action keeps the types and the control invariant.                  *)
LEMMA TypedNext == Typed /\ [Next]_vars => Typed'
<1> SUFFICES ASSUME Typed, [Next]_vars PROVE Typed'
  OBVIOUS
<1> USE PoolAssumption
<1>1. ASSUME NEW t \in Threads, NotifyWorkers(t) PROVE Typed'
  <2>1. Moves(t, ResumePc(t)) /\ Arrives(t, ResumePc(t))
    BY <1>1, ResumeTyped, WakeWorkersMoves DEF NotifyWorkers, jobVars
  <2>2. PcOK' /\ ControlOK'
    BY <1>1, <2>1, MovesTyped DEF NotifyWorkers, jobVars
  <2> QED  BY <1>1, <2>2 DEF NotifyWorkers, Typed, TypeOK, queueVars, jobVars, mutexVars
<1>2. ASSUME NEW t \in Threads, TryPopGlobal(t) PROVE Typed'
  <2>1. CASE jobQueue # <<>>
    <3>1. Head(jobQueue) \in Jobs /\ Tail(jobQueue) \in Seq(Jobs)
      BY <2>1, PopFront DEF Typed, TypeOK
    <3>2. /\ StartJob(t, Head(jobQueue))
          /\ jobQueue' = Tail(jobQueue)
          /\ UNCHANGED <<localQueues, jobVars, mutexVars, stop, target, scan>>
      BY <1>2, <2>1 DEF TryPopGlobal
    <3> QED  BY <3>1, <3>2, StartTyped DEF Typed, TypeOK
  <2>2. CASE jobQueue = <<>>
    <3>0. FirstScan(t) \in 0 .. ThreadCount
      BY DEF FirstScan
    <3>1. scan' \in [Threads -> 0 .. ThreadCount]
      BY <1>2, <2>2, <3>0 DEF TryPopGlobal, Typed, TypeOK
    <3>2. Moves(t, "steal") /\ Arrives(t, "steal")
      BY <1>2, <2>2, GotoMoves DEF TryPopGlobal, Arrives, AllPc, WorkerPc, ClientPc, SharedPc
    <3>3. PcOK' /\ ControlOK'
      BY <1>2, <2>2, <3>2, MovesTyped DEF TryPopGlobal, jobVars
    <3> QED
      BY <1>2, <2>2, <3>1, <3>3 DEF TryPopGlobal, Typed, TypeOK, queueVars, jobVars, mutexVars
  <2> QED  BY <2>1, <2>2
<1>3. ASSUME NEW t \in Threads, TrySteal(t) PROVE Typed'
  <2>0. scan[t] \in Int /\ ThreadCount \in Int
    BY DEF Typed, TypeOK
  <2>1. CASE scan[t] < ThreadCount /\ localQueues[Victim(t)] # <<>>
    <3>1. Victim(t) \in Workers
      BY <1>3, <2>1, VictimTyped DEF TrySteal
    <3>2. /\ Head(localQueues[Victim(t)]) \in Jobs
          /\ Tail(localQueues[Victim(t)]) \in Seq(Jobs)
      BY <2>1, <3>1, PopFront DEF Typed, TypeOK
    <3>3. /\ StartJob(t, Head(localQueues[Victim(t)]))
          /\ localQueues' = [localQueues EXCEPT ![Victim(t)] = Tail(@)]
          /\ UNCHANGED <<jobQueue, jobVars, mutexVars, stop, target, scan>>
      BY <1>3, <2>0, <2>1 DEF TrySteal
    <3>4. localQueues' \in [Workers -> Seq(Jobs)]
      BY <3>2, <3>3 DEF Typed, TypeOK
    <3> QED  BY <3>2, <3>3, <3>4, StartTyped DEF Typed, TypeOK
  <2>2. CASE scan[t] < ThreadCount /\ localQueues[Victim(t)] = <<>>
    <3>1. scan[t] + 1 \in 0 .. ThreadCount
      BY <2>2 DEF Typed, TypeOK
    <3>2. /\ scan' = [scan EXCEPT ![t] = @ + 1]
          /\ UNCHANGED <<localQueues, stack, pc, jobQueue, jobVars, mutexVars, stop, target>>
      BY <1>3, <2>0, <2>2 DEF TrySteal
    <3>3. scan' \in [Threads -> 0 .. ThreadCount]
      BY <3>1, <3>2 DEF Typed, TypeOK
    <3> QED
      BY <3>2, <3>3 DEF Typed, TypeOK, PcOK, ControlOK, queueVars, jobVars, mutexVars
  <2>3. CASE ~(scan[t] < ThreadCount)
    <3>0. /\ scan' = [scan EXCEPT ![t] = 0]
          /\ Goto(t, CallerPc(t, stack[t]))
          /\ UNCHANGED <<stack, localQueues, jobQueue, jobVars, mutexVars, stop, target>>
      BY <1>3, <2>0, <2>3 DEF TrySteal
    <3>1. /\ scan' \in [Threads -> 0 .. ThreadCount]
          /\ Goto(t, CallerPc(t, stack[t]))
          /\ UNCHANGED <<stack, queueVars, jobVars, mutexVars, stop, target>>
      BY <3>0 DEF Typed, TypeOK, queueVars
    <3>2. stack'[t] \in Seq(Jobs) /\ stack'[t] = stack[t]
      BY <3>1, FrameTyped
    <3>3. Moves(t, CallerPc(t, stack[t])) /\ Arrives(t, CallerPc(t, stack[t]))
      BY <3>1, <3>2, CallerTyped, GotoMoves
    <3>4. PcOK' /\ ControlOK'
      BY <3>1, <3>3, MovesTyped DEF jobVars
    <3> QED
      BY <3>1, <3>4 DEF Typed, TypeOK, queueVars, jobVars, mutexVars
  <2> QED  BY <1>3, <2>1, <2>2, <2>3 DEF TrySteal
<1>4. ASSUME NEW t \in Threads, CompleteJobState(t) PROVE Typed'
  <2>1. stack[t] # <<>> /\ Head(stack[t]) \in Jobs
    BY <1>4, FrameTyped DEF CompleteJobState, Typed, ControlOK
  <2>2. Moves(t, "cont") /\ Arrives(t, "cont")
    BY <1>4, <2>1, GotoMoves DEF CompleteJobState, Arrives, AllPc, WorkerPc, ClientPc, SharedPc
  <2>3. PcOK' /\ ControlOK'
    BY <1>4, <2>2, MovesTyped DEF CompleteJobState
  <2> QED  BY <1>4, <2>1, <2>3 DEF CompleteJobState, Typed, TypeOK, queueVars, mutexVars
<1>5. ASSUME NEW t \in Threads, ExecuteJobEnd(t) PROVE Typed'
  <2>1. stack[t] # <<>> /\ Tail(stack[t]) \in Seq(Jobs)
    BY <1>5, FrameTyped DEF ExecuteJobEnd, Typed, ControlOK
  <2>2. /\ stack' \in [Threads -> Seq(Jobs)]
        /\ stack'[t] = Tail(stack[t])
        /\ \A x \in Threads \ {t} : stack'[x] = stack[x]
    BY <1>5, <2>1 DEF ExecuteJobEnd, Typed, TypeOK
  <2>3. PICK to : /\ to \in {"signal", CallerPc(t, stack'[t])}
                  /\ Goto(t, to)
    BY <1>5, <2>2 DEF ExecuteJobEnd
  <2>4. to \in AllPc /\ Arrives(t, to)
    BY <2>2, <2>3, CallerTyped DEF Arrives, AllPc, WorkerPc, ClientPc, SharedPc
  <2>5. PcOK' /\ ControlOK'
    BY <1>5, <2>2, <2>3, <2>4, GotoMoves, MovesTyped DEF ExecuteJobEnd
  <2> QED
    BY <1>5, <2>2, <2>5 DEF ExecuteJobEnd, Typed, TypeOK, queueVars, mutexVars
<1>6. ASSUME NEW t \in Threads, SignalCompletion(t) PROVE Typed'
  <2>1. stack'[t] \in Seq(Jobs) /\ stack'[t] = stack[t]
    BY <1>6, FrameTyped DEF SignalCompletion, WakeWaiters
  <2>2. CallerPc(t, stack[t]) \in AllPc /\ Arrives(t, CallerPc(t, stack[t]))
    BY <2>1, CallerTyped
  <2>3. Moves(t, CallerPc(t, stack[t]))
    BY <1>6, <2>2 DEF SignalCompletion, WakeWaiters, Moves, Typed, TypeOK, PcOK, AllPc, ClientPc
  <2>4. PcOK' /\ ControlOK'
    BY <1>6, <2>2, <2>3, MovesTyped DEF SignalCompletion, WakeWaiters, jobVars
  <2> QED
    BY <1>6, <2>4 DEF SignalCompletion, WakeWaiters, Typed, TypeOK, queueVars, jobVars, mutexVars
<1>7. ASSUME NEW t \in Threads, HelpCheck(t) PROVE Typed'
  <2>1. PICK to \in {"global", ResumePc(t)} : Goto(t, to)
    BY <1>7 DEF HelpCheck
  <2>2. to \in AllPc /\ Arrives(t, to)
    BY <1>7, <2>1, ResumeTyped DEF HelpCheck, jobVars, Arrives, AllPc, WorkerPc, ClientPc, SharedPc
  <2>3. PcOK' /\ ControlOK'
    BY <1>7, <2>1, <2>2, GotoMoves, MovesTyped DEF HelpCheck, jobVars
  <2>4. target' \in [Frames -> Jobs \cup {None}]
    BY <1>7 DEF HelpCheck, Typed, TypeOK
  <2> QED
    BY <1>7, <2>3, <2>4 DEF HelpCheck, Typed, TypeOK, queueVars, jobVars, mutexVars
<1>8. ASSUME NEW t \in Threads, WaitReturn(t) PROVE Typed'
  <2>1. Moves(t, ResumePc(t)) /\ Arrives(t, ResumePc(t))
    BY <1>8, ResumeTyped, GotoMoves DEF WaitReturn, jobVars
  <2>2. PcOK' /\ ControlOK'
    BY <1>8, <2>1, MovesTyped DEF WaitReturn, jobVars
  <2>3. target' \in [Frames -> Jobs \cup {None}]
    BY <1>8 DEF WaitReturn, Typed, TypeOK
  <2> QED
    BY <1>8, <2>2, <2>3 DEF WaitReturn, Typed, TypeOK, queueVars, jobVars, mutexVars
<1>9. ASSUME NEW t \in Threads, NEW j \in Jobs, EnqueueWithState(t, j) PROVE Typed'
  <2>1. Moves(t, "notify") /\ Arrives(t, "notify")
    BY <1>9, GotoMoves DEF EnqueueWithState, InBody, Arrives, Typed, TypeOK, PcOK, ControlOK,
       AllPc, WorkerPc, ClientPc, SharedPc
  <2>2. PcOK' /\ ControlOK'
    BY <1>9, <2>1, MovesTyped DEF EnqueueWithState
  <2>3. jobQueue' \in Seq(Jobs) /\ localQueues' \in [Workers -> Seq(Jobs)]
    <3>1. CASE t \in Workers
      <4>1. Append(localQueues[t], j) \in Seq(Jobs)
        BY <3>1 DEF Typed, TypeOK
      <4>2. jobQueue' = jobQueue /\ localQueues' = [localQueues EXCEPT ![t] = Append(@, j)]
        BY <1>9, <3>1 DEF EnqueueWithState
      <4> QED  BY <4>1, <4>2 DEF Typed, TypeOK
    <3>2. CASE t \notin Workers
      <4>1. jobQueue' = Append(jobQueue, j) /\ localQueues' = localQueues
        BY <1>9, <3>2 DEF EnqueueWithState
      <4> QED  BY <4>1 DEF Typed, TypeOK
    <3> QED  BY <3>1, <3>2
  <2> QED
    BY <1>9, <2>2, <2>3 DEF EnqueueWithState, Typed, TypeOK, mutexVars
<1>10. ASSUME NEW t \in Threads, NEW j \in Jobs, WaitWithHelping(t, j) PROVE Typed'
  <2>1. Moves(t, "help") /\ Arrives(t, "help")
    BY <1>10, GotoMoves DEF WaitWithHelping, InBody, Arrives, Typed, TypeOK, PcOK, ControlOK,
       AllPc, WorkerPc, ClientPc, SharedPc
  <2>2. PcOK' /\ ControlOK'
    BY <1>10, <2>1, MovesTyped DEF WaitWithHelping, jobVars
  <2>3. target' \in [Frames -> Jobs \cup {None}]
    BY <1>10 DEF WaitWithHelping, Typed, TypeOK
  <2> QED
    BY <1>10, <2>2, <2>3 DEF WaitWithHelping, Typed, TypeOK, queueVars, jobVars, mutexVars
<1>11. ASSUME NEW t \in Threads, NEW j \in Jobs, Wait(t, j) PROVE Typed'
  <2>1. Moves(t, "wait") /\ Arrives(t, "wait")
    BY <1>11, GotoMoves DEF Wait, InBody, Arrives, Typed, TypeOK, PcOK, ControlOK,
       AllPc, WorkerPc, ClientPc, SharedPc
  <2>2. PcOK' /\ ControlOK'
    BY <1>11, <2>1, MovesTyped DEF Wait, jobVars
  <2>3. target' \in [Frames -> Jobs \cup {None}]
    BY <1>11 DEF Wait, Typed, TypeOK
  <2> QED
    BY <1>11, <2>2, <2>3 DEF Wait, Typed, TypeOK, queueVars, jobVars, mutexVars
<1>12. ASSUME NEW t \in Threads, SpuriousWakeup(t) PROVE Typed'
  <2>1. PICK to \in {"loop", "recheck"} : /\ Goto(t, to)
                                          /\ pc[t] = IF to = "loop" THEN "asleep" ELSE "waiting"
    BY <1>12 DEF SpuriousWakeup
  <2>2. to \in AllPc /\ Arrives(t, to)
    BY <1>12, <2>1 DEF SpuriousWakeup, Arrives, Typed, TypeOK, PcOK, ControlOK,
       AllPc, WorkerPc, ClientPc, SharedPc
  <2>3. PcOK' /\ ControlOK'
    BY <1>12, <2>1, <2>2, GotoMoves, MovesTyped DEF SpuriousWakeup, jobVars
  <2> QED
    BY <1>12, <2>3 DEF SpuriousWakeup, Typed, TypeOK, queueVars, jobVars, mutexVars
<1>13. ASSUME NEW w \in Workers, WorkerCheck(w) PROVE Typed'
  <2>1. PICK to \in {"local", "exited", "park"} : Goto(w, to)
    BY <1>13 DEF WorkerCheck
  <2>2. w \in Threads /\ to \in AllPc /\ Arrives(w, to)
    BY <1>13, <2>1 DEF WorkerCheck, Threads, Arrives, Typed, ControlOK,
       AllPc, WorkerPc, ClientPc, SharedPc
  <2>3. PcOK' /\ ControlOK'
    BY <1>13, <2>1, <2>2, GotoMoves, MovesTyped DEF WorkerCheck, jobVars
  <2>4. queueMutex' \in Workers \cup {None}
    BY <1>13 DEF WorkerCheck, Typed, TypeOK
  <2> QED
    BY <1>13, <2>3, <2>4 DEF WorkerCheck, Typed, TypeOK, queueVars, jobVars
<1>14. ASSUME NEW w \in Workers, WorkerSleep(w) PROVE Typed'
  <2>1. w \in Threads /\ Moves(w, "asleep") /\ Arrives(w, "asleep")
    BY <1>14, GotoMoves DEF WorkerSleep, Threads, Arrives, Typed, ControlOK,
       AllPc, WorkerPc, ClientPc, SharedPc
  <2>2. PcOK' /\ ControlOK'
    BY <1>14, <2>1, MovesTyped DEF WorkerSleep, jobVars
  <2> QED
    BY <1>14, <2>2 DEF WorkerSleep, Typed, TypeOK, queueVars, jobVars
<1>15. ASSUME NEW w \in Workers, TryPopLocal(w) PROVE Typed'
  <2>1. w \in Threads
    BY DEF Threads
  <2>2. CASE localQueues[w] # <<>>
    <3>1. Last(localQueues[w]) \in Jobs /\ Front(localQueues[w]) \in Seq(Jobs)
      BY <2>2, PopBack DEF Typed, TypeOK
    <3>2. /\ localQueues' \in [Workers -> Seq(Jobs)]
          /\ StartJob(w, Last(localQueues[w]))
          /\ UNCHANGED <<jobQueue, jobVars, mutexVars, stop, target, scan>>
      BY <1>15, <2>2, <3>1 DEF TryPopLocal, Typed, TypeOK
    <3> QED  BY <2>1, <3>1, <3>2, StartTyped DEF Typed, TypeOK
  <2>3. CASE localQueues[w] = <<>>
    <3>1. Moves(w, "global") /\ Arrives(w, "global")
      BY <1>15, <2>1, <2>3, GotoMoves DEF TryPopLocal, Arrives, AllPc, WorkerPc, ClientPc, SharedPc
    <3>2. PcOK' /\ ControlOK'
      BY <1>15, <2>1, <2>3, <3>1, MovesTyped DEF TryPopLocal, jobVars
    <3> QED
      BY <1>15, <2>3, <3>2 DEF TryPopLocal, Typed, TypeOK, jobVars, mutexVars
  <2> QED  BY <2>2, <2>3
<1>16. ASSUME NEW c \in Clients, WaitAll(c) PROVE Typed'
  <2>1. PICK to \in {"idle", "decided"} : Goto(c, to)
    BY <1>16 DEF WaitAll
  <2>2. c \in Threads /\ to \in AllPc /\ Arrives(c, to)
    BY <1>16, <2>1 DEF WaitAll, Threads, Arrives, Typed, ControlOK,
       AllPc, WorkerPc, ClientPc, SharedPc
  <2>3. PcOK' /\ ControlOK'
    BY <1>16, <2>1, <2>2, GotoMoves, MovesTyped DEF WaitAll, jobVars
  <2>4. completionMutex' \in Clients \cup {None}
    BY <1>16 DEF WaitAll, Typed, TypeOK
  <2> QED
    BY <1>16, <2>3, <2>4 DEF WaitAll, Typed, TypeOK, queueVars, jobVars
<1>17. ASSUME NEW c \in Clients, WaitAllSleep(c) PROVE Typed'
  <2>1. c \in Threads /\ Moves(c, "waiting") /\ Arrives(c, "waiting")
    BY <1>17, GotoMoves DEF WaitAllSleep, Threads, Arrives, Typed, ControlOK,
       AllPc, WorkerPc, ClientPc, SharedPc
  <2>2. PcOK' /\ ControlOK'
    BY <1>17, <2>1, MovesTyped DEF WaitAllSleep, jobVars
  <2> QED
    BY <1>17, <2>2 DEF WaitAllSleep, Typed, TypeOK, queueVars, jobVars
<1>18. Owner \in Threads
  BY DEF Threads
<1>19. ASSUME Destroy PROVE Typed'
  <2>1. Moves(Owner, "stopping") /\ Arrives(Owner, "stopping")
    BY <1>18, <1>19, GotoMoves DEF Destroy, SetStop, Arrives, Typed, ControlOK,
       AllPc, WorkerPc, ClientPc, SharedPc
  <2>2. PcOK' /\ ControlOK'
    BY <1>18, <1>19, <2>1, MovesTyped DEF Destroy, SetStop, jobVars
  <2>3. stop' \in BOOLEAN
    BY <1>19 DEF Destroy, SetStop
  <2> QED
    BY <1>19, <2>2, <2>3 DEF Destroy, SetStop, Typed, TypeOK, queueVars, jobVars, mutexVars
<1>20. ASSUME NotifyStop PROVE Typed'
  <2>1. Moves(Owner, "joining") /\ Arrives(Owner, "joining")
    BY <1>18, <1>20, WakeWorkersMoves DEF NotifyStop, Arrives, Typed, ControlOK,
       AllPc, WorkerPc, ClientPc, SharedPc
  <2>2. PcOK' /\ ControlOK'
    BY <1>18, <1>20, <2>1, MovesTyped DEF NotifyStop, jobVars
  <2> QED
    BY <1>20, <2>2 DEF NotifyStop, Typed, TypeOK, queueVars, jobVars, mutexVars
<1>21. ASSUME Join PROVE Typed'
  <2>1. Moves(Owner, "gone") /\ Arrives(Owner, "gone")
    BY <1>18, <1>21, GotoMoves DEF Join, Arrives, Typed, ControlOK,
       AllPc, WorkerPc, ClientPc, SharedPc
  <2>2. PcOK' /\ ControlOK'
    BY <1>18, <1>21, <2>1, MovesTyped DEF Join, jobVars
  <2> QED
    BY <1>21, <2>2 DEF Join, Typed, TypeOK, queueVars, jobVars, mutexVars
<1>22. CASE UNCHANGED vars
  BY <1>22 DEF vars, queueVars, jobVars, mutexVars, Typed, TypeOK, PcOK, ControlOK
<1> QED
  BY <1>1, <1>2, <1>3, <1>4, <1>5, <1>6, <1>7, <1>8, <1>9, <1>10, <1>11, <1>12, <1>13,
     <1>14, <1>15, <1>16, <1>17, <1>19, <1>20, <1>21, <1>22
  DEF Next, Progress, Call, WorkerStep, Terminated

(* Every variable keeps its type, and a thread's place in the code agrees  *)
(* with its call stack.                                                    *)
THEOREM TypeCorrect == Spec => []TypeOK
<1>1. Typed => TypeOK
  BY DEF Typed
<1> QED  BY <1>1, TypedInit, TypedNext, PTL DEF Spec

-----------------------------------------------------------------------------
(* Worker wake-up.  A worker that has decided to sleep still holds the     *)
(* queue mutex and what it decided upon still holds: submitting and        *)
(* stopping take the mutex too.                                            *)
Work == stop \/ jobQueue # <<>> \/ HasAnyLocalJob

ParkOK == \A w \in Workers : pc[w] = "park" => queueMutex = w /\ ~Work

WakeInv == Typed /\ ParkOK /\ NoLostWorkerWakeup

(* A step that adds no work, sends nobody to sleep and owes no             *)
(* notification.                                                           *)
LEMMA QuietStep ==
  ASSUME WakeInv, Work' => Work, UNCHANGED queueMutex,
         NEW t \in Threads, NEW to, Moves(t, to),
         pc[t] \notin {"notify", "stopping"}, to \notin {"park", "asleep"}
  PROVE  ParkOK' /\ NoLostWorkerWakeup'
<1>1. \A x \in Threads : pc'[x] \in {"park", "asleep"} => pc'[x] = pc[x]
  BY DEF Moves
<1>2. \A x \in Threads : pc[x] \in {"notify", "stopping"} => pc'[x] = pc[x]
  BY DEF Moves
<1>3. ParkOK'
  BY <1>1 DEF WakeInv, ParkOK, Threads
<1>4. NoLostWorkerWakeup'
  BY <1>1, <1>2 DEF WakeInv, NoLostWorkerWakeup, Work, Threads
<1> QED  BY <1>3, <1>4

LEMMA QuietGoto ==
  ASSUME WakeInv, Work' => Work, UNCHANGED queueMutex,
         NEW t \in Threads, NEW to \in AllPc, Goto(t, to),
         pc[t] \notin {"notify", "stopping"}, to \notin {"park", "asleep"}
  PROVE  ParkOK' /\ NoLostWorkerWakeup'
  BY QuietStep, GotoMoves DEF WakeInv

(* notify_all leaves nobody asleep.                                        *)
LEMMA WakeStep ==
  ASSUME WakeInv, NEW t \in Threads, NEW to \in AllPc, WakeWorkers(t, to),
         to \notin {"park", "asleep"}, UNCHANGED <<queueVars, stop, queueMutex>>
  PROVE  ParkOK' /\ NoLostWorkerWakeup'
<1>1. \A x \in Threads : pc'[x] # "asleep" /\ (pc'[x] = "park" => pc[x] = "park")
  BY DEF WakeInv, Typed, TypeOK, PcOK, WakeWorkers
<1>2. Work' = Work
  BY DEF Work, HasAnyLocalJob, queueVars
<1>3. ParkOK'
  BY <1>1, <1>2 DEF WakeInv, ParkOK, Threads
<1> QED  BY <1>1, <1>2, <1>3 DEF ParkOK, NoLostWorkerWakeup, Work, Threads

LEMMA WakeInit == Init => ParkOK /\ NoLostWorkerWakeup
  BY PoolAssumption DEF Init, ParkOK, NoLostWorkerWakeup, Threads

LEMMA WakeNext == WakeInv /\ [Next]_vars => ParkOK' /\ NoLostWorkerWakeup'
<1> SUFFICES ASSUME WakeInv, [Next]_vars PROVE ParkOK' /\ NoLostWorkerWakeup'
  OBVIOUS
<1> USE PoolAssumption
<1>a. Typed
  BY DEF WakeInv
<1>b. "body" \in AllPc /\ "cont" \in AllPc /\ "steal" \in AllPc /\ "signal" \in AllPc
      /\ "help" \in AllPc /\ "wait" \in AllPc /\ "global" \in AllPc /\ "notify" \in AllPc
      /\ "local" \in AllPc /\ "exited" \in AllPc /\ "park" \in AllPc /\ "loop" \in AllPc
      /\ "asleep" \in AllPc /\ "idle" \in AllPc /\ "decided" \in AllPc /\ "waiting" \in AllPc
      /\ "recheck" \in AllPc /\ "stopping" \in AllPc /\ "joining" \in AllPc /\ "gone" \in AllPc
  BY DEF AllPc, WorkerPc, ClientPc, SharedPc
<1>c. \A t : ResumePc(t) \in {"idle", "body", "cont"}
  BY DEF ResumePc
<1>d. \A t, frames : CallerPc(t, frames) \in {"loop", "help"}
  BY DEF CallerPc
<1>e. Workers \subseteq Threads /\ Clients \subseteq Threads
  BY DEF Threads
<1>f. None \notin Workers
  BY DEF Threads, Frames
<1>1. ASSUME NEW t \in Threads, NotifyWorkers(t) PROVE ParkOK' /\ NoLostWorkerWakeup'
  BY <1>1, <1>b, <1>c, WakeStep DEF NotifyWorkers, mutexVars
<1>2. ASSUME NEW t \in Threads, TryPopGlobal(t) PROVE ParkOK' /\ NoLostWorkerWakeup'
  <2>1. Work' => Work
    BY <1>2 DEF TryPopGlobal, Work, HasAnyLocalJob
  <2>2. PICK to \in {"body", "steal"} : Goto(t, to)
    BY <1>2 DEF TryPopGlobal, StartJob
  <2> QED  BY <1>2, <1>b, <2>1, <2>2, QuietGoto DEF TryPopGlobal, mutexVars
<1>3. ASSUME NEW t \in Threads, TrySteal(t) PROVE ParkOK' /\ NoLostWorkerWakeup'
  <2>1. CASE UNCHANGED pc
    <3>1. Moves(t, "steal")
      BY <1>3, <1>a, <2>1 DEF TrySteal, Moves, Typed, TypeOK, PcOK, AllPc
    <3>2. Work' => Work
      BY <1>3, <1>a DEF TrySteal, Work, HasAnyLocalJob, Typed, TypeOK
    <3> QED  BY <1>3, <3>1, <3>2, QuietStep DEF TrySteal, mutexVars
  <2>2. CASE ~UNCHANGED pc
    <3>1. Work' => Work
      BY <1>3, <1>a DEF TrySteal, Work, HasAnyLocalJob, Typed, TypeOK
    <3>2. PICK to \in {"body", "loop", "help"} : Goto(t, to)
      BY <1>3, <1>d, <2>2 DEF TrySteal, StartJob
    <3> QED  BY <1>3, <1>b, <3>1, <3>2, QuietGoto DEF TrySteal, mutexVars
  <2> QED  BY <2>1, <2>2
<1>4. ASSUME NEW t \in Threads, CompleteJobState(t) PROVE ParkOK' /\ NoLostWorkerWakeup'
  BY <1>4, <1>b, QuietGoto DEF CompleteJobState, mutexVars, queueVars, Work, HasAnyLocalJob
<1>5. ASSUME NEW t \in Threads, ExecuteJobEnd(t) PROVE ParkOK' /\ NoLostWorkerWakeup'
  <2>1. PICK to \in {"signal", "loop", "help"} : Goto(t, to)
    BY <1>5, <1>d DEF ExecuteJobEnd
  <2> QED  BY <1>5, <1>b, <2>1, QuietGoto DEF ExecuteJobEnd, mutexVars, queueVars, Work, HasAnyLocalJob
<1>6. ASSUME NEW t \in Threads, SignalCompletion(t) PROVE ParkOK' /\ NoLostWorkerWakeup'
  <2>1. Moves(t, CallerPc(t, stack[t]))
    BY <1>6, <1>a, <1>b, <1>d DEF SignalCompletion, WakeWaiters, Moves, Typed, TypeOK, PcOK, AllPc
  <2> QED
    BY <1>6, <1>d, <2>1, QuietStep
    DEF SignalCompletion, WakeWaiters, mutexVars, queueVars, Work, HasAnyLocalJob
<1>7. ASSUME NEW t \in Threads, HelpCheck(t) PROVE ParkOK' /\ NoLostWorkerWakeup'
  <2>1. PICK to \in {"idle", "body", "cont", "global"} : Goto(t, to)
    BY <1>7, <1>c DEF HelpCheck
  <2> QED  BY <1>7, <1>b, <2>1, QuietGoto DEF HelpCheck, mutexVars, queueVars, Work, HasAnyLocalJob
<1>8. ASSUME NEW t \in Threads, WaitReturn(t) PROVE ParkOK' /\ NoLostWorkerWakeup'
  BY <1>8, <1>b, <1>c, QuietGoto DEF WaitReturn, mutexVars, queueVars, Work, HasAnyLocalJob
<1>9. ASSUME NEW t \in Threads, NEW j \in Jobs, EnqueueWithState(t, j)
      PROVE ParkOK' /\ NoLostWorkerWakeup'
  <2>1. pc'[t] = "notify" /\ \A x \in Threads \ {t} : pc'[x] = pc[x]
    BY <1>9, <1>a DEF EnqueueWithState, Goto, Typed, TypeOK, PcOK
  <2>2. \A w \in Workers : pc[w] # "park"
    BY <1>9, <1>f DEF EnqueueWithState, WakeInv, ParkOK
  <2> QED  BY <1>e, <2>1, <2>2 DEF ParkOK, NoLostWorkerWakeup
<1>10. ASSUME NEW t \in Threads, NEW j \in Jobs, WaitWithHelping(t, j)
       PROVE ParkOK' /\ NoLostWorkerWakeup'
  BY <1>10, <1>b, QuietGoto DEF WaitWithHelping, InBody, mutexVars, queueVars, Work, HasAnyLocalJob
<1>11. ASSUME NEW t \in Threads, NEW j \in Jobs, Wait(t, j) PROVE ParkOK' /\ NoLostWorkerWakeup'
  BY <1>11, <1>b, QuietGoto DEF Wait, InBody, mutexVars, queueVars, Work, HasAnyLocalJob
<1>12. ASSUME NEW t \in Threads, SpuriousWakeup(t) PROVE ParkOK' /\ NoLostWorkerWakeup'
  <2>1. PICK to \in {"loop", "recheck"} : Goto(t, to)
    BY <1>12 DEF SpuriousWakeup
  <2> QED
    BY <1>12, <1>b, <2>1, QuietGoto DEF SpuriousWakeup, mutexVars, queueVars, Work, HasAnyLocalJob
<1>13. ASSUME NEW w \in Workers, WorkerCheck(w) PROVE ParkOK' /\ NoLostWorkerWakeup'
  <2>1. CASE Work
    <3>1. PICK to \in {"local", "exited"} : Goto(w, to) /\ UNCHANGED queueMutex
      BY <1>13, <2>1 DEF WorkerCheck, Work
    <3> QED
      BY <1>13, <1>b, <1>e, <2>1, <3>1, QuietGoto DEF WorkerCheck
  <2>2. CASE ~Work
    <3>1. ~Work' /\ Goto(w, "park") /\ queueMutex' = w /\ queueMutex = None
      BY <1>13, <2>2 DEF WorkerCheck, Work, HasAnyLocalJob, queueVars
    <3>2. \A x \in Workers : pc'[x] = "park" => x = w
      BY <1>a, <1>e, <1>f, <3>1 DEF WakeInv, ParkOK, Goto, Typed, TypeOK, PcOK
    <3> QED  BY <3>1, <3>2 DEF ParkOK, NoLostWorkerWakeup, Work
  <2> QED  BY <2>1, <2>2
<1>14. ASSUME NEW w \in Workers, WorkerSleep(w) PROVE ParkOK' /\ NoLostWorkerWakeup'
  <2>1. Work' = Work /\ ~Work
    BY <1>14 DEF WorkerSleep, WakeInv, ParkOK, Work, HasAnyLocalJob, queueVars
  <2>2. \A x \in Workers : pc'[x] # "park"
    BY <1>14, <1>a, <1>e DEF WorkerSleep, WakeInv, ParkOK, Goto, Typed, TypeOK, PcOK
  <2> QED  BY <2>1, <2>2 DEF ParkOK, NoLostWorkerWakeup, Work
<1>15. ASSUME NEW w \in Workers, TryPopLocal(w) PROVE ParkOK' /\ NoLostWorkerWakeup'
  <2>1. Work' => Work
    BY <1>15, <1>a DEF TryPopLocal, Work, HasAnyLocalJob, Typed, TypeOK
  <2>2. PICK to \in {"body", "global"} : Goto(w, to)
    BY <1>15 DEF TryPopLocal, StartJob
  <2> QED  BY <1>15, <1>b, <1>e, <2>1, <2>2, QuietGoto DEF TryPopLocal, mutexVars
<1>16. ASSUME NEW c \in Clients, WaitAll(c) PROVE ParkOK' /\ NoLostWorkerWakeup'
  <2>1. PICK to \in {"idle", "decided"} : Goto(c, to)
    BY <1>16 DEF WaitAll
  <2> QED  BY <1>16, <1>b, <1>e, <2>1, QuietGoto DEF WaitAll, queueVars, Work, HasAnyLocalJob
<1>17. ASSUME NEW c \in Clients, WaitAllSleep(c) PROVE ParkOK' /\ NoLostWorkerWakeup'
  BY <1>17, <1>b, <1>e, QuietGoto DEF WaitAllSleep, queueVars, Work, HasAnyLocalJob
<1>19. ASSUME Destroy PROVE ParkOK' /\ NoLostWorkerWakeup'
  <2>1. pc'[Owner] = "stopping" /\ \A x \in Threads \ {Owner} : pc'[x] = pc[x]
    BY <1>19, <1>a, <1>e DEF Destroy, SetStop, Goto, Typed, TypeOK, PcOK
  <2>2. \A w \in Workers : pc[w] # "park"
    BY <1>19, <1>f DEF Destroy, SetStop, WakeInv, ParkOK
  <2> QED  BY <1>e, <2>1, <2>2 DEF ParkOK, NoLostWorkerWakeup
<1>20. ASSUME NotifyStop PROVE ParkOK' /\ NoLostWorkerWakeup'
  BY <1>20, <1>b, <1>e, WakeStep DEF NotifyStop, mutexVars
<1>21. ASSUME Join PROVE ParkOK' /\ NoLostWorkerWakeup'
  BY <1>21, <1>b, <1>e, QuietGoto DEF Join, mutexVars, queueVars, Work, HasAnyLocalJob
<1>22. CASE UNCHANGED vars
  BY <1>22 DEF vars, queueVars, mutexVars, WakeInv, ParkOK, NoLostWorkerWakeup, Work, HasAnyLocalJob
<1> QED
  BY <1>1, <1>2, <1>3, <1>4, <1>5, <1>6, <1>7, <1>8, <1>9, <1>10, <1>11, <1>12, <1>13,
     <1>14, <1>15, <1>16, <1>17, <1>19, <1>20, <1>21, <1>22
  DEF Next, Progress, Call, WorkerStep, Terminated

(* No worker sleeps through a submission or through the destructor.        *)
THEOREM WakeupsNotLost == Spec => []NoLostWorkerWakeup
<1>1. Init => WakeInv
  BY TypedInit, WakeInit DEF WakeInv
<1>2. WakeInv /\ [Next]_vars => WakeInv'
  BY TypedNext, WakeNext DEF WakeInv
<1>3. WakeInv => NoLostWorkerWakeup
  BY DEF WakeInv
<1> QED  BY <1>1, <1>2, <1>3, PTL DEF Spec

-----------------------------------------------------------------------------
(***************************************************************************)
(* No job is lost or duplicated, the pending counter is exact, and no      *)
(* WaitAll misses the last completion.                                     *)
(***************************************************************************)

(* Every job has at most one position.                                     *)
Elems(h) == ToSet(Content(h))

Unique ==
  /\ \A h \in Holders : IsInjective(Content(h))
  /\ \A h, g \in Holders : h # g => Elems(h) \cap Elems(g) = {}

IsHeld(j) == \E h \in Holders : j \in Elems(h)

LEMMA MoveJob ==
  ASSUME Unique, NEW h \in Holders, NEW k \in Holders, h # k, NEW x, x \in Elems(h),
         IsInjective(Content(h)'), IsInjective(Content(k)'),
         Elems(h)' = Elems(h) \ {x},
         Elems(k)' = Elems(k) \cup {x},
         \A g \in Holders \ {h, k} : Content(g)' = Content(g)
  PROVE  Unique' /\ \A j : IsHeld(j)' <=> IsHeld(j)
<1>1. \A g \in Holders \ {h, k} : Elems(g)' = Elems(g)
  BY DEF Elems
<1>2. Unique'
  BY <1>1 DEF Unique
<1>3. \A j : IsHeld(j)' <=> IsHeld(j)
  BY <1>1 DEF IsHeld
<1> QED  BY <1>2, <1>3

LEMMA AddJob ==
  ASSUME Unique, NEW h \in Holders, NEW x, ~IsHeld(x),
         IsInjective(Content(h)'),
         Elems(h)' = Elems(h) \cup {x},
         \A g \in Holders \ {h} : Content(g)' = Content(g)
  PROVE  Unique' /\ \A j : IsHeld(j)' <=> (IsHeld(j) \/ j = x)
<1>1. \A g \in Holders \ {h} : Elems(g)' = Elems(g)
  BY DEF Elems
<1>2. Unique'
  BY <1>1 DEF Unique, IsHeld
<1>3. \A j : IsHeld(j)' <=> (IsHeld(j) \/ j = x)
  BY <1>1 DEF IsHeld
<1> QED  BY <1>2, <1>3

LEMMA DropJob ==
  ASSUME Unique, NEW h \in Holders, NEW x, x \in Elems(h),
         IsInjective(Content(h)'),
         Elems(h)' = Elems(h) \ {x},
         \A g \in Holders \ {h} : Content(g)' = Content(g)
  PROVE  Unique' /\ \A j : IsHeld(j)' <=> (IsHeld(j) /\ j # x)
<1>1. \A g \in Holders \ {h} : Elems(g)' = Elems(g)
  BY DEF Elems
<1>2. Unique'
  BY <1>1 DEF Unique
<1>3. \A j : IsHeld(j)' <=> (IsHeld(j) /\ j # x)
  <2> TAKE j
  <2>1. CASE j = x
    <3>1. \A g \in Holders \ {h} : x \notin Elems(g)
      BY DEF Unique
    <3> QED  BY <1>1, <2>1, <3>1 DEF IsHeld
  <2>2. CASE j # x
    BY <1>1, <2>2 DEF IsHeld
  <2> QED  BY <2>1, <2>2
<1> QED  BY <1>2, <1>3

-----------------------------------------------------------------------------
(* The holders: the global queue, the local queues, the call stacks.       *)
GlobalHolder   == <<"global", None>>
LocalHolder(w) == <<"local", w>>
StackHolder(t) == <<"stack", t>>
QueueHolders   == {GlobalHolder} \cup ({"local"} \X Workers)

LEMMA HolderFacts ==
  /\ \A h \in Holders : \/ h = GlobalHolder
                        \/ \E w \in Workers : h = LocalHolder(w)
                        \/ \E t \in Threads : h = StackHolder(t)
  /\ \A h \in QueueHolders : h = GlobalHolder \/ \E w \in Workers : h = LocalHolder(w)
  /\ GlobalHolder \in QueueHolders
  /\ \A w \in Workers : LocalHolder(w) \in QueueHolders
  /\ \A t \in Threads : StackHolder(t) \in Holders /\ StackHolder(t) \notin QueueHolders
  /\ QueueHolders \subseteq Holders
  /\ \A w, v : LocalHolder(w) = LocalHolder(v) => w = v
  /\ \A t, u : StackHolder(t) = StackHolder(u) => t = u
  /\ \A w : LocalHolder(w) # GlobalHolder
  BY DEF Holders, QueueHolders, GlobalHolder, LocalHolder, StackHolder

LEMMA ContentFacts ==
  /\ Content(GlobalHolder) = jobQueue
  /\ \A w : Content(LocalHolder(w)) = localQueues[w]
  /\ \A t : Content(StackHolder(t)) = stack[t]
  /\ Content(GlobalHolder)' = jobQueue'
  /\ \A w : Content(LocalHolder(w))' = localQueues'[w]
  /\ \A t : Content(StackHolder(t))' = stack'[t]
  BY DEF Content, GlobalHolder, LocalHolder, StackHolder

LEMMA ContentTyped ==
  ASSUME Typed
  PROVE  \A h \in Holders : Content(h) \in Seq(Jobs) /\ Elems(h) \subseteq Jobs
<1>1. \A h \in Holders : Content(h) \in Seq(Jobs)
  BY HolderFacts, ContentFacts DEF Typed, TypeOK
<1>2. \A s \in Seq(Jobs) : ToSet(s) \subseteq Jobs
  BY DEF ToSet
<1> QED  BY <1>1, <1>2 DEF Elems

Pending == {j \in Jobs : IsHeld(j)}

(* A job that has been submitted and is not done is held, a job that is    *)
(* held has been submitted, and no queue holds a job that is done.         *)
Conserved ==
  /\ Unique
  /\ \A j \in Jobs : IsHeld(j) => j \in submitted
  /\ \A j \in submitted \ done : IsHeld(j)
  /\ done \subseteq submitted
  /\ \A h \in QueueHolders : Elems(h) \cap done = {}
  /\ IsFiniteSet(Pending)
  /\ pendingJobs = Cardinality(Pending)

LEMMA ConservedInit == Init => Conserved
<1> SUFFICES ASSUME Init PROVE Conserved
  OBVIOUS
<1>1. \A h \in Holders : Content(h) = <<>>
  BY HolderFacts, ContentFacts DEF Init
<1>2. \A h \in Holders : IsInjective(Content(h)) /\ Elems(h) = {}
  BY <1>1 DEF IsInjective, Elems, ToSet
<1>3. Unique /\ \A j : ~IsHeld(j)
  BY <1>2 DEF Unique, IsHeld
<1>4. Pending = {}
  BY <1>3 DEF Pending
<1>5. IsFiniteSet(Pending) /\ pendingJobs = Cardinality(Pending)
  BY <1>4, FS_EmptySet DEF Init
<1> QED  BY <1>2, <1>3, <1>5, HolderFacts DEF Conserved, Init

(* A step that touches no queue, no stack and no job.                      *)
LEMMA ConservedIdle ==
  ASSUME Conserved, UNCHANGED <<queueVars, stack, jobVars>>
  PROVE  Conserved'
<1>1. \A h : Content(h)' = Content(h)
  BY DEF Content, queueVars
<1>2. \A h : Elems(h)' = Elems(h)
  BY <1>1 DEF Elems
<1>3. Unique' /\ \A j : IsHeld(j)' <=> IsHeld(j)
  BY <1>1, <1>2 DEF Conserved, Unique, IsHeld
<1>4. Pending' = Pending
  BY <1>3 DEF Pending
<1> QED  BY <1>2, <1>3, <1>4 DEF Conserved, jobVars

(* Thread t takes job x out of the queue h.                                *)
Takes(t, h, x) ==
  /\ x \in Elems(h)
  /\ StartJob(t, x)
  /\ IsInjective(Content(h)') /\ Elems(h)' = Elems(h) \ {x}
  /\ \A g \in QueueHolders \ {h} : Content(g)' = Content(g)

LEMMA TakeJob ==
  ASSUME Typed, Conserved, NEW t \in Threads, NEW h \in QueueHolders, NEW x, Takes(t, h, x),
         UNCHANGED jobVars
  PROVE  Conserved'
<1> USE DEF Takes
<1> DEFINE k == StackHolder(t)
<1>1. h \in Holders /\ k \in Holders /\ h # k
  BY HolderFacts
<1>2. x \in Jobs /\ x \notin Elems(k) /\ IsInjective(Content(k))
  BY <1>1, ContentTyped DEF Conserved, Unique
<1>3. stack[t] \in Seq(Jobs) /\ Content(k) = stack[t] /\ Content(k)' = stack'[t]
  BY ContentFacts, FrameTyped
<1>4. /\ stack'[t] = <<x>> \o stack[t]
      /\ \A u \in Threads \ {t} : stack'[u] = stack[u]
  BY DEF StartJob, Typed, TypeOK
<1>5. IsInjective(Content(k)') /\ Elems(k)' = Elems(k) \cup {x}
  BY <1>2, <1>3, <1>4, ConsElems DEF Elems
<1>6. ASSUME NEW g \in Holders \ {h, k} PROVE Content(g)' = Content(g)
  <2>1. g \in QueueHolders \/ \E u \in Threads \ {t} : g = StackHolder(u)
    BY <1>6, HolderFacts
  <2> QED  BY <1>4, <1>6, <2>1, ContentFacts
<1> HIDE DEF k
<1>7. Unique' /\ \A j : IsHeld(j)' <=> IsHeld(j)
  BY <1>1, <1>5, <1>6, MoveJob DEF Conserved
<1>8. Pending' = Pending
  BY <1>7 DEF Pending
<1>9. \A g \in QueueHolders : Elems(g)' \cap done = {}
  BY DEF Elems, Conserved
<1> QED  BY <1>7, <1>8, <1>9 DEF Conserved, jobVars

(* A thread that looks in a queue takes a job, or finds none.              *)
Pops(t) == TryPopGlobal(t) \/ TrySteal(t) \/ (t \in Workers /\ TryPopLocal(t))

LEMMA PopTakes ==
  ASSUME Typed, Conserved, NEW t \in Threads, Pops(t)
  PROVE  UNCHANGED <<queueVars, stack>> \/ \E h \in QueueHolders : \E x : Takes(t, h, x)
<1> USE PoolAssumption
<1>1. ASSUME TryPopGlobal(t), jobQueue # <<>>
      PROVE  Takes(t, GlobalHolder, Head(jobQueue))
  <2>1. /\ StartJob(t, Head(jobQueue))
        /\ jobQueue' = Tail(jobQueue)
        /\ UNCHANGED localQueues
    BY <1>1 DEF TryPopGlobal
  <2>2. jobQueue \in Seq(Jobs) /\ IsInjective(jobQueue)
    BY HolderFacts, ContentFacts DEF Typed, TypeOK, Conserved, Unique
  <2>3. /\ IsInjective(Content(GlobalHolder)')
        /\ Head(jobQueue) \in Elems(GlobalHolder)
        /\ Elems(GlobalHolder)' = Elems(GlobalHolder) \ {Head(jobQueue)}
    BY <1>1, <2>1, <2>2, TailElems, ContentFacts DEF Elems
  <2>4. ASSUME NEW g \in QueueHolders \ {GlobalHolder} PROVE Content(g)' = Content(g)
    BY <2>1, <2>4, HolderFacts, ContentFacts
  <2> QED  BY <2>1, <2>3, <2>4 DEF Takes
<1>2. ASSUME NEW v \in Workers, localQueues[v] # <<>>,
             StartJob(t, Head(localQueues[v])),
             localQueues' = [localQueues EXCEPT ![v] = Tail(@)],
             UNCHANGED jobQueue
      PROVE  Takes(t, LocalHolder(v), Head(localQueues[v]))
  <2>1. localQueues[v] \in Seq(Jobs) /\ IsInjective(localQueues[v])
    BY HolderFacts, ContentFacts DEF Typed, TypeOK, Conserved, Unique
  <2>2. /\ localQueues'[v] = Tail(localQueues[v])
        /\ \A w \in Workers \ {v} : localQueues'[w] = localQueues[w]
    BY <1>2 DEF Typed, TypeOK
  <2>3. /\ IsInjective(Content(LocalHolder(v))')
        /\ Head(localQueues[v]) \in Elems(LocalHolder(v))
        /\ Elems(LocalHolder(v))' = Elems(LocalHolder(v)) \ {Head(localQueues[v])}
    <3>1. /\ IsInjective(Tail(localQueues[v]))
          /\ ToSet(Tail(localQueues[v])) = ToSet(localQueues[v]) \ {Head(localQueues[v])}
          /\ Head(localQueues[v]) \in ToSet(localQueues[v])
      BY <1>2, <2>1, TailElems
    <3> QED  BY <2>2, <3>1, ContentFacts DEF Elems
  <2>4. ASSUME NEW g \in QueueHolders \ {LocalHolder(v)} PROVE Content(g)' = Content(g)
    BY <1>2, <2>2, <2>4, HolderFacts, ContentFacts
  <2> QED  BY <1>2, <2>3, <2>4 DEF Takes
<1>3. ASSUME t \in Workers, TryPopLocal(t), localQueues[t] # <<>>
      PROVE  Takes(t, LocalHolder(t), Last(localQueues[t]))
  <2>1. /\ StartJob(t, Last(localQueues[t]))
        /\ localQueues' = [localQueues EXCEPT ![t] = Front(@)]
        /\ UNCHANGED jobQueue
    BY <1>3 DEF TryPopLocal
  <2>2. localQueues[t] \in Seq(Jobs) /\ IsInjective(localQueues[t])
    BY <1>3, HolderFacts, ContentFacts DEF Typed, TypeOK, Conserved, Unique
  <2>3. /\ localQueues'[t] = Front(localQueues[t])
        /\ \A u \in Workers \ {t} : localQueues'[u] = localQueues[u]
    BY <1>3, <2>1 DEF Typed, TypeOK
  <2>4. /\ IsInjective(Content(LocalHolder(t))')
        /\ Last(localQueues[t]) \in Elems(LocalHolder(t))
        /\ Elems(LocalHolder(t))' = Elems(LocalHolder(t)) \ {Last(localQueues[t])}
    BY <1>3, <2>2, <2>3, FrontElems, ContentFacts DEF Elems
  <2>5. ASSUME NEW g \in QueueHolders \ {LocalHolder(t)} PROVE Content(g)' = Content(g)
    BY <2>1, <2>3, <2>5, HolderFacts, ContentFacts
  <2> QED  BY <2>1, <2>4, <2>5 DEF Takes
<1>4. CASE TryPopGlobal(t)
  <2>1. CASE jobQueue # <<>>
    BY <1>1, <1>4, <2>1, HolderFacts
  <2>2. CASE jobQueue = <<>>
    BY <1>4, <2>2 DEF TryPopGlobal, queueVars
  <2> QED  BY <2>1, <2>2
<1>5. CASE TrySteal(t)
  <2>1. CASE scan[t] < ThreadCount /\ localQueues[Victim(t)] # <<>>
    <3>1. PICK v \in Workers : v = Victim(t)
      BY <1>5, <2>1, VictimTyped DEF TrySteal
    <3>2. scan[t] \in Int /\ ThreadCount \in Int
      BY DEF Typed, TypeOK
    <3>3. /\ StartJob(t, Head(localQueues[v]))
          /\ localQueues' = [localQueues EXCEPT ![v] = Tail(@)]
          /\ UNCHANGED jobQueue
      BY <1>5, <2>1, <3>1, <3>2 DEF TrySteal
    <3> QED  BY <1>2, <2>1, <3>1, <3>3, HolderFacts
  <2>2. CASE ~(scan[t] < ThreadCount /\ localQueues[Victim(t)] # <<>>)
    BY <1>5, <2>2 DEF TrySteal, queueVars
  <2> QED  BY <2>1, <2>2
<1>6. CASE t \in Workers /\ TryPopLocal(t)
  <2>1. CASE localQueues[t] # <<>>
    BY <1>3, <1>6, <2>1, HolderFacts
  <2>2. CASE localQueues[t] = <<>>
    BY <1>6, <2>2 DEF TryPopLocal, queueVars
  <2> QED  BY <2>1, <2>2
<1> QED  BY <1>4, <1>5, <1>6 DEF Pops

(* Thread t puts job j into the queue h.                                   *)
Puts(h, j) ==
  /\ IsInjective(Content(h)') /\ Elems(h)' = Elems(h) \cup {j}
  /\ \A g \in Holders \ {h} : Content(g)' = Content(g)

LEMMA EnqueuePuts ==
  ASSUME Typed, Conserved, NEW t \in Threads, NEW j \in Jobs, EnqueueWithState(t, j)
  PROVE  \E h \in QueueHolders : Puts(h, j)
<1>1. \E h \in QueueHolders :
        /\ Content(h)' = Append(Content(h), j)
        /\ \A g \in Holders \ {h} : Content(g)' = Content(g)
  <2>1. CASE t \in Workers
    <3>1. /\ jobQueue' = jobQueue /\ stack' = stack
          /\ localQueues'[t] = Append(localQueues[t], j)
          /\ \A w \in Workers \ {t} : localQueues'[w] = localQueues[w]
      BY <2>1 DEF EnqueueWithState, Typed, TypeOK
    <3>2. Content(LocalHolder(t))' = Append(Content(LocalHolder(t)), j)
      BY <3>1, ContentFacts
    <3>3. ASSUME NEW g \in Holders \ {LocalHolder(t)} PROVE Content(g)' = Content(g)
      BY <3>1, <3>3, HolderFacts, ContentFacts
    <3> QED  BY <2>1, <3>2, <3>3, HolderFacts
  <2>2. CASE t \notin Workers
    <3>1. /\ jobQueue' = Append(jobQueue, j)
          /\ localQueues' = localQueues /\ stack' = stack
      BY <2>2 DEF EnqueueWithState
    <3>2. Content(GlobalHolder)' = Append(Content(GlobalHolder), j)
      BY <3>1, ContentFacts
    <3>3. ASSUME NEW g \in Holders \ {GlobalHolder} PROVE Content(g)' = Content(g)
      BY <3>1, <3>3, HolderFacts, ContentFacts
    <3> QED  BY <3>2, <3>3, HolderFacts
  <2> QED  BY <2>1, <2>2
<1>2. PICK h \in QueueHolders :
        /\ Content(h)' = Append(Content(h), j)
        /\ \A g \in Holders \ {h} : Content(g)' = Content(g)
  BY <1>1
<1>3. h \in Holders /\ Content(h) \in Seq(Jobs) /\ ~IsHeld(j)
  BY HolderFacts, ContentTyped DEF EnqueueWithState, Conserved
<1>4. j \notin Elems(h) /\ IsInjective(Content(h))
  BY <1>3 DEF IsHeld, Conserved, Unique
<1>5. IsInjective(Content(h)') /\ Elems(h)' = Elems(h) \cup {j}
  BY <1>2, <1>3, <1>4, AppendElems DEF Elems
<1> QED  BY <1>2, <1>5 DEF Puts

LEMMA ConservedEnqueue ==
  ASSUME Typed, Conserved, NEW t \in Threads, NEW j \in Jobs, EnqueueWithState(t, j)
  PROVE  Conserved'
<1>1. PICK h \in QueueHolders : Puts(h, j)
  BY EnqueuePuts
<1>2. j \notin submitted /\ ~IsHeld(j) /\ h \in Holders
  BY HolderFacts DEF EnqueueWithState, Conserved
<1>3. Unique' /\ \A i : IsHeld(i)' <=> (IsHeld(i) \/ i = j)
  BY <1>1, <1>2, AddJob DEF Puts, Conserved
<1>4. Pending' = Pending \cup {j} /\ j \notin Pending
  BY <1>2, <1>3 DEF Pending
<1>5. /\ submitted' = submitted \cup {j} /\ done' = done
      /\ pendingJobs' = pendingJobs + 1
  BY DEF EnqueueWithState
<1>6. IsFiniteSet(Pending') /\ pendingJobs' = Cardinality(Pending')
  BY <1>4, <1>5, FS_AddElement DEF Conserved
<1>7. ASSUME NEW g \in QueueHolders PROVE Elems(g)' \cap done' = {}
  <2>1. g # h => Elems(g)' = Elems(g)
    BY <1>1, HolderFacts DEF Puts, Elems
  <2>2. j \notin done
    BY <1>2 DEF Conserved
  <2> QED  BY <1>1, <1>5, <2>1, <2>2 DEF Puts, Conserved
<1> QED  BY <1>3, <1>5, <1>6, <1>7 DEF Conserved

LEMMA ConservedComplete ==
  ASSUME Typed, Conserved, NEW t \in Threads, CompleteJobState(t)
  PROVE  Conserved'
<1> DEFINE x == Head(stack[t])
<1>1. stack[t] # <<>> /\ stack[t] \in Seq(Jobs)
  BY FrameTyped DEF CompleteJobState, Typed, ControlOK
<1>2. x \in Elems(StackHolder(t)) /\ x \in Jobs
  BY <1>1, ContentFacts, HolderFacts, TailElems DEF Elems, Conserved, Unique
<1>3. \A h : Content(h)' = Content(h)
  BY DEF Content, CompleteJobState, queueVars
<1>4. \A h : Elems(h)' = Elems(h)
  BY <1>3 DEF Elems
<1>5. Unique' /\ \A j : IsHeld(j)' <=> IsHeld(j)
  BY <1>3, <1>4 DEF Conserved, Unique, IsHeld
<1>6. Pending' = Pending
  BY <1>5 DEF Pending
<1>7. x \in submitted /\ \A h \in QueueHolders : x \notin Elems(h)
  BY <1>2, HolderFacts DEF Conserved, IsHeld, Unique
<1>8. done' = done \cup {x} /\ UNCHANGED <<submitted, pendingJobs>>
  BY DEF CompleteJobState
<1> QED  BY <1>4, <1>5, <1>6, <1>7, <1>8 DEF Conserved

LEMMA ConservedEnd ==
  ASSUME Typed, Conserved, NEW t \in Threads, ExecuteJobEnd(t)
  PROVE  Conserved'
<1> DEFINE x == Head(stack[t])
           h == StackHolder(t)
<1>1. /\ stack[t] # <<>> /\ stack[t] \in Seq(Jobs)
      /\ x \in done
  BY FrameTyped DEF ExecuteJobEnd, Typed, ControlOK
<1>2. h \in Holders /\ h \notin QueueHolders /\ Content(h) = stack[t] /\ IsInjective(Content(h))
  BY ContentFacts, HolderFacts DEF Conserved, Unique
<1>3. /\ stack'[t] = Tail(stack[t])
      /\ \A u \in Threads \ {t} : stack'[u] = stack[u]
      /\ UNCHANGED <<queueVars, submitted, done>>
      /\ pendingJobs' = pendingJobs - 1
  BY DEF ExecuteJobEnd, Typed, TypeOK
<1>4. /\ x \in Elems(h)
      /\ IsInjective(Content(h)')
      /\ Elems(h)' = Elems(h) \ {x}
  BY <1>1, <1>2, <1>3, ContentFacts, TailElems DEF Elems
<1>5. ASSUME NEW g \in Holders \ {h} PROVE Content(g)' = Content(g)
  BY <1>3, <1>5, HolderFacts, ContentFacts DEF queueVars
<1> HIDE DEF h, x
<1>6. Unique' /\ \A j : IsHeld(j)' <=> (IsHeld(j) /\ j # x)
  BY <1>2, <1>4, <1>5, DropJob DEF Conserved
<1>7. x \in Pending /\ Pending' = Pending \ {x}
  BY <1>2, <1>4, <1>6, ContentTyped DEF Pending, IsHeld
<1>8. IsFiniteSet(Pending') /\ pendingJobs' = Cardinality(Pending')
  BY <1>3, <1>7, FS_RemoveElement DEF Conserved
<1>9. \A g \in QueueHolders : Elems(g)' \cap done' = {}
  BY <1>2, <1>3, <1>5, HolderFacts DEF Elems, Conserved
<1> QED  BY <1>1, <1>3, <1>6, <1>8, <1>9 DEF Conserved

LEMMA ConservedNext == Typed /\ Conserved /\ [Next]_vars => Conserved'
<1> SUFFICES ASSUME Typed, Conserved, [Next]_vars PROVE Conserved'
  OBVIOUS
<1> USE PoolAssumption
<1>1. ASSUME NEW t \in Threads, NotifyWorkers(t) PROVE Conserved'
  BY <1>1, ConservedIdle DEF NotifyWorkers
<1>2. ASSUME NEW t \in Threads, Pops(t) PROVE Conserved'
  <2>1. UNCHANGED jobVars
    BY <1>2 DEF Pops, TryPopGlobal, TrySteal, TryPopLocal
  <2> QED  BY <1>2, <2>1, PopTakes, TakeJob, ConservedIdle
<1>3. ASSUME NEW w \in Workers, TryPopLocal(w) PROVE Conserved'
  <2>1. w \in Threads /\ Pops(w)
    BY <1>3 DEF Threads, Pops
  <2> QED  BY <1>2, <2>1
<1>4. ASSUME NEW t \in Threads, CompleteJobState(t) PROVE Conserved'
  BY <1>4, ConservedComplete
<1>5. ASSUME NEW t \in Threads, ExecuteJobEnd(t) PROVE Conserved'
  BY <1>5, ConservedEnd
<1>6. ASSUME NEW t \in Threads, SignalCompletion(t) PROVE Conserved'
  BY <1>6, ConservedIdle DEF SignalCompletion, WakeWaiters
<1>7. ASSUME NEW t \in Threads, HelpCheck(t) PROVE Conserved'
  BY <1>7, ConservedIdle DEF HelpCheck
<1>8. ASSUME NEW t \in Threads, WaitReturn(t) PROVE Conserved'
  BY <1>8, ConservedIdle DEF WaitReturn
<1>9. ASSUME NEW t \in Threads, NEW j \in Jobs, EnqueueWithState(t, j) PROVE Conserved'
  BY <1>9, ConservedEnqueue
<1>10. ASSUME NEW t \in Threads, NEW j \in Jobs, WaitWithHelping(t, j) \/ Wait(t, j)
       PROVE Conserved'
  BY <1>10, ConservedIdle DEF WaitWithHelping, Wait
<1>11. ASSUME NEW t \in Threads, SpuriousWakeup(t) PROVE Conserved'
  BY <1>11, ConservedIdle DEF SpuriousWakeup
<1>12. ASSUME NEW w \in Workers, WorkerCheck(w) \/ WorkerSleep(w) PROVE Conserved'
  BY <1>12, ConservedIdle DEF WorkerCheck, WorkerSleep
<1>14. ASSUME NEW c \in Clients, WaitAll(c) \/ WaitAllSleep(c) PROVE Conserved'
  BY <1>14, ConservedIdle DEF WaitAll, WaitAllSleep
<1>15. ASSUME Destroy \/ NotifyStop \/ Join PROVE Conserved'
  BY <1>15, ConservedIdle DEF Destroy, SetStop, NotifyStop, Join
<1>16. CASE UNCHANGED vars
  BY <1>16, ConservedIdle DEF vars
<1> QED
  BY <1>1, <1>2, <1>3, <1>4, <1>5, <1>6, <1>7, <1>8, <1>9, <1>10, <1>11, <1>12, <1>14,
     <1>15, <1>16
  DEF Next, Progress, Call, WorkerStep, Terminated, Pops

-----------------------------------------------------------------------------
(* From the invariant to the properties.                                   *)

LEMMA QueuedOrStacked ==
  \A j : /\ InQueue(j) <=> \E h \in QueueHolders : j \in Elems(h)
         /\ InQueue(j) \/ OnStack(j) <=> IsHeld(j)
<1>1. /\ Elems(GlobalHolder) = ToSet(jobQueue)
      /\ \A w : Elems(LocalHolder(w)) = ToSet(localQueues[w])
      /\ \A t : Elems(StackHolder(t)) = ToSet(stack[t])
  BY ContentFacts DEF Elems
<1>2. ASSUME NEW j PROVE InQueue(j) <=> \E h \in QueueHolders : j \in Elems(h)
  BY <1>1, HolderFacts DEF InQueue
<1>3. ASSUME NEW j PROVE IsHeld(j) <=> \/ \E h \in QueueHolders : j \in Elems(h)
                                       \/ \E t \in Threads : j \in Elems(StackHolder(t))
  BY HolderFacts DEF IsHeld
<1> QED  BY <1>1, <1>2, <1>3 DEF OnStack

(* A held job has exactly one position.                                    *)
LEMMA OneCopy ==
  ASSUME Unique, NEW j
  PROVE  /\ ~IsHeld(j) => Copies(j) = {}
         /\ IsHeld(j) => Cardinality(Copies(j)) = 1
<1> DEFINE At(h) == {i \in DOMAIN Content(h) : Content(h)[i] = j}
<1>1. \A h : At(h) # {} <=> j \in Elems(h)
  BY DEF Elems, ToSet
<1>2. Copies(j) = UNION {{h} \X At(h) : h \in Holders}
  BY DEF Copies
<1>3. ASSUME ~IsHeld(j) PROVE Copies(j) = {}
  BY <1>1, <1>2, <1>3 DEF IsHeld
<1>4. ASSUME IsHeld(j) PROVE Cardinality(Copies(j)) = 1
  <2>1. PICK h \in Holders : j \in Elems(h)
    BY <1>4 DEF IsHeld
  <2>2. PICK i : i \in At(h)
    BY <1>1, <2>1
  <2>3. At(h) = {i}
    BY <2>2 DEF Unique, IsInjective
  <2>4. \A g \in Holders \ {h} : At(g) = {}
    BY <1>1, <2>1 DEF Unique
  <2>5. Copies(j) = {<<h, i>>}
    BY <1>2, <2>3, <2>4
  <2> QED  BY <2>5, FS_Singleton
<1> QED  BY <1>3, <1>4

LEMMA CountInvariant ==
  /\ Init => Typed /\ Conserved
  /\ Typed /\ Conserved /\ [Next]_vars => (Typed /\ Conserved)'
  BY TypedInit, TypedNext, ConservedInit, ConservedNext

(* No job is lost, duplicated or started again.                            *)
THEOREM JobsAreConserved == Spec => []JobsConserved
<1>1. ASSUME Conserved PROVE JobsConserved
  <2> SUFFICES ASSUME NEW j \in Jobs
               PROVE  /\ j \notin submitted => Copies(j) = {}
                      /\ j \in submitted \ done => Cardinality(Copies(j)) = 1
                      /\ j \in done => /\ j \in submitted
                                       /\ ~InQueue(j)
                                       /\ Cardinality(Copies(j)) <= 1
    BY DEF JobsConserved
  <2>1. Unique
    BY <1>1 DEF Conserved
  <2>2. j \in done => ~InQueue(j)
    BY <1>1, QueuedOrStacked DEF Conserved
  <2>3. Cardinality(Copies(j)) <= 1
    <3>1. CASE IsHeld(j)
      BY <2>1, <3>1, OneCopy
    <3>2. CASE ~IsHeld(j)
      BY <2>1, <3>2, OneCopy, FS_EmptySet
    <3> QED  BY <3>1, <3>2
  <2> QED  BY <1>1, <2>1, <2>2, <2>3, OneCopy DEF Conserved
<1> QED  BY <1>1, CountInvariant, PTL DEF Spec

(* The counter WaitAll reads is the number of jobs queued or executing.    *)
THEOREM PendingIsExact == Spec => []PendingCountsUnfinished
<1>1. Pending = Unfinished
  BY QueuedOrStacked DEF Pending, Unfinished
<1>2. Conserved => PendingCountsUnfinished
  BY <1>1 DEF Conserved, PendingCountsUnfinished
<1> QED  BY <1>2, CountInvariant, PTL DEF Spec

-----------------------------------------------------------------------------
(* Completion.  A client that has decided to block holds the completion    *)
(* mutex, and the job that brings the counter to zero signals under it.    *)
DecidedOK == \A c \in Clients : pc[c] = "decided" => completionMutex = c

SignalInv == Typed /\ Conserved /\ DecidedOK /\ NoLostCompletionSignal

(* A step that completes nothing, sends nobody to wait and owes no signal. *)
LEMMA QuietSignal ==
  ASSUME SignalInv, UNCHANGED <<pendingJobs, completionMutex>>,
         NEW t \in Threads, NEW to, Moves(t, to),
         pc[t] # "signal", to \notin {"decided", "waiting"}
  PROVE  DecidedOK' /\ NoLostCompletionSignal'
<1>1. \A x \in Threads : pc'[x] \in {"decided", "waiting"} => pc'[x] = pc[x]
  BY DEF Moves
<1>2. \A x \in Threads : pc[x] = "signal" => pc'[x] = "signal"
  BY DEF Moves
<1> QED  BY <1>1, <1>2 DEF SignalInv, DecidedOK, NoLostCompletionSignal, Threads

LEMMA QuietSignalGoto ==
  ASSUME SignalInv, UNCHANGED <<pendingJobs, completionMutex>>,
         NEW t \in Threads, NEW to \in AllPc, Goto(t, to),
         pc[t] # "signal", to \notin {"decided", "waiting"}
  PROVE  DecidedOK' /\ NoLostCompletionSignal'
  BY QuietSignal, GotoMoves DEF SignalInv

LEMMA SignalInit == Init => DecidedOK /\ NoLostCompletionSignal
  BY PoolAssumption DEF Init, DecidedOK, NoLostCompletionSignal, Threads

LEMMA SignalNext == SignalInv /\ [Next]_vars => DecidedOK' /\ NoLostCompletionSignal'
<1> SUFFICES ASSUME SignalInv, [Next]_vars PROVE DecidedOK' /\ NoLostCompletionSignal'
  OBVIOUS
<1> USE PoolAssumption
<1>a. Typed
  BY DEF SignalInv
<1>b. AllPc = {"loop", "park", "asleep", "local", "exited",
               "idle", "decided", "waiting", "recheck", "stopping", "joining", "gone",
               "global", "steal", "body", "cont", "notify", "signal", "help", "wait"}
  BY DEF AllPc, WorkerPc, ClientPc, SharedPc
<1>c. \A t : ResumePc(t) \in {"idle", "body", "cont"}
  BY DEF ResumePc
<1>d. \A t, frames : CallerPc(t, frames) \in {"loop", "help"}
  BY DEF CallerPc
<1>e. Workers \subseteq Threads /\ Clients \subseteq Threads /\ None \notin Clients
  BY DEF Threads, Frames
<1>1. ASSUME NEW t \in Threads, NotifyWorkers(t) PROVE DecidedOK' /\ NoLostCompletionSignal'
  BY <1>1, <1>a, <1>b, <1>c, QuietSignal, WakeWorkersMoves DEF NotifyWorkers, mutexVars, jobVars
<1>2. ASSUME NEW t \in Threads, TryPopGlobal(t) PROVE DecidedOK' /\ NoLostCompletionSignal'
  <2>1. PICK to \in {"body", "steal"} : Goto(t, to)
    BY <1>2 DEF TryPopGlobal, StartJob
  <2> QED  BY <1>2, <1>b, <2>1, QuietSignalGoto DEF TryPopGlobal, mutexVars, jobVars
<1>3. ASSUME NEW t \in Threads, TrySteal(t) PROVE DecidedOK' /\ NoLostCompletionSignal'
  <2>1. CASE UNCHANGED pc
    <3>1. Moves(t, "steal")
      BY <1>3, <1>a, <2>1 DEF TrySteal, Moves, Typed, TypeOK, PcOK, AllPc
    <3> QED  BY <1>3, <3>1, QuietSignal DEF TrySteal, mutexVars, jobVars
  <2>2. CASE ~UNCHANGED pc
    <3>1. PICK to \in {"body", "loop", "help"} : Goto(t, to)
      BY <1>3, <1>d, <2>2 DEF TrySteal, StartJob
    <3> QED  BY <1>3, <1>b, <3>1, QuietSignalGoto DEF TrySteal, mutexVars, jobVars
  <2> QED  BY <2>1, <2>2
<1>4. ASSUME NEW t \in Threads, CompleteJobState(t) PROVE DecidedOK' /\ NoLostCompletionSignal'
  BY <1>4, <1>b, QuietSignalGoto DEF CompleteJobState, mutexVars
<1>5. ASSUME NEW t \in Threads, ExecuteJobEnd(t) PROVE DecidedOK' /\ NoLostCompletionSignal'
  <2>1. PICK to \in {"signal", "loop", "help"} :
          /\ pc'[t] = to
          /\ \A x \in Threads \ {t} : pc'[x] = pc[x]
          /\ pendingJobs' = 0 => to = "signal"
    BY <1>5, <1>a, <1>d DEF ExecuteJobEnd, Goto, Typed, TypeOK, PcOK
  <2>2. DecidedOK'
    BY <1>5, <1>e, <2>1 DEF SignalInv, DecidedOK, ExecuteJobEnd, mutexVars
  <2> QED  BY <2>1, <2>2 DEF NoLostCompletionSignal
<1>6. ASSUME NEW t \in Threads, SignalCompletion(t) PROVE DecidedOK' /\ NoLostCompletionSignal'
  <2>1. \A c \in Clients : pc[c] # "decided"
    BY <1>6, <1>e DEF SignalInv, DecidedOK, SignalCompletion
  <2>2. \A c \in Clients : pc'[c] \notin {"decided", "waiting"}
    BY <1>6, <1>d, <1>e, <2>1 DEF SignalCompletion, WakeWaiters
  <2> QED  BY <2>2 DEF DecidedOK, NoLostCompletionSignal
<1>7. ASSUME NEW t \in Threads, HelpCheck(t) PROVE DecidedOK' /\ NoLostCompletionSignal'
  <2>1. PICK to \in {"idle", "body", "cont", "global"} : Goto(t, to)
    BY <1>7, <1>c DEF HelpCheck
  <2> QED  BY <1>7, <1>b, <2>1, QuietSignalGoto DEF HelpCheck, mutexVars, jobVars
<1>8. ASSUME NEW t \in Threads, WaitReturn(t) PROVE DecidedOK' /\ NoLostCompletionSignal'
  BY <1>8, <1>b, <1>c, QuietSignalGoto DEF WaitReturn, mutexVars, jobVars
<1>9. ASSUME NEW t \in Threads, NEW j \in Jobs, EnqueueWithState(t, j)
      PROVE DecidedOK' /\ NoLostCompletionSignal'
  <2>1. pendingJobs' # 0
    <3>1. pendingJobs \in Nat
      BY FS_CardinalityType DEF SignalInv, Conserved
    <3> QED  BY <1>9, <3>1 DEF EnqueueWithState
  <2>2. pc'[t] = "notify" /\ \A x \in Threads \ {t} : pc'[x] = pc[x]
    BY <1>9, <1>a DEF EnqueueWithState, Goto, Typed, TypeOK, PcOK
  <2>3. DecidedOK'
    BY <1>9, <1>e, <2>2 DEF SignalInv, DecidedOK, EnqueueWithState, mutexVars
  <2> QED  BY <2>1, <2>3 DEF NoLostCompletionSignal
<1>10. ASSUME NEW t \in Threads, NEW j \in Jobs, WaitWithHelping(t, j) \/ Wait(t, j)
       PROVE DecidedOK' /\ NoLostCompletionSignal'
  <2>1. PICK to \in {"help", "wait"} : Goto(t, to)
    BY <1>10 DEF WaitWithHelping, Wait
  <2> QED
    BY <1>10, <1>b, <2>1, QuietSignalGoto DEF WaitWithHelping, Wait, InBody, mutexVars, jobVars
<1>11. ASSUME NEW t \in Threads, SpuriousWakeup(t) PROVE DecidedOK' /\ NoLostCompletionSignal'
  <2>1. PICK to \in {"loop", "recheck"} : Goto(t, to)
    BY <1>11 DEF SpuriousWakeup
  <2> QED
    BY <1>11, <1>b, <2>1, QuietSignalGoto DEF SpuriousWakeup, mutexVars, jobVars
<1>12. ASSUME NEW w \in Workers, WorkerCheck(w) \/ WorkerSleep(w) \/ TryPopLocal(w)
       PROVE DecidedOK' /\ NoLostCompletionSignal'
  <2>1. PICK to \in {"local", "exited", "park", "asleep", "body", "global"} : Goto(w, to)
    BY <1>12 DEF WorkerCheck, WorkerSleep, TryPopLocal, StartJob
  <2> QED
    BY <1>12, <1>b, <1>e, <2>1, QuietSignalGoto
    DEF WorkerCheck, WorkerSleep, TryPopLocal, mutexVars, jobVars
<1>13. ASSUME NEW c \in Clients, WaitAll(c) PROVE DecidedOK' /\ NoLostCompletionSignal'
  <2>1. CASE pendingJobs = 0
    <3>1. Goto(c, "idle") /\ UNCHANGED <<pendingJobs, completionMutex>> /\ pc[c] # "signal"
      BY <1>13, <2>1 DEF WaitAll, jobVars
    <3> QED  BY <1>b, <1>e, <3>1, QuietSignalGoto
  <2>2. CASE pendingJobs # 0
    <3>1. /\ completionMutex = None /\ completionMutex' = c /\ pendingJobs' # 0
          /\ \A x \in Threads \ {c} : pc'[x] = pc[x]
      BY <1>13, <1>a, <1>e, <2>2 DEF WaitAll, jobVars, Goto, Typed, TypeOK, PcOK
    <3> QED
      BY <1>e, <3>1 DEF SignalInv, DecidedOK, NoLostCompletionSignal
  <2> QED  BY <2>1, <2>2
<1>14. ASSUME NEW c \in Clients, WaitAllSleep(c) PROVE DecidedOK' /\ NoLostCompletionSignal'
  <2>1. /\ pc[c] = "decided" /\ pc'[c] = "waiting" /\ pendingJobs' = pendingJobs
        /\ \A x \in Threads \ {c} : pc'[x] = pc[x]
    BY <1>14, <1>a, <1>e DEF WaitAllSleep, jobVars, Goto, Typed, TypeOK, PcOK
  <2>2. DecidedOK'
    BY <1>e, <2>1 DEF SignalInv, DecidedOK
  <2>3. NoLostCompletionSignal'
    BY <1>e, <2>1 DEF SignalInv, NoLostCompletionSignal
  <2> QED  BY <2>2, <2>3
<1>15. ASSUME Destroy \/ NotifyStop \/ Join PROVE DecidedOK' /\ NoLostCompletionSignal'
  <2>1. Owner \in Threads
    BY <1>e
  <2>2. CASE NotifyStop
    BY <1>a, <1>b, <2>1, <2>2, QuietSignal, WakeWorkersMoves DEF NotifyStop, mutexVars, jobVars
  <2>3. CASE Destroy \/ Join
    <3>1. PICK to \in {"stopping", "gone"} : Goto(Owner, to)
      BY <2>3 DEF Destroy, SetStop, Join
    <3> QED
      BY <1>b, <2>1, <2>3, <3>1, QuietSignalGoto DEF Destroy, SetStop, Join, mutexVars, jobVars
  <2> QED  BY <1>15, <2>2, <2>3
<1>16. CASE UNCHANGED vars
  BY <1>16 DEF vars, mutexVars, jobVars, SignalInv, DecidedOK, NoLostCompletionSignal
<1> QED
  BY <1>1, <1>2, <1>3, <1>4, <1>5, <1>6, <1>7, <1>8, <1>9, <1>10, <1>11, <1>12, <1>13,
     <1>14, <1>15, <1>16
  DEF Next, Progress, Call, WorkerStep, Terminated

(* No WaitAll sleeps through the completion of the last job.               *)
THEOREM CompletionsNotLost == Spec => []NoLostCompletionSignal
<1>1. Init => SignalInv
  BY CountInvariant, SignalInit DEF SignalInv
<1>2. SignalInv /\ [Next]_vars => SignalInv'
  BY CountInvariant, SignalNext DEF SignalInv
<1>3. SignalInv => NoLostCompletionSignal
  BY DEF SignalInv
<1> QED  BY <1>1, <1>2, <1>3, PTL DEF Spec

-----------------------------------------------------------------------------
(***************************************************************************)
(* ThreadPool implements JobPool.                                          *)
(*                                                                         *)
(* Two facts are needed beyond those above: a frame that is not blocked on *)
(* a handle has no target, and nothing enters the pool after _stop, so that*)
(* a worker that has exited leaves no job.                                 *)
(***************************************************************************)

(* The frame a thread executes in is not in WaitWithHelping or Wait.       *)
CalmPc == {"body", "cont", "notify", "idle", "decided", "waiting", "recheck"}

CalmOK ==
  /\ \A t \in Threads : pc[t] \in CalmPc => target[Frame(t)] = None
  /\ \A j \in Jobs : ~OnStack(j) => target[j] = None

(* Nobody is in a call while the pool is destroyed.                        *)
EndPc == {"stopping", "joining", "gone"}

StopOK ==
  /\ stop => \A c \in Clients : pc[c] \in ClientPc
  /\ pc[Owner] \in EndPc => stop
  /\ \A w \in Workers : pc[w] = "exited" => stop /\ \A h \in QueueHolders : Elems(h) = {}

Inv == Typed /\ Conserved /\ CalmOK /\ StopOK

-----------------------------------------------------------------------------
(* Where a job is, before and after a step.                                *)

LEMMA StackedElems ==
  /\ \A j : OnStack(j) <=> \E t \in Threads : j \in Elems(StackHolder(t))
  /\ \A j : OnStack(j)' <=> \E t \in Threads : j \in Elems(StackHolder(t))'
<1>1. /\ \A t : Elems(StackHolder(t)) = ToSet(stack[t])
      /\ \A t : Elems(StackHolder(t))' = ToSet(stack'[t])
  BY ContentFacts DEF Elems
<1> QED  BY <1>1 DEF OnStack

LEMMA QueuedElems ==
  /\ \A j : InQueue(j) <=> \E h \in QueueHolders : j \in Elems(h)
  /\ \A j : InQueue(j)' <=> \E h \in QueueHolders : j \in Elems(h)'
<1>1. /\ Elems(GlobalHolder) = ToSet(jobQueue)
      /\ Elems(GlobalHolder)' = ToSet(jobQueue')
      /\ \A w : Elems(LocalHolder(w)) = ToSet(localQueues[w])
      /\ \A w : Elems(LocalHolder(w))' = ToSet(localQueues'[w])
  BY ContentFacts DEF Elems
<1> QED  BY <1>1, HolderFacts DEF InQueue

(* The head of a call stack is there, once, and in no queue.               *)
LEMMA HeadPlace ==
  ASSUME Typed, Conserved, NEW t \in Threads, stack[t] # <<>>
  PROVE  /\ Head(stack[t]) \in Jobs /\ Head(stack[t]) \in submitted
         /\ ~InQueue(Head(stack[t]))
         /\ Head(stack[t]) \in Elems(StackHolder(t))
         /\ \A u \in Threads \ {t} : Head(stack[t]) \notin Elems(StackHolder(u))
<1>1. stack[t] \in Seq(Jobs) /\ IsInjective(stack[t])
  BY FrameTyped, HolderFacts, ContentFacts DEF Conserved, Unique
<1>2. Head(stack[t]) \in Jobs /\ Head(stack[t]) \in Elems(StackHolder(t))
  BY <1>1, FrameTyped, TailElems, ContentFacts DEF Elems
<1>3. ASSUME NEW h \in Holders, h # StackHolder(t) PROVE Head(stack[t]) \notin Elems(h)
  BY <1>2, <1>3, HolderFacts DEF Conserved, Unique
<1>4. ~InQueue(Head(stack[t])) /\ \A u \in Threads \ {t} : Head(stack[t]) \notin Elems(StackHolder(u))
  BY <1>3, QueuedElems, HolderFacts
<1> QED  BY <1>2, <1>4, HolderFacts DEF Conserved, IsHeld

(* Two threads execute in different frames.                                *)
LEMMA FramesDiffer ==
  ASSUME Typed, Conserved, NEW t \in Threads, NEW u \in Threads \ {t}
  PROVE  Frame(u) # Frame(t)
<1>1. CASE stack[t] = <<>>
  BY <1>1, FrameTyped, PoolAssumption DEF Frame
<1>2. CASE stack[t] # <<>> /\ stack[u] = <<>>
  BY <1>2, FrameTyped, PoolAssumption DEF Frame
<1>3. CASE stack[t] # <<>> /\ stack[u] # <<>>
  BY <1>3, HeadPlace DEF Frame
<1> QED  BY <1>1, <1>2, <1>3

LEMMA SameHolders ==
  ASSUME UNCHANGED <<queueVars, stack>>
  PROVE  /\ \A h : Elems(h)' = Elems(h)
         /\ \A j : InQueue(j)' <=> InQueue(j)
         /\ \A j : OnStack(j)' <=> OnStack(j)
         /\ \A t : Frame(t)' = Frame(t)
<1>1. \A h : Elems(h)' = Elems(h)
  BY DEF Elems, Content, queueVars
<1>2. \A t : Frame(t)' = Frame(t)
  BY DEF Frame
<1> QED  BY <1>1, <1>2, QueuedElems, StackedElems

(* What taking a job out of a queue changes.                               *)
LEMMA TakeEffect ==
  ASSUME Typed, Conserved, NEW t \in Threads, NEW h \in QueueHolders, NEW x, Takes(t, h, x)
  PROVE  /\ x \in Jobs /\ x \in submitted /\ x \notin done
         /\ InQueue(x) /\ ~OnStack(x) /\ ~InQueue(x)' /\ OnStack(x)'
         /\ \A j : j # x => (InQueue(j)' <=> InQueue(j)) /\ (OnStack(j)' <=> OnStack(j))
         /\ \A g \in QueueHolders : Elems(g)' \subseteq Elems(g)
         /\ Frame(t)' = x /\ \A u \in Threads \ {t} : Frame(u)' = Frame(u)
         /\ pc'[t] = "body" /\ \A u \in Threads \ {t} : pc'[u] = pc[u]
<1> USE DEF Takes
<1>1. h \in Holders /\ x \in Jobs /\ x \in submitted /\ x \notin done
  BY HolderFacts, ContentTyped DEF Conserved, IsHeld
<1>2. \A g \in Holders \ {h} : x \notin Elems(g)
  BY <1>1 DEF Conserved, Unique
<1>3. /\ stack'[t] = <<x>> \o stack[t] /\ stack[t] \in Seq(Jobs)
      /\ \A u \in Threads \ {t} : stack'[u] = stack[u]
      /\ pc'[t] = "body" /\ \A u \in Threads \ {t} : pc'[u] = pc[u]
  BY FrameTyped DEF StartJob, Goto, Typed, TypeOK, PcOK
<1>4. x \notin ToSet(stack[t]) /\ IsInjective(stack[t])
  BY <1>2, HolderFacts, ContentFacts DEF Elems, Conserved, Unique
<1>5. ToSet(stack'[t]) = ToSet(stack[t]) \cup {x} /\ stack'[t] # <<>> /\ Head(stack'[t]) = x
  BY <1>1, <1>3, <1>4, ConsElems, PushFront
<1>6. /\ Elems(StackHolder(t))' = Elems(StackHolder(t)) \cup {x}
      /\ \A u \in Threads \ {t} : Elems(StackHolder(u))' = Elems(StackHolder(u))
  BY <1>3, <1>5, ContentFacts DEF Elems
<1>7. Elems(h)' = Elems(h) \ {x} /\ \A g \in QueueHolders \ {h} : Elems(g)' = Elems(g)
  BY DEF Elems
<1>8. InQueue(x) /\ ~InQueue(x)'
  BY <1>2, <1>7, HolderFacts, QueuedElems
<1>9. ~OnStack(x) /\ OnStack(x)'
  BY <1>2, <1>6, HolderFacts, StackedElems
<1>10. ASSUME NEW j, j # x PROVE (InQueue(j)' <=> InQueue(j)) /\ (OnStack(j)' <=> OnStack(j))
  <2>1. \A g \in QueueHolders : j \in Elems(g)' <=> j \in Elems(g)
    BY <1>7, <1>10
  <2>2. \A u \in Threads : j \in Elems(StackHolder(u))' <=> j \in Elems(StackHolder(u))
    BY <1>6, <1>10
  <2> QED  BY <2>1, <2>2, QueuedElems, StackedElems
<1>11. Frame(t)' = x /\ \A u \in Threads \ {t} : Frame(u)' = Frame(u)
  BY <1>3, <1>5 DEF Frame
<1> QED  BY <1>1, <1>3, <1>7, <1>8, <1>9, <1>10, <1>11

-----------------------------------------------------------------------------
(* The variables of JobPool, as Abstract maps them.                        *)
Blocked == {"decided", "waiting", "recheck"}

Status == [j \in Jobs |-> JobStatus(j)]
Phase == IF ~stop THEN "open" ELSE IF pc[Owner] = "gone" THEN "closed" ELSE "stopping"
Waiters == {c \in Clients : pc[c] \in {"decided", "waiting", "recheck"}}

LEMMA StatusStays ==
  ASSUME \A j \in Jobs : InQueue(j)' <=> InQueue(j),
         \A j \in Jobs : OnStack(j)' <=> OnStack(j),
         UNCHANGED <<submitted, done>>
  PROVE  Status' = Status
BY DEF Status, JobStatus

(* A step that moves one job on.                                           *)
LEMMA StatusMoves ==
  ASSUME NEW x \in Jobs, NEW from, NEW to, JobStatus(x) = from, JobStatus(x)' = to,
         \A j \in Jobs \ {x} : JobStatus(j)' = JobStatus(j),
         Phase' = Phase, Waiters' = Waiters, target' = target
  PROVE  Abstract!Advance(x, from, to)
<1>1. Status[x] = from /\ Status' = [Status EXCEPT ![x] = to]
  BY DEF Status
<1> QED  BY <1>1 DEF Abstract!Advance, Status, Phase, Waiters

(* Thread t goes to "to", and nobody enters or leaves a WaitAll.           *)
LEMMA PhaseStays ==
  ASSUME Typed, NEW t \in Threads, NEW to, Moves(t, to), stop' = stop,
         pc[t] # "gone", to # "gone", pc[t] \in Blocked <=> to \in Blocked
  PROVE  Phase' = Phase /\ Waiters' = Waiters
<1>1. Owner \in Threads /\ \A c \in Clients : c \in Threads
  BY PoolAssumption DEF Threads
<1>2. pc'[Owner] = "gone" <=> pc[Owner] = "gone"
  BY <1>1 DEF Moves
<1>3. ASSUME NEW c \in Clients PROVE pc'[c] \in Blocked <=> pc[c] \in Blocked
  BY <1>1 DEF Moves, Blocked
<1> QED  BY <1>2, <1>3 DEF Phase, Waiters, Blocked

-----------------------------------------------------------------------------
(* How a step keeps the invariant.                                         *)

LEMMA StopStays ==
  ASSUME Inv, NEW t \in Threads, NEW to, Moves(t, to), stop' = stop,
         stop => \A h \in QueueHolders : Elems(h)' \subseteq Elems(h),
         t \in Clients /\ stop => to \in ClientPc,
         to \in EndPc => stop,
         to = "exited" => stop /\ \A h \in QueueHolders : Elems(h) = {}
  PROVE  StopOK'
<1>1. Owner \in Threads /\ \A u : u \in Clients \/ u \in Workers => u \in Threads
  BY PoolAssumption DEF Threads
<1>2. ASSUME stop, NEW c \in Clients PROVE pc'[c] \in ClientPc
  BY <1>1, <1>2 DEF Inv, StopOK, Moves, ClientPc
<1>3. ASSUME pc'[Owner] \in EndPc PROVE stop
  BY <1>1, <1>3 DEF Inv, StopOK, Moves, EndPc
<1>4. ASSUME NEW w \in Workers, pc'[w] = "exited"
      PROVE  stop /\ \A h \in QueueHolders : Elems(h)' = {}
  <2>1. w = t \/ pc[w] = "exited"
    BY <1>1, <1>4 DEF Moves
  <2>2. stop /\ \A h \in QueueHolders : Elems(h) = {}
    BY <1>4, <2>1 DEF Inv, StopOK, Moves
  <2> QED  BY <2>2
<1> QED  BY <1>2, <1>3, <1>4 DEF StopOK

LEMMA CalmStays ==
  ASSUME Inv, NEW t \in Threads, NEW to, Moves(t, to),
         UNCHANGED <<queueVars, stack, target>>,
         to \in CalmPc => pc[t] \in CalmPc
  PROVE  CalmOK'
<1>1. ASSUME NEW u \in Threads, pc'[u] \in CalmPc PROVE target'[Frame(u)'] = None
  <2>1. pc[u] \in CalmPc
    BY <1>1 DEF Moves, CalmPc
  <2> QED  BY <2>1, SameHolders DEF Inv, CalmOK
<1>2. ASSUME NEW j \in Jobs, ~OnStack(j)' PROVE target'[j] = None
  BY <1>2, SameHolders DEF Inv, CalmOK
<1> QED  BY <1>1, <1>2 DEF CalmOK

(* A step the abstract pool does not see.                                  *)
LEMMA UnseenStep ==
  ASSUME Inv, NEW t \in Threads, NEW to, Moves(t, to),
         UNCHANGED <<queueVars, stack, submitted, done, target, stop>>,
         pc[t] # "gone", to # "gone", pc[t] \in Blocked <=> to \in Blocked,
         to \in CalmPc => pc[t] \in CalmPc,
         t \in Clients /\ stop => to \in ClientPc,
         to \in EndPc => stop,
         to = "exited" => stop /\ \A h \in QueueHolders : Elems(h) = {}
  PROVE  CalmOK' /\ StopOK' /\ UNCHANGED Abstract!vars
<1>1. CalmOK'
  <2>1. UNCHANGED <<queueVars, stack, target>>
    OBVIOUS
  <2> QED  BY <2>1, CalmStays
<1>2. StopOK'
  BY StopStays, SameHolders
<1>3. Status' = Status
  BY StatusStays, SameHolders
<1>4. Phase' = Phase /\ Waiters' = Waiters
  BY PhaseStays DEF Inv
<1> QED  BY <1>1, <1>2, <1>3, <1>4 DEF Abstract!vars, Status, Phase, Waiters

-----------------------------------------------------------------------------
(* What each action does to the invariant and to the abstract pool.        *)
Follows == CalmOK' /\ StopOK' /\ [Abstract!Next]_(Abstract!vars)

LEMMA TakeFollows ==
  ASSUME Inv, NEW t \in Threads, Pops(t), NEW h \in QueueHolders, NEW x, Takes(t, h, x)
  PROVE  Follows
<1>1. Typed /\ Conserved /\ CalmOK /\ StopOK
  BY DEF Inv
<1>2. pc[t] \in {"global", "steal", "local"} /\ UNCHANGED <<submitted, done, target, stop>>
  BY DEF Pops, TryPopGlobal, TrySteal, TryPopLocal, jobVars
<1>3. /\ x \in Jobs /\ x \in submitted /\ x \notin done
      /\ InQueue(x) /\ ~OnStack(x) /\ ~InQueue(x)' /\ OnStack(x)'
      /\ \A j : j # x => (InQueue(j)' <=> InQueue(j)) /\ (OnStack(j)' <=> OnStack(j))
      /\ \A g \in QueueHolders : Elems(g)' \subseteq Elems(g)
      /\ Frame(t)' = x /\ \A u \in Threads \ {t} : Frame(u)' = Frame(u)
      /\ pc'[t] = "body" /\ \A u \in Threads \ {t} : pc'[u] = pc[u]
  BY <1>1, TakeEffect
<1>4. Moves(t, "body")
  BY <1>1, <1>3, GotoMoves DEF Takes, StartJob, AllPc, SharedPc
<1>5. CalmOK'
  <2>1. ASSUME NEW u \in Threads, pc'[u] \in CalmPc PROVE target'[Frame(u)'] = None
    <3>1. CASE u = t
      BY <1>1, <1>2, <1>3, <3>1 DEF CalmOK
    <3>2. CASE u # t
      BY <1>1, <1>2, <1>3, <2>1, <3>2 DEF CalmOK
    <3> QED  BY <3>1, <3>2
  <2>2. ASSUME NEW j \in Jobs, ~OnStack(j)' PROVE target'[j] = None
    BY <1>1, <1>2, <1>3, <2>2 DEF CalmOK
  <2> QED  BY <2>1, <2>2 DEF CalmOK
<1>6. StopOK'
  <2>1. ~(t \in Clients /\ stop)
    BY <1>1, <1>2 DEF StopOK, ClientPc
  <2> QED  BY <1>2, <1>3, <1>4, <2>1, StopStays DEF EndPc
<1>7. Phase' = Phase /\ Waiters' = Waiters
  BY <1>1, <1>2, <1>4, PhaseStays DEF Blocked
<1>8. JobStatus(x) = "queued" /\ JobStatus(x)' = "running"
  BY <1>2, <1>3 DEF JobStatus
<1>9. \A j \in Jobs \ {x} : JobStatus(j)' = JobStatus(j)
  BY <1>2, <1>3 DEF JobStatus
<1>10. Abstract!Start(x)
  BY <1>2, <1>3, <1>7, <1>8, <1>9, StatusMoves DEF Abstract!Start
<1> QED  BY <1>3, <1>5, <1>6, <1>10 DEF Follows, Abstract!Next

LEMMA EnqueueFollows ==
  ASSUME Inv, NEW t \in Threads, NEW x \in Jobs, EnqueueWithState(t, x)
  PROVE  Follows
<1>1. Typed /\ Conserved /\ CalmOK /\ StopOK
  BY DEF Inv
<1>2. /\ pc[t] \in {"idle", "body", "cont"} /\ ~stop /\ x \notin submitted
      /\ submitted' = submitted \cup {x} /\ UNCHANGED <<done, stack, target, stop>>
  BY DEF EnqueueWithState, InBody
<1>3. Moves(t, "notify")
  BY <1>1, GotoMoves DEF EnqueueWithState, AllPc, SharedPc
<1>4. InQueue(x)' /\ \A j \in Jobs \ {x} : InQueue(j)' <=> InQueue(j)
  <2>1. PICK h \in QueueHolders : /\ Elems(h)' = Elems(h) \cup {x}
                                  /\ \A g \in QueueHolders \ {h} : Elems(g)' = Elems(g)
    <3>1. PICK h \in QueueHolders : Puts(h, x)
      BY <1>1, EnqueuePuts
    <3>2. \A g \in QueueHolders \ {h} : Elems(g)' = Elems(g)
      BY <3>1, HolderFacts DEF Puts, Elems
    <3> QED  BY <3>1, <3>2 DEF Puts
  <2> QED  BY <2>1, QueuedElems
<1>5. /\ \A j : OnStack(j)' <=> OnStack(j)
      /\ \A u : Frame(u)' = Frame(u)
  BY <1>2 DEF OnStack, Frame
<1>6. CalmOK'
  <2>1. ASSUME NEW u \in Threads, pc'[u] \in CalmPc PROVE target'[Frame(u)'] = None
    <3>1. pc[u] \in CalmPc
      BY <1>2, <1>3, <2>1 DEF Moves, CalmPc
    <3> QED  BY <1>1, <1>2, <1>5, <3>1 DEF CalmOK
  <2> QED  BY <1>1, <1>2, <1>5, <2>1 DEF CalmOK
<1>7. StopOK'
  BY <1>1, <1>2, <1>3, StopStays DEF EndPc, StopOK
<1>8. Phase' = Phase /\ Waiters' = Waiters /\ Phase = "open"
  BY <1>1, <1>2, <1>3, PhaseStays DEF Blocked, Phase
<1>9. JobStatus(x) = "new" /\ JobStatus(x)' = "queued"
  BY <1>2, <1>4 DEF JobStatus
<1>10. \A j \in Jobs \ {x} : JobStatus(j)' = JobStatus(j)
  BY <1>2, <1>4, <1>5 DEF JobStatus
<1>11. Abstract!Submit(x)
  BY <1>2, <1>8, <1>9, <1>10, StatusMoves DEF Abstract!Submit, Phase
<1> QED  BY <1>6, <1>7, <1>11 DEF Follows, Abstract!Next

(* CompleteJobState moves the job on, or finds it done already.            *)
LEMMA CompleteFollows ==
  ASSUME Inv, NEW t \in Threads, CompleteJobState(t)
  PROVE  Follows
<1>1. Typed /\ Conserved /\ CalmOK /\ StopOK
  BY DEF Inv
<1>2. pc[t] = "body" /\ stack[t] # <<>>
  BY <1>1 DEF CompleteJobState, Typed, ControlOK
<1>3. PICK x \in Jobs : x = Head(stack[t])
  BY <1>1, <1>2, FrameTyped
<1>4. /\ done' = done \cup {x} /\ UNCHANGED <<queueVars, submitted, stack, target, stop>>
      /\ Moves(t, "cont")
  BY <1>1, <1>3, GotoMoves DEF CompleteJobState, AllPc, SharedPc
<1>5. x \in submitted /\ ~InQueue(x) /\ OnStack(x)
  BY <1>1, <1>2, <1>3, HeadPlace, StackedElems
<1>6. ~(t \in Clients /\ stop)
  BY <1>1, <1>2 DEF StopOK, ClientPc
<1>7. CalmOK'
  <2>1. UNCHANGED <<queueVars, stack, target>>
    BY <1>4
  <2> QED  BY <1>2, <1>4, <2>1, CalmStays DEF CalmPc
<1>8. StopOK'
  BY <1>4, <1>6, StopStays, SameHolders DEF EndPc
<1>9. Phase' = Phase /\ Waiters' = Waiters
  BY <1>1, <1>2, <1>4, PhaseStays DEF Blocked
<1>10. \A j \in Jobs \ {x} : JobStatus(j)' = JobStatus(j)
  BY <1>4, SameHolders DEF JobStatus
<1>11. CASE x \in done
  <2>1. Status' = Status
    BY <1>4, <1>11, StatusStays, SameHolders
  <2> QED  BY <1>4, <1>7, <1>8, <1>9, <2>1 DEF Follows, Abstract!vars, Status, Phase, Waiters
<1>12. CASE x \notin done
  <2>1. JobStatus(x) = "running" /\ JobStatus(x)' = "done"
    BY <1>4, <1>5, <1>12, SameHolders DEF JobStatus
  <2>2. Abstract!Finish(x)
    BY <1>4, <1>9, <1>10, <2>1, StatusMoves DEF Abstract!Finish
  <2> QED  BY <1>7, <1>8, <2>2 DEF Follows, Abstract!Next
<1> QED  BY <1>11, <1>12

LEMMA EndFollows ==
  ASSUME Inv, NEW t \in Threads, ExecuteJobEnd(t)
  PROVE  Follows
<1>1. Typed /\ Conserved /\ CalmOK /\ StopOK
  BY DEF Inv
<1>2. pc[t] = "cont" /\ stack[t] # <<>> /\ stack[t] \in Seq(Jobs) /\ IsInjective(stack[t])
  BY <1>1, FrameTyped, HolderFacts, ContentFacts DEF ExecuteJobEnd, Typed, ControlOK, Conserved, Unique
<1>3. PICK x \in Jobs : x = Head(stack[t])
  BY <1>1, <1>2, FrameTyped
<1>4. x \in done /\ x \in submitted /\ ~InQueue(x) /\ OnStack(x) /\ target[x] = None
  <2>1. x \in done
    BY <1>1, <1>2, <1>3 DEF Typed, ControlOK
  <2>2. Frame(t) = x
    BY <1>2, <1>3 DEF Frame
  <2> QED  BY <1>1, <1>2, <1>3, <2>1, <2>2, HeadPlace, StackedElems DEF CalmOK, CalmPc
<1>5. /\ UNCHANGED <<queueVars, submitted, done, target, stop>>
      /\ stack'[t] = Tail(stack[t]) /\ \A u \in Threads \ {t} : stack'[u] = stack[u]
  BY <1>1 DEF ExecuteJobEnd, Typed, TypeOK
<1>6. ~OnStack(x)' /\ \A j \in Jobs \ {x} : OnStack(j)' <=> OnStack(j)
  <2>1. Elems(StackHolder(t))' = Elems(StackHolder(t)) \ {x}
    BY <1>2, <1>3, <1>5, TailElems, ContentFacts DEF Elems
  <2>2. \A u \in Threads \ {t} : Elems(StackHolder(u))' = Elems(StackHolder(u))
    BY <1>5, ContentFacts DEF Elems
  <2>3. \A u \in Threads \ {t} : x \notin Elems(StackHolder(u))
    BY <1>1, <1>2, <1>3, HeadPlace
  <2> QED  BY <2>1, <2>2, <2>3, StackedElems
<1>7. \A h \in QueueHolders : Elems(h)' = Elems(h)
  BY <1>5, HolderFacts, ContentFacts DEF Elems, queueVars
<1>8. PICK to \in {"signal", "help", "loop"} : Moves(t, to)
  <2>1. PICK to \in {"signal", "help", "loop"} : Goto(t, to)
    BY DEF ExecuteJobEnd, CallerPc
  <2> QED  BY <1>1, <2>1, GotoMoves DEF AllPc, SharedPc, WorkerPc
<1>9. CalmOK'
  <2>1. ASSUME NEW u \in Threads, pc'[u] \in CalmPc PROVE target'[Frame(u)'] = None
    <3>1. u # t /\ pc[u] \in CalmPc
      BY <1>8, <2>1 DEF Moves, CalmPc
    <3>2. Frame(u)' = Frame(u)
      BY <1>5, <3>1 DEF Frame
    <3> QED  BY <1>1, <1>5, <3>1, <3>2 DEF CalmOK
  <2>2. ASSUME NEW j \in Jobs, ~OnStack(j)' PROVE target'[j] = None
    BY <1>1, <1>4, <1>5, <1>6, <2>2 DEF CalmOK
  <2> QED  BY <2>1, <2>2 DEF CalmOK
<1>10. StopOK'
  <2>1. ~(t \in Clients /\ stop)
    BY <1>1, <1>2 DEF StopOK, ClientPc
  <2> QED  BY <1>5, <1>7, <1>8, <2>1, StopStays DEF EndPc
<1>11. Phase' = Phase /\ Waiters' = Waiters
  BY <1>1, <1>2, <1>5, <1>8, PhaseStays DEF Blocked
<1>12. \A j : InQueue(j)' <=> InQueue(j)
  BY <1>7, QueuedElems
<1>13. JobStatus(x) = "done" /\ JobStatus(x)' = "retired"
  BY <1>4, <1>5, <1>6, <1>12 DEF JobStatus
<1>14. \A j \in Jobs \ {x} : JobStatus(j)' = JobStatus(j)
  BY <1>5, <1>6, <1>12 DEF JobStatus
<1>15. Abstract!Retire(x)
  BY <1>5, <1>11, <1>13, <1>14, StatusMoves DEF Abstract!Retire
<1> QED  BY <1>9, <1>10, <1>15 DEF Follows, Abstract!Next

(* A frame gets or loses its target; no job moves.                         *)
LEMMA TargetFollows ==
  ASSUME Inv, NEW t \in Threads, NEW to, Moves(t, to), NEW j \in Jobs \cup {None},
         UNCHANGED <<queueVars, stack, submitted, done, stop>>,
         target' = [target EXCEPT ![Frame(t)] = j],
         pc[t] \notin Blocked \cup {"gone"}, to \notin Blocked \cup EndPc \cup {"exited"},
         t \in Clients /\ stop => to \in ClientPc,
         to \in CalmPc => j = None,
         j # None => Frame(t) \in Threads \/ OnStack(Frame(t))
  PROVE  /\ CalmOK' /\ StopOK'
         /\ Status' = Status /\ Phase' = Phase /\ Waiters' = Waiters
<1>1. Typed /\ Conserved /\ CalmOK /\ StopOK
  BY DEF Inv
<1>2. Frame(t) \in Frames /\ target'[Frame(t)] = j
  BY <1>1, FrameTyped DEF Typed, TypeOK
<1>3. \A f \in Frames \ {Frame(t)} : target'[f] = target[f]
  BY <1>1 DEF Typed, TypeOK
<1>4. UNCHANGED <<queueVars, stack>>
  OBVIOUS
<1>5. CalmOK'
  <2>1. ASSUME NEW u \in Threads, pc'[u] \in CalmPc PROVE target'[Frame(u)'] = None
    <3>1. CASE u = t
      BY <1>2, <1>4, <2>1, <3>1, SameHolders DEF Moves
    <3>2. CASE u # t
      <4>1. pc[u] \in CalmPc /\ Frame(u) \in Frames \ {Frame(t)}
        BY <1>1, <2>1, <3>2, FrameTyped, FramesDiffer DEF Moves, CalmPc
      <4> QED  BY <1>1, <1>3, <1>4, <4>1, SameHolders DEF CalmOK
    <3> QED  BY <3>1, <3>2
  <2>2. ASSUME NEW i \in Jobs, ~OnStack(i)' PROVE target'[i] = None
    <3>1. ~OnStack(i) /\ i \notin Threads /\ i \in Frames
      BY <1>4, <2>2, SameHolders, PoolAssumption DEF Frames
    <3> QED  BY <1>1, <1>2, <1>3, <3>1 DEF CalmOK
  <2> QED  BY <2>1, <2>2 DEF CalmOK
<1>6. StopOK'
  BY <1>4, SameHolders, StopStays
<1>7. Status' = Status
  BY <1>4, SameHolders, StatusStays
<1>8. Phase' = Phase /\ Waiters' = Waiters
  BY <1>1, PhaseStays DEF Blocked, EndPc
<1> QED  BY <1>5, <1>6, <1>7, <1>8

LEMMA WaitFollows ==
  ASSUME Inv, NEW t \in Threads, NEW x \in Jobs, WaitWithHelping(t, x) \/ Wait(t, x)
  PROVE  Follows
<1>1. Typed /\ Conserved /\ CalmOK /\ StopOK
  BY DEF Inv
<1>2. /\ pc[t] \in {"idle", "body"} /\ x \in submitted /\ ~(t \in Clients /\ stop)
      /\ target' = [target EXCEPT ![Frame(t)] = x]
      /\ UNCHANGED <<queueVars, stack, submitted, done, stop>>
  BY DEF WaitWithHelping, Wait, InBody, jobVars
<1>3. PICK to \in {"help", "wait"} : Moves(t, to)
  <2>1. PICK to \in {"help", "wait"} : Goto(t, to)
    BY DEF WaitWithHelping, Wait
  <2> QED  BY <1>1, <2>1, GotoMoves DEF AllPc, SharedPc
<1>4. Frame(t) \in Frames /\ target[Frame(t)] = None
  BY <1>1, <1>2, FrameTyped DEF CalmOK, CalmPc
<1>5. Frame(t) \in Threads \/ OnStack(Frame(t))
  BY <1>1, HeadPlace, StackedElems DEF Frame
<1>6. /\ CalmOK' /\ StopOK'
      /\ Status' = Status /\ Phase' = Phase /\ Waiters' = Waiters
  BY <1>2, <1>3, <1>5, TargetFollows DEF Blocked, EndPc, CalmPc
<1>7. Status[x] # "new"
  BY <1>2 DEF Status, JobStatus
<1>8. Abstract!BeginWait(Frame(t), x)
  BY <1>2, <1>4, <1>6, <1>7 DEF Abstract!BeginWait, Status, Phase, Waiters
<1> QED  BY <1>4, <1>6, <1>8 DEF Follows, Abstract!Next, Frames

(* IsDone is seen by a helper, or the wait on the handle returns.          *)
LEMMA ReturnFollows ==
  ASSUME Inv, NEW t \in Threads, pc[t] \in {"help", "wait"}, target[Frame(t)] \in done,
         target' = [target EXCEPT ![Frame(t)] = None], Goto(t, ResumePc(t)),
         UNCHANGED <<queueVars, stack, submitted, done, stop>>
  PROVE  Follows
<1>1. Typed /\ Conserved /\ CalmOK /\ StopOK
  BY DEF Inv
<1>2. ResumePc(t) \in {"idle", "cont", "body"}
  BY DEF ResumePc
<1>3. Moves(t, ResumePc(t))
  BY <1>1, <1>2, GotoMoves DEF AllPc, SharedPc, ClientPc
<1>4. ~(t \in Clients /\ stop)
  BY <1>1 DEF StopOK, ClientPc
<1>5. /\ CalmOK' /\ StopOK'
      /\ Status' = Status /\ Phase' = Phase /\ Waiters' = Waiters
  BY <1>2, <1>3, <1>4, TargetFollows DEF Blocked, EndPc
<1>6. target[Frame(t)] \in Jobs /\ target[Frame(t)] # None
  BY <1>1, PoolAssumption DEF Typed, TypeOK, Frames
<1>7. Status[target[Frame(t)]] \in {"done", "retired"}
  <2>1. PICK x \in Jobs : x = target[Frame(t)]
    BY <1>6
  <2>2. x \in done /\ x \in submitted /\ ~InQueue(x)
    BY <1>1, <2>1, QueuedElems DEF Conserved
  <2> QED  BY <2>1, <2>2 DEF Status, JobStatus
<1>8. Abstract!EndWait(Frame(t))
  BY <1>5, <1>6, <1>7 DEF Abstract!EndWait, Status, Phase, Waiters
<1>9. Frame(t) \in Frames
  BY <1>1, FrameTyped
<1> QED  BY <1>5, <1>8, <1>9 DEF Follows, Abstract!Next, Frames

LEMMA NothingPending ==
  ASSUME Conserved, pendingJobs = 0
  PROVE  Abstract!Quiescent
<1>1. Pending = {}
  BY FS_EmptySet DEF Conserved
<1>2. \A j \in Jobs : ~InQueue(j) /\ ~OnStack(j)
  BY <1>1, QueuedOrStacked DEF Pending
<1> QED  BY <1>2 DEF Abstract!Quiescent, JobStatus

LEMMA WaitAllFollows ==
  ASSUME Inv, NEW c \in Clients, WaitAll(c)
  PROVE  Follows
<1>1. Typed /\ Conserved /\ CalmOK /\ StopOK /\ c \in Threads
  BY DEF Inv, Threads
<1>2. /\ UNCHANGED <<queueVars, stack, submitted, done, target, stop>>
      /\ pc[c] \in {"recheck", "idle"} /\ (pc[c] = "idle" => ~stop)
  BY DEF WaitAll, jobVars
<1>3. PICK to \in {"idle", "decided"} : Moves(c, to) /\ (to = "idle" <=> pendingJobs = 0)
  <2>1. PICK to \in {"idle", "decided"} : Goto(c, to) /\ (to = "idle" <=> pendingJobs = 0)
    BY DEF WaitAll
  <2> QED  BY <1>1, <2>1, GotoMoves DEF AllPc, ClientPc
<1>4. CalmOK'
  <2>1. UNCHANGED <<queueVars, stack, target>>
    BY <1>2
  <2> QED  BY <1>1, <1>2, <1>3, <2>1, CalmStays DEF CalmPc
<1>5. StopOK'
  BY <1>1, <1>2, <1>3, SameHolders, StopStays DEF ClientPc, EndPc
<1>6. CASE pc[c] \in Blocked <=> to \in Blocked
  BY <1>1, <1>2, <1>3, <1>6, UnseenStep DEF Blocked, CalmPc, ClientPc, EndPc, Follows
<1>7. Status' = Status
  BY <1>2, SameHolders, StatusStays
<1>8. Phase' = Phase
  <2>1. Owner \in Threads
    BY PoolAssumption DEF Threads
  <2>2. pc'[Owner] = "gone" <=> pc[Owner] = "gone"
    BY <1>2, <1>3, <2>1 DEF Moves
  <2> QED  BY <1>2, <2>2 DEF Phase
<1>9. /\ pc'[c] = to
      /\ \A u \in Clients \ {c} : pc'[u] \in Blocked <=> pc[u] \in Blocked
  BY <1>3 DEF Moves, Blocked, Threads
<1>10. CASE pc[c] = "idle" /\ to = "decided"
  <2>1. Waiters' = Waiters \cup {c}
    BY <1>9, <1>10 DEF Waiters, Blocked
  <2>2. Phase = "open"
    BY <1>2, <1>10 DEF Phase
  <2>3. Abstract!BeginWaitAll(c)
    BY <1>2, <1>7, <1>8, <2>1, <2>2 DEF Abstract!BeginWaitAll, Status, Phase, Waiters
  <2> QED  BY <1>4, <1>5, <2>3 DEF Follows, Abstract!Next
<1>11. CASE pc[c] = "recheck" /\ to = "idle"
  <2>1. c \in Waiters /\ Waiters' = Waiters \ {c}
    BY <1>9, <1>11 DEF Waiters, Blocked
  <2>2. Abstract!Quiescent
    BY <1>1, <1>3, <1>11, NothingPending
  <2>3. Abstract!EndWaitAll(c)
    BY <1>2, <1>7, <1>8, <2>1, <2>2 DEF Abstract!EndWaitAll, Status, Phase, Waiters
  <2> QED  BY <1>4, <1>5, <2>3 DEF Follows, Abstract!Next
<1> QED  BY <1>2, <1>6, <1>10, <1>11 DEF Blocked

LEMMA DestroyFollows ==
  ASSUME Inv, Destroy
  PROVE  Follows
<1>1. Typed /\ Conserved /\ CalmOK /\ StopOK /\ Owner \in Threads /\ Owner \in Clients
  BY PoolAssumption DEF Inv, Threads
<1>2. /\ ~stop /\ stop' /\ UNCHANGED <<queueVars, stack, submitted, done, target>>
      /\ \A c \in Clients : pc[c] = "idle"
  BY DEF Destroy, SetStop, jobVars
<1>3. Moves(Owner, "stopping")
  BY <1>1, GotoMoves DEF Destroy, SetStop, AllPc, ClientPc
<1>4. pc'[Owner] = "stopping" /\ \A c \in Clients \ {Owner} : pc'[c] = "idle"
  BY <1>2, <1>3 DEF Moves, Threads
<1>5. CalmOK'
  <2>1. UNCHANGED <<queueVars, stack, target>>
    BY <1>2
  <2> QED  BY <1>1, <1>3, <2>1, CalmStays DEF CalmPc
<1>6. StopOK'
  <2>1. \A w \in Workers : pc'[w] # "exited"
    BY <1>1, <1>2, <1>3, PoolAssumption DEF Moves, Threads, StopOK
  <2> QED  BY <1>2, <1>4, <2>1 DEF StopOK, ClientPc
<1>7. Status' = Status
  BY <1>2, SameHolders, StatusStays
<1>8. Phase = "open" /\ Phase' = "stopping" /\ Waiters = {} /\ Waiters' = {}
  BY <1>1, <1>2, <1>4 DEF Phase, Waiters
<1>9. Abstract!Stop
  BY <1>2, <1>7, <1>8 DEF Abstract!Stop, Status, Phase, Waiters
<1> QED  BY <1>5, <1>6, <1>9 DEF Follows, Abstract!Next

(* Nobody enqueues after _stop, so the workers that have exited have left  *)
(* nothing in the queues.                                                  *)
LEMMA JoinFollows ==
  ASSUME Inv, Join
  PROVE  Follows
<1>1. Typed /\ Conserved /\ CalmOK /\ StopOK /\ Owner \in Threads /\ Owner \in Clients
  BY PoolAssumption DEF Inv, Threads
<1>2. /\ UNCHANGED <<queueVars, stack, submitted, done, target, stop>>
      /\ pc[Owner] = "joining" /\ \A w \in Workers : pc[w] = "exited"
  BY DEF Join, jobVars
<1>3. stop /\ \A h \in QueueHolders : Elems(h) = {}
  <2>1. 0 \in Workers
    BY PoolAssumption DEF Workers
  <2> QED  BY <1>1, <1>2, <2>1 DEF StopOK
<1>4. \A t \in Threads : stack[t] = <<>>
  BY <1>1, <1>2, <1>3 DEF StopOK, Typed, ControlOK, Threads, WorkerPc
<1>5. Moves(Owner, "gone")
  BY <1>1, GotoMoves DEF Join, AllPc, ClientPc
<1>6. pc'[Owner] = "gone"
  BY <1>5 DEF Moves
<1>7. CalmOK'
  <2>1. UNCHANGED <<queueVars, stack, target>>
    BY <1>2
  <2> QED  BY <1>1, <1>5, <2>1, CalmStays DEF CalmPc
<1>8. StopOK'
  BY <1>1, <1>2, <1>3, <1>5, SameHolders, StopStays DEF ClientPc
<1>9. Status' = Status
  BY <1>2, SameHolders, StatusStays
<1>10. Phase = "stopping" /\ Phase' = "closed"
  BY <1>2, <1>3, <1>6 DEF Phase
<1>11. Waiters' = Waiters
  <2>1. \A c \in Clients : pc'[c] \in Blocked <=> pc[c] \in Blocked
    BY <1>2, <1>5 DEF Moves, Blocked, Threads
  <2> QED  BY <2>1 DEF Waiters, Blocked
<1>12. Abstract!Quiescent
  <2>1. \A j \in Jobs : ~InQueue(j)
    BY <1>3, QueuedElems
  <2>2. \A j \in Jobs : ~OnStack(j)
    BY <1>4 DEF OnStack, ToSet
  <2> QED  BY <2>1, <2>2 DEF Abstract!Quiescent, JobStatus
<1>13. Abstract!Close
  BY <1>2, <1>9, <1>10, <1>11, <1>12 DEF Abstract!Close, Status, Phase, Waiters
<1> QED  BY <1>7, <1>8, <1>13 DEF Follows, Abstract!Next

-----------------------------------------------------------------------------
(* The actions the abstract pool does not see.                             *)
LEMMA Unseen ==
  ASSUME Inv, UNCHANGED <<queueVars, stack, submitted, done, target, stop>>,
         NEW t \in Threads, NEW to, Moves(t, to),
         pc[t] # "gone", to # "gone", pc[t] \in Blocked <=> to \in Blocked,
         to \in CalmPc => pc[t] \in CalmPc,
         t \in Clients /\ stop => to \in ClientPc,
         to \in EndPc => stop, to # "exited"
  PROVE  Follows
BY UnseenStep DEF Follows

(* After _stop a client is idle or runs the destructor.                    *)
LEMMA StoppedClient ==
  ASSUME Inv, NEW t \in Threads, pc[t] \in SharedPc
  PROVE  ~(t \in Clients /\ stop)
BY DEF Inv, StopOK, ClientPc, SharedPc

LEMMA NotifyFollows ==
  ASSUME Inv, NEW t \in Threads, NotifyWorkers(t)
  PROVE  Follows
<1>1. ResumePc(t) \in {"idle", "cont", "body"} /\ pc[t] = "notify"
  BY DEF ResumePc, NotifyWorkers
<1>2. Moves(t, ResumePc(t))
  BY <1>1, WakeWorkersMoves DEF Inv, NotifyWorkers, AllPc, SharedPc, ClientPc
<1>3. UNCHANGED <<queueVars, stack, submitted, done, target, stop>>
  BY DEF NotifyWorkers, jobVars
<1>4. ~(t \in Clients /\ stop)
  BY <1>1, StoppedClient DEF SharedPc
<1> QED  BY <1>1, <1>2, <1>3, <1>4, Unseen DEF Blocked, CalmPc, EndPc

LEMMA LookFollows ==
  ASSUME Inv, NEW t \in Threads, Pops(t), UNCHANGED <<queueVars, stack>>
  PROVE  Follows
<1>1. Typed /\ Conserved /\ StopOK
  BY DEF Inv
<1>2. /\ pc[t] \in {"global", "steal", "local"} /\ UNCHANGED <<submitted, done, target, stop>>
  BY DEF Pops, TryPopGlobal, TrySteal, TryPopLocal, jobVars
<1>3. ASSUME NEW j, StartJob(t, j) PROVE FALSE
  <2>1. stack[t] \in Seq(Jobs) /\ stack'[t] = <<j>> \o stack[t]
    BY <1>1, <1>3, FrameTyped DEF StartJob, Typed, TypeOK
  <2>2. Len(<<j>> \o stack[t]) = Len(stack[t]) + 1 /\ Len(stack[t]) \in Nat
    BY <2>1
  <2> QED  BY <2>1, <2>2
<1>4. PICK to \in {"global", "steal", "help", "loop"} : Moves(t, to)
  <2>1. UNCHANGED pc \/ \E to \in {"global", "steal", "help", "loop"} : Goto(t, to)
    BY <1>3 DEF Pops, TryPopGlobal, TrySteal, TryPopLocal, CallerPc
  <2>2. UNCHANGED pc => pc[t] = "steal"
    <3>1. \A to : Goto(t, to) => pc'[t] = to
      BY <1>1 DEF Goto, Typed, TypeOK, PcOK
    <3> QED  BY <1>2, <1>3, <3>1 DEF Pops, TryPopGlobal, TrySteal, TryPopLocal
  <2>3. UNCHANGED pc => Moves(t, "steal")
    BY <1>1, <2>2 DEF Moves, Typed, TypeOK, PcOK, AllPc
  <2> QED  BY <1>1, <2>1, <2>3, GotoMoves DEF AllPc, SharedPc, WorkerPc
<1>5. ~(t \in Clients /\ stop)
  BY <1>1, <1>2 DEF StopOK, ClientPc
<1> QED  BY <1>2, <1>4, <1>5, Unseen DEF Blocked, CalmPc, EndPc

LEMMA SignalFollows ==
  ASSUME Inv, NEW t \in Threads, SignalCompletion(t)
  PROVE  Follows
<1>1. CallerPc(t, stack[t]) \in {"help", "loop"} /\ pc[t] = "signal"
  BY DEF CallerPc, SignalCompletion, WakeWaiters
<1>2. Moves(t, CallerPc(t, stack[t]))
  BY <1>1 DEF SignalCompletion, WakeWaiters, Moves, Inv, Typed, TypeOK, PcOK,
              AllPc, SharedPc, ClientPc, WorkerPc
<1>3. UNCHANGED <<queueVars, stack, submitted, done, target, stop>>
  BY DEF SignalCompletion, WakeWaiters, jobVars
<1>4. ~(t \in Clients /\ stop)
  BY <1>1, StoppedClient DEF SharedPc
<1> QED  BY <1>1, <1>2, <1>3, <1>4, Unseen DEF Blocked, CalmPc, EndPc

LEMMA HelpFollows ==
  ASSUME Inv, NEW t \in Threads, HelpCheck(t) \/ WaitReturn(t)
  PROVE  Follows
<1>1. /\ pc[t] \in {"help", "wait"}
      /\ UNCHANGED <<queueVars, stack, submitted, done, stop>>
  BY DEF HelpCheck, WaitReturn, jobVars
<1>2. CASE target[Frame(t)] \in done
  BY <1>1, <1>2, ReturnFollows DEF HelpCheck, WaitReturn
<1>3. CASE target[Frame(t)] \notin done
  <2>1. Goto(t, "global") /\ UNCHANGED target
    BY <1>3 DEF HelpCheck, WaitReturn
  <2>2. Moves(t, "global")
    BY <2>1, GotoMoves DEF Inv, AllPc, SharedPc
  <2>3. ~(t \in Clients /\ stop)
    BY <1>1, StoppedClient DEF SharedPc
  <2> QED  BY <1>1, <2>1, <2>2, <2>3, Unseen DEF Blocked, CalmPc, EndPc
<1> QED  BY <1>2, <1>3

LEMMA WakeupFollows ==
  ASSUME Inv, NEW t \in Threads, SpuriousWakeup(t)
  PROVE  Follows
<1>1. UNCHANGED <<queueVars, stack, submitted, done, target, stop>>
  BY DEF SpuriousWakeup, jobVars
<1>2. CASE pc[t] = "asleep" /\ Goto(t, "loop")
  <2>1. Moves(t, "loop") /\ t \notin Clients
    BY <1>2, GotoMoves DEF Inv, Typed, TypeOK, PcOK, AllPc, WorkerPc
  <2> QED  BY <1>1, <1>2, <2>1, Unseen DEF Blocked, CalmPc, EndPc
<1>3. CASE pc[t] = "waiting" /\ Goto(t, "recheck")
  <2>1. Moves(t, "recheck")
    BY <1>3, GotoMoves DEF Inv, AllPc, ClientPc
  <2> QED  BY <1>1, <1>3, <2>1, Unseen DEF Blocked, CalmPc, EndPc, ClientPc
<1> QED  BY <1>2, <1>3 DEF SpuriousWakeup

LEMMA WorkerFollows ==
  ASSUME Inv, NEW w \in Workers, WorkerCheck(w) \/ WorkerSleep(w)
  PROVE  Follows
<1>1. w \in Threads /\ w \notin Clients
  BY PoolAssumption DEF Threads
<1>2. UNCHANGED <<queueVars, stack, submitted, done, target, stop>> /\ pc[w] \in {"loop", "park"}
  BY DEF WorkerCheck, WorkerSleep, jobVars
<1>3. CASE \E to \in {"local", "park", "asleep"} : Goto(w, to)
  <2>1. PICK to \in {"local", "park", "asleep"} : Moves(w, to)
    BY <1>1, <1>3, GotoMoves DEF Inv, AllPc, WorkerPc
  <2> QED  BY <1>1, <1>2, <2>1, Unseen DEF Blocked, CalmPc, EndPc
<1>4. CASE Goto(w, "exited") /\ stop /\ jobQueue = <<>> /\ ~HasAnyLocalJob
  <2>1. Moves(w, "exited")
    BY <1>1, <1>4, GotoMoves DEF Inv, AllPc, WorkerPc
  <2>2. \A h \in QueueHolders : Elems(h) = {}
    <3>1. \A h \in QueueHolders : Content(h) = <<>>
      BY <1>4, HolderFacts, ContentFacts DEF HasAnyLocalJob
    <3> QED  BY <3>1 DEF Elems, ToSet
  <2> QED  BY <1>1, <1>2, <1>4, <2>1, <2>2, UnseenStep DEF Blocked, CalmPc, EndPc, Follows
<1> QED  BY <1>3, <1>4 DEF WorkerCheck, WorkerSleep

LEMMA BlockFollows ==
  ASSUME Inv, NEW c \in Clients, WaitAllSleep(c)
  PROVE  Follows
<1>1. c \in Threads
  BY DEF Threads
<1>2. UNCHANGED <<queueVars, stack, submitted, done, target, stop>> /\ pc[c] = "decided"
  BY DEF WaitAllSleep, jobVars
<1>3. Moves(c, "waiting")
  BY <1>1, GotoMoves DEF WaitAllSleep, Inv, AllPc, ClientPc
<1> QED  BY <1>1, <1>2, <1>3, Unseen DEF Blocked, CalmPc, EndPc, ClientPc

LEMMA NotifyStopFollows ==
  ASSUME Inv, NotifyStop
  PROVE  Follows
<1>1. Owner \in Threads
  BY PoolAssumption DEF Threads
<1>2. UNCHANGED <<queueVars, stack, submitted, done, target, stop>> /\ pc[Owner] = "stopping"
  BY DEF NotifyStop, jobVars
<1>3. Moves(Owner, "joining")
  BY <1>1, WakeWorkersMoves DEF NotifyStop, Inv, AllPc, ClientPc
<1>4. stop
  BY <1>2 DEF Inv, StopOK, EndPc
<1> QED  BY <1>1, <1>2, <1>3, <1>4, Unseen DEF Blocked, CalmPc, EndPc, ClientPc

LEMMA StutterFollows ==
  ASSUME Inv, UNCHANGED vars
  PROVE  Follows
<1>1. UNCHANGED <<queueVars, stack, submitted, done, target, stop, pc>>
  BY DEF vars, jobVars
<1>2. CalmOK'
  BY <1>1, SameHolders DEF Inv, CalmOK
<1>3. StopOK'
  BY <1>1, SameHolders DEF Inv, StopOK
<1>4. Status' = Status /\ Phase' = Phase /\ Waiters' = Waiters
  BY <1>1, SameHolders, StatusStays DEF Phase, Waiters
<1> QED  BY <1>1, <1>2, <1>3, <1>4 DEF Follows, Abstract!vars, Status, Phase, Waiters

-----------------------------------------------------------------------------
LEMMA PromiseInit == Init => Inv /\ Abstract!Init
<1> SUFFICES ASSUME Init PROVE Inv /\ Abstract!Init
  OBVIOUS
<1> USE PoolAssumption
<1>1. Typed /\ Conserved
  BY TypedInit, ConservedInit
<1>2. Owner \in Threads /\ \A u : u \in Clients \/ u \in Workers => u \in Threads
  BY DEF Threads
<1>3. ~stop /\ \A t \in Threads : pc[t] \in {"loop", "idle"}
  BY DEF Init
<1>4. StopOK
  BY <1>2, <1>3 DEF StopOK, EndPc
<1>5. CalmOK
  BY <1>1, FrameTyped DEF Init, CalmOK, Frames
<1>6. Status = [j \in Jobs |-> "new"]
  BY DEF Init, Status, JobStatus
<1>7. Phase = "open" /\ Waiters = {}
  BY <1>2, <1>3 DEF Phase, Waiters
<1>8. Abstract!Init
  BY <1>6, <1>7 DEF Init, Abstract!Init, Status, Phase, Waiters
<1> QED  BY <1>1, <1>4, <1>5, <1>8 DEF Inv

LEMMA PromiseNext == Inv /\ [Next]_vars => Inv' /\ [Abstract!Next]_(Abstract!vars)
<1> SUFFICES ASSUME Inv, [Next]_vars PROVE Inv' /\ [Abstract!Next]_(Abstract!vars)
  OBVIOUS
<1>1. (Typed /\ Conserved)'
  BY CountInvariant DEF Inv
<1>2. ASSUME NEW t \in Threads, Pops(t) PROVE Follows
  <2>1. UNCHANGED <<queueVars, stack>> \/ \E h \in QueueHolders : \E x : Takes(t, h, x)
    BY <1>2, PopTakes DEF Inv
  <2> QED  BY <1>2, <2>1, LookFollows, TakeFollows
<1>3. ASSUME NEW t \in Threads, Progress(t) PROVE Follows
  BY <1>2, <1>3, NotifyFollows, CompleteFollows, EndFollows, SignalFollows, HelpFollows
     DEF Progress, Pops
<1>4. ASSUME NEW t \in Threads, Call(t) PROVE Follows
  BY <1>4, EnqueueFollows, WaitFollows DEF Call
<1>5. ASSUME NEW t \in Threads, SpuriousWakeup(t) PROVE Follows
  BY <1>5, WakeupFollows
<1>6. ASSUME NEW w \in Workers, WorkerStep(w) PROVE Follows
  <2>1. CASE TryPopLocal(w)
    BY <1>2, <2>1 DEF Pops, Threads
  <2> QED  BY <1>6, <2>1, WorkerFollows DEF WorkerStep
<1>7. ASSUME NEW c \in Clients, WaitAll(c) \/ WaitAllSleep(c) PROVE Follows
  BY <1>7, WaitAllFollows, BlockFollows
<1>8. ASSUME Destroy \/ NotifyStop \/ Join PROVE Follows
  BY <1>8, DestroyFollows, NotifyStopFollows, JoinFollows
<1>9. Follows
  BY <1>3, <1>4, <1>5, <1>6, <1>7, <1>8, StutterFollows DEF Next, Terminated
<1> QED  BY <1>1, <1>9 DEF Inv, Follows

(* src/ThreadPool.cpp keeps the promise of a thread pool, whatever the     *)
(* workload: a submitted job is started, finished and retired once, no     *)
(* wait for a handle returns before the job is done, no WaitAll returns    *)
(* and the destructor does not before every job is retired.                *)
THEOREM PoolImplementsJobPool == Spec => ImplementsJobPool
<1> QED  BY PromiseInit, PromiseNext, PTL DEF Spec, Abstract!Spec, ImplementsJobPool

=============================================================================
