--------------------------- MODULE JobGraphProofs ---------------------------
(***************************************************************************)
(* Theorems about JobGraph, for every set of workers, clients and jobs and *)
(* every dependency graph.                                                 *)
(*                                                                         *)
(* The invariant counts what a job is still owed: entries for it in the    *)
(* continuations of jobs that are not done, entries taken from there and   *)
(* not yet run, and dependencies its client has yet to look at.  Together  *)
(* they are what its counter says, so the counter reaches zero when all    *)
(* dependencies are done and nobody is left to count it down again.        *)
(***************************************************************************)
EXTENDS JobGraph, DataLemmas, TLAPS

-----------------------------------------------------------------------------
(* What a job is owed.                                                     *)

(* Entries for k in the continuations of a job.                            *)
Stored(k) == {p \in Jobs \X Nat :
                /\ p[2] \in 1 .. Len(continuations[p[1]])
                /\ continuations[p[1]][p[2]] = k}

(* Entries for k that a thread has taken to run.                           *)
IsEntry(frames, m, i, k) == /\ m \in 1 .. Len(frames)
                            /\ i \in 1 .. Len(FromEnd(frames, m))
                            /\ FromEnd(FromEnd(frames, m), i) = k

Taken(k) == {p \in Threads \X Nat \X Nat : IsEntry(todo[p[1]], p[2], p[3], k)}

(* Dependencies of k that the client submitting it has yet to look at.     *)
Unread(k) == {p \in Clients \X Nat :
                /\ running[p[1]] = k
                /\ p[2] \in cursor[p[1]] .. Len(Deps[k])}

Owed(k) == Cardinality(Stored(k)) + Cardinality(Taken(k)) + Cardinality(Unread(k))

(* Thread t has counted k down to zero and is about to queue or cancel it. *)
Holds(t, k) == pc[t] \in {"ready", "enqueue"} /\ target[t] = k

Runs(w, k) == running[w] = k

Busy == {w \in Workers : running[w] # None}

-----------------------------------------------------------------------------
(* The inductive invariant.                                                *)

WorkerPc == {"idle", "body", "run", "ready", "enqueue", "end", "gone"}
ClientPc == {"idle", "register", "ready", "enqueue", "run"}

(* Where a thread is determines whether it has a job and whether it is     *)
(* completing one; a client submits one job at a time, whose handle nobody *)
(* has yet, to a pool that lives.                                          *)
ControlOK ==
  /\ \A w \in Workers : /\ pc[w] \in WorkerPc
                        /\ running[w] = None <=> pc[w] \in {"idle", "gone"}
  /\ \A c \in Clients : /\ pc[c] \in ClientPc
                        /\ running[c] = None <=> pc[c] = "idle"
                        /\ target[c] = running[c]
                        /\ pc[c] # "idle" => cursor[c] >= 1 /\ running[c] \in submitted \ returned
                        /\ stop => pc[c] = "idle"
  /\ \A t \in Threads : /\ pc[t] \in {"ready", "enqueue"} => target[t] # None
                        /\ pc[t] \in {"run", "ready", "enqueue"} \/ todo[t] = <<>>
  /\ \A c1, c2 \in Clients : running[c1] = running[c2] /\ running[c1] # None => c1 = c2

(* Dependencies were there before their dependents: no set of submitted    *)
(* jobs has only members that depend on members.                           *)
DepsOK ==
  /\ \A k \in submitted : ToSet(Deps[k]) \subseteq returned
  /\ \A S \in SUBSET submitted : S # {} => \E k \in S : ToSet(Deps[k]) \cap S = {}

(* Every dependency that is not done is on record.                         *)
LinksOK ==
  \A k \in Jobs :
    /\ \A p \in Stored(k) : p[1] \notin done /\ p[1] \in ToSet(Deps[k]) /\ k \in submitted
    /\ \A p \in Taken(k) : p[1] \in Workers /\ k \in submitted
    /\ k \in submitted => \A i \in 1 .. Len(Deps[k]) :
         \/ Deps[k][i] \in done
         \/ \E p \in Stored(k) : p[1] = Deps[k][i]
         \/ \E p \in Unread(k) : p[2] = i

(* A stopped pool drops entries: the counter then stays above zero.        *)
CountOK ==
  \A k \in submitted :
    /\ IsFiniteSet(Stored(k)) /\ IsFiniteSet(Taken(k)) /\ IsFiniteSet(Unread(k))
    /\ Owed(k) <= remaining[k]
    /\ ~stop => Owed(k) = remaining[k]

(* A job is in one place, and gets there once.                             *)
QueuedOK(k) == k \in queue => submitOnce[k] /\ k \notin done /\ \A w \in Workers : ~Runs(w, k)

RunsOK(k) ==
  \A w \in Workers : Runs(w, k) => /\ submitOnce[k]
                                   /\ pc[w] = "body" <=> k \notin done
                                   /\ \A v \in Workers : Runs(v, k) => v = w

HeldOK(k) ==
  \A t \in Threads : Holds(t, k) => /\ k \in submitted /\ remaining[k] = 0
                                    /\ submitOnce[k] <=> pc[t] = "enqueue"
                                    /\ k \notin queue \cup done
                                    /\ \A w \in Workers : ~Runs(w, k)
                                    /\ \A u \in Threads : Holds(u, k) => u = t

OnceOK(k) ==
  /\ k \in done => submitOnce[k]
  /\ submitOnce[k] => k \in submitted /\ remaining[k] = 0

(* A job with nothing to wait for is on its way, and not lost on it.       *)
FoundOK(k) ==
  /\ k \in submitted /\ remaining[k] = 0 => submitOnce[k] \/ \E t \in Threads : Holds(t, k)
  /\ submitOnce[k] /\ ~stop => \/ k \in queue \cup done
                               \/ \E w \in Workers : Runs(w, k)
                               \/ \E t \in Threads : Holds(t, k)

PlaceOK == \A k \in Jobs : QueuedOK(k) /\ RunsOK(k) /\ HeldOK(k) /\ OnceOK(k) /\ FoundOK(k)

PendingOK ==
  /\ IsFiniteSet(queue) /\ IsFiniteSet(Busy)
  /\ pendingJobs = Cardinality(queue) + Cardinality(Busy)

(* What SubmitIfReady found out still holds when the job is queued.        *)
DecisionOK == \A t \in Threads : pc[t] = "enqueue" /\ ~stop => ~DependencyFailed(target[t])

Typed == TypeOK /\ ControlOK

Inv == Typed /\ DepsOK /\ LinksOK /\ CountOK /\ PlaceOK /\ PendingOK /\ DecisionOK

-----------------------------------------------------------------------------
(* Consequences of the invariant that the steps rely on.                   *)

LEMMA OwedPositive ==
  ASSUME Inv, NEW k \in submitted, Stored(k) # {} \/ Taken(k) # {} \/ Unread(k) # {}
  PROVE  remaining[k] \in Nat \ {0}
<1>1. /\ IsFiniteSet(Stored(k)) /\ IsFiniteSet(Taken(k)) /\ IsFiniteSet(Unread(k))
      /\ Owed(k) <= remaining[k]
      /\ remaining[k] \in Nat
  BY DEF Inv, Typed, TypeOK, CountOK
<1>2. /\ Cardinality(Stored(k)) \in Nat /\ Cardinality(Taken(k)) \in Nat
      /\ Cardinality(Unread(k)) \in Nat
  BY <1>1, FS_CardinalityType
<1>3. \/ Cardinality(Stored(k)) # 0 \/ Cardinality(Taken(k)) # 0 \/ Cardinality(Unread(k)) # 0
  BY <1>1, FS_EmptySet
<1> QED  BY <1>1, <1>2, <1>3 DEF Owed

(* A job whose counter is zero waits for nothing.                          *)
LEMMA ZeroMeansReady ==
  ASSUME Inv, NEW k \in submitted, remaining[k] = 0
  PROVE  /\ Stored(k) = {} /\ Taken(k) = {} /\ Unread(k) = {}
         /\ ToSet(Deps[k]) \subseteq done
<1>1. k \in Jobs
  BY DEF Inv, Typed, TypeOK
<1>2. Stored(k) = {} /\ Taken(k) = {} /\ Unread(k) = {}
  BY OwedPositive
<1>3. \A i \in 1 .. Len(Deps[k]) : Deps[k][i] \in done
  BY <1>1, <1>2 DEF Inv, LinksOK
<1> QED  BY <1>1, <1>2, <1>3, GraphAssumption DEF ToSet

(* The client at work on a dependency, and the entry that says so.         *)
LEMMA Registering ==
  ASSUME Inv, NEW c \in Clients, pc[c] = "register", cursor[c] <= Len(Deps[running[c]])
  PROVE  /\ running[c] \in Jobs /\ running[c] \in submitted
         /\ cursor[c] \in 1 .. Len(Deps[running[c]])
         /\ Deps[running[c]][cursor[c]] \in Jobs
         /\ Deps[running[c]][cursor[c]] \in ToSet(Deps[running[c]])
         /\ <<c, cursor[c]>> \in Unread(running[c])
         /\ remaining[running[c]] \in Nat \ {0}
<1> DEFINE k == running[c]
<1>1. k \in Jobs /\ k \in submitted
  BY DEF Inv, Typed, TypeOK, ControlOK
<1>2. Deps[k] \in Seq(Jobs) /\ Len(Deps[k]) \in Nat
  BY <1>1, GraphAssumption
<1>3. cursor[c] \in 1 .. Len(Deps[k])
  BY <1>2 DEF Inv, Typed, TypeOK, ControlOK
<1>4. Deps[k][cursor[c]] \in Jobs /\ Deps[k][cursor[c]] \in ToSet(Deps[k])
  BY <1>2, <1>3 DEF ToSet
<1>5. <<c, cursor[c]>> \in Unread(k)
  BY <1>2, <1>3 DEF Unread, Inv, Typed, TypeOK
<1>6. remaining[k] \in Nat \ {0}
  BY <1>1, <1>5, OwedPositive
<1> QED  BY <1>1, <1>3, <1>4, <1>5, <1>6

(* A thread that runs continuations, and the entry it runs next.           *)
LEMMA Running ==
  ASSUME Inv, NEW t \in Threads, todo[t] # <<>>, Head(todo[t]) # <<>>
  PROVE  /\ Head(Head(todo[t])) \in Jobs /\ Head(Head(todo[t])) \in submitted
         /\ t \in Workers
         /\ <<t, Len(todo[t]), Len(Head(todo[t]))>> \in Taken(Head(Head(todo[t])))
         /\ remaining[Head(Head(todo[t]))] \in Nat \ {0}
<1> DEFINE f == Head(todo[t])
           k == Head(f)
<1>1. todo[t] \in Seq(Seq(Jobs))
  BY DEF Inv, Typed, TypeOK
<1>2. f \in Seq(Jobs) /\ Len(todo[t]) \in Nat \ {0} /\ f = FromEnd(todo[t], Len(todo[t]))
  BY <1>1, PopKeeps
<1>3. k \in Jobs /\ Len(f) \in Nat \ {0} /\ k = FromEnd(f, Len(f))
  BY <1>2, PopKeeps
<1>4. <<t, Len(todo[t]), Len(f)>> \in Taken(k)
  BY <1>2, <1>3 DEF Taken, IsEntry
<1>5. t \in Workers /\ k \in submitted
  BY <1>3, <1>4 DEF Inv, LinksOK
<1>6. remaining[k] \in Nat \ {0}
  BY <1>4, <1>5, OwedPositive
<1> QED  BY <1>3, <1>4, <1>5, <1>6

-----------------------------------------------------------------------------
LEMMA TypedInit == Init => Typed
<1> SUFFICES ASSUME Init PROVE Typed
  OBVIOUS
<1> USE GraphAssumption
<1>1. TypeOK
  <2>1. <<>> \in Seq(Seq(Jobs)) /\ <<>> \in Seq(Jobs)
    OBVIOUS
  <2>2. todo \in [Threads -> Seq(Seq(Jobs))] /\ continuations \in [Jobs -> Seq(Jobs)]
    BY <2>1 DEF Init
  <2> QED  BY <2>2 DEF Init, TypeOK
<1>2. ControlOK
  BY DEF Init, ControlOK, Threads, WorkerPc, ClientPc
<1> QED  BY <1>1, <1>2 DEF Typed

(* Publish keeps the types of what it writes.                              *)
LEMMA PublishTyped ==
  ASSUME Typed, NEW t \in Threads, NEW j \in Jobs,
         NEW ex \in {None, "thrown", "canceled", "rejected"}, NEW frames \in Seq(Seq(Jobs)),
         Publish(t, j, ex, frames)
  PROVE  /\ done' \in SUBSET Jobs
         /\ exception' \in [Jobs -> {None, "thrown", "canceled", "rejected"}]
         /\ continuations' \in [Jobs -> Seq(Jobs)]
         /\ todo' \in [Threads -> Seq(Seq(Jobs))]
         /\ pc' = [pc EXCEPT ![t] = "run"]
<1>1. <<continuations[j]>> \o frames \in Seq(Seq(Jobs))
  BY PushKeeps DEF Typed, TypeOK
<1>2. done' \in SUBSET Jobs /\ todo' \in [Threads -> Seq(Seq(Jobs))]
  BY <1>1 DEF Publish, Typed, TypeOK
<1>3. exception' \in [Jobs -> {None, "thrown", "canceled", "rejected"}]
  BY DEF Publish, Typed, TypeOK
<1>4. continuations' \in [Jobs -> Seq(Jobs)]
  BY DEF Publish, Typed, TypeOK
<1> QED  BY <1>2, <1>3, <1>4 DEF Publish, Goto

LEMMA TypeNext == Inv /\ [Next]_vars => TypeOK'
<1> SUFFICES ASSUME Inv, [Next]_vars PROVE TypeOK'
  OBVIOUS
<1> USE GraphAssumption
<1>0. TypeOK /\ ControlOK
  BY DEF Inv, Typed
<1>1. ASSUME NEW c \in Clients, NEW k \in Jobs, SubmitAfter(c, k) PROVE TypeOK'
  <2>1. Len(Deps[k]) \in Nat
    OBVIOUS
  <2> QED  BY <1>0, <1>1, <2>1 DEF SubmitAfter, CreateJob, Goto, TypeOK, Threads, stateVars
<1>2. ASSUME NEW c \in Clients, AddContinuation(c) PROVE TypeOK'
  <2>1. /\ running[c] \in Jobs
        /\ Deps[running[c]][cursor[c]] \in Jobs
        /\ remaining[running[c]] \in Nat \ {0}
    BY <1>2, Registering DEF AddContinuation
  <2>2. Append(continuations[Deps[running[c]][cursor[c]]], running[c]) \in Seq(Jobs)
    BY <1>0, <2>1 DEF TypeOK
  <2>3. /\ cursor' \in [Clients -> Nat]
        /\ UNCHANGED <<stop, queue, pendingJobs, submitted, returned, done, exception, submitOnce,
                        running, todo, inCatch, target, terminated>>
    <3>1. cursor' = [cursor EXCEPT ![c] = @ + 1]
      BY <1>2 DEF AddContinuation
    <3>2. cursor' \in [Clients -> Nat]
      BY <1>0, <3>1 DEF TypeOK
    <3> QED  BY <1>2, <3>2 DEF AddContinuation
  <2>4. CASE CountDown(c, running[c], "register") /\ UNCHANGED continuations
    <3>1. remaining' \in [Jobs -> Nat]
      <4>1. remaining' = [remaining EXCEPT ![running[c]] = @ - 1]
        BY <2>4 DEF CountDown
      <4> QED  BY <1>0, <2>1, <4>1 DEF TypeOK
    <3>2. pc' = [pc EXCEPT ![c] = "ready"] \/ pc' = [pc EXCEPT ![c] = "register"]
      BY <2>4 DEF CountDown, Goto
    <3> QED  BY <1>0, <2>3, <2>4, <3>1, <3>2 DEF TypeOK
  <2>5. CASE UNCHANGED <<remaining, pc>> /\ continuations' = [continuations EXCEPT
               ![Deps[running[c]][cursor[c]]] = Append(@, running[c])]
    <3>1. continuations' \in [Jobs -> Seq(Jobs)]
      BY <1>0, <2>1, <2>2, <2>5 DEF TypeOK
    <3> QED  BY <1>0, <2>3, <2>5, <3>1 DEF TypeOK
  <2> QED  BY <1>2, <2>4, <2>5 DEF AddContinuation
<1>3. ASSUME NEW c \in Clients, Return(c) PROVE TypeOK'
  <2>1. running[c] \in submitted
    BY <1>0, <1>3 DEF Return, ControlOK
  <2> QED  BY <1>0, <1>3, <2>1 DEF Return, Goto, TypeOK, Threads, stateVars, countVars
<1>4. ASSUME NEW w \in Workers, NEW j \in Jobs, Start(w, j) PROVE TypeOK'
  BY <1>0, <1>4 DEF Start, Goto, TypeOK, Threads, stateVars, countVars
<1>5. ASSUME NEW w \in Workers, BodyEnds(w) PROVE TypeOK'
  <2>1. running[w] \in Jobs
    BY <1>0, <1>5 DEF BodyEnds, TypeOK, ControlOK, Threads
  <2>2. <<>> \in Seq(Seq(Jobs)) /\ w \in Threads
    BY DEF Threads
  <2>3. PICK ex \in {None, "thrown"} : Publish(w, running[w], ex, <<>>)
    BY <1>5 DEF BodyEnds
  <2>4. /\ inCatch' \in [Workers -> BOOLEAN]
        /\ UNCHANGED <<stop, queue, pendingJobs, submitted, returned, countVars, running, cursor, target,
                       terminated>>
    BY <1>0, <1>5 DEF BodyEnds, TypeOK
  <2>5. /\ done' \in SUBSET Jobs
        /\ exception' \in [Jobs -> {None, "thrown", "canceled", "rejected"}]
        /\ continuations' \in [Jobs -> Seq(Jobs)]
        /\ todo' \in [Threads -> Seq(Seq(Jobs))]
        /\ pc' = [pc EXCEPT ![w] = "run"]
    <3>1. Typed /\ ex \in {None, "thrown", "canceled", "rejected"}
      BY <1>0, <2>3 DEF Typed
    <3>2. PICK none \in Seq(Seq(Jobs)) : none = <<>>
      BY <2>2
    <3>3. PICK j \in Jobs : j = running[w]
      BY <2>1
    <3>4. w \in Threads /\ Publish(w, j, ex, none)
      BY <2>2, <2>3, <3>2, <3>3
    <3> QED  BY <3>1, <3>4, PublishTyped
  <2>6. pc' \in [Threads -> {"idle", "body", "run", "ready", "enqueue", "end", "register", "gone"}]
    BY <1>0, <2>5 DEF TypeOK
  <2>7. UNCHANGED <<stop, queue, pendingJobs, submitted, returned, remaining, submitOnce, running,
                    cursor, target, terminated>>
    BY <2>4 DEF countVars
  <2> QED  BY <1>0, <2>4, <2>5, <2>6, <2>7 DEF TypeOK
<1>6. ASSUME NEW t \in Threads, RunContinuation(t) PROVE TypeOK'
  <2> DEFINE f == Head(todo[t])
  <2>1. todo[t] \in Seq(Seq(Jobs)) /\ todo[t] # <<>> /\ f # <<>>
    BY <1>0, <1>6 DEF RunContinuation, TypeOK
  <2>2. f \in Seq(Jobs)
    BY <2>1, PopKeeps
  <2>3. Tail(f) \in Seq(Jobs)
    BY <2>1, <2>2, PopKeeps
  <2>4. <<Tail(f)>> \o Tail(todo[t]) \in Seq(Seq(Jobs))
    BY <2>1, <2>3, ReplaceKeeps
  <2>5. Head(f) \in Jobs /\ remaining[Head(f)] \in Nat \ {0}
    BY <2>1, Running
  <2>6. todo' \in [Threads -> Seq(Seq(Jobs))]
    BY <1>0, <1>6, <2>4 DEF RunContinuation, TypeOK
  <2>7. remaining' \in [Jobs -> Nat]
    <3>1. remaining' = [remaining EXCEPT ![Head(f)] = @ - 1]
      BY <1>6 DEF RunContinuation, CountDown
    <3> QED  BY <1>0, <2>5, <3>1 DEF TypeOK
  <2> QED  BY <1>0, <1>6, <2>5, <2>6, <2>7 DEF RunContinuation, CountDown, Goto, TypeOK, stateVars
<1>7. ASSUME NEW t \in Threads, CompleteReturns(t) PROVE TypeOK'
  <2>1. todo[t] # <<>> => Tail(todo[t]) \in Seq(Seq(Jobs))
    BY <1>0, PopKeeps DEF TypeOK
  <2> QED  BY <1>0, <1>7, <2>1 DEF CompleteReturns, Goto, TypeOK, stateVars, countVars
<1>8. ASSUME NEW t \in Threads, SubmitIfReady(t) PROVE TypeOK'
  <2>1. target[t] \in Jobs /\ todo[t] \in Seq(Seq(Jobs))
    BY <1>0, <1>8 DEF SubmitIfReady, TypeOK, ControlOK
  <2>2. submitOnce' \in [Jobs -> BOOLEAN]
    BY <1>0, <1>8 DEF SubmitIfReady, TypeOK
  <2>3. CASE Publish(t, target[t], "canceled", todo[t])
    <3>1. /\ done' \in SUBSET Jobs
          /\ exception' \in [Jobs -> {None, "thrown", "canceled", "rejected"}]
          /\ continuations' \in [Jobs -> Seq(Jobs)]
          /\ todo' \in [Threads -> Seq(Seq(Jobs))]
          /\ pc' = [pc EXCEPT ![t] = "run"]
      BY <1>0, <2>1, <2>3, PublishTyped DEF Typed
    <3> QED  BY <1>0, <1>8, <2>2, <3>1 DEF SubmitIfReady, TypeOK
  <2>4. CASE UNCHANGED <<stateVars, todo>>
    <3>1. pc' \in [Threads -> {"idle", "body", "run", "ready", "enqueue", "end", "register", "gone"}]
      BY <1>0, <1>8 DEF SubmitIfReady, Publish, Goto, TypeOK
    <3> QED  BY <1>0, <1>8, <2>2, <2>4, <3>1 DEF SubmitIfReady, TypeOK, stateVars
  <2> QED  BY <1>8, <2>3, <2>4 DEF SubmitIfReady
<1>9. ASSUME NEW t \in Threads, EnqueueWithState(t) PROVE TypeOK'
  <2>1. target[t] \in Jobs
    BY <1>0, <1>9 DEF EnqueueWithState, Enqueue, TypeOK, ControlOK
  <2> QED  BY <1>0, <1>9, <2>1 DEF EnqueueWithState, Enqueue, Goto, TypeOK, stateVars, countVars, frameVars
<1>10. ASSUME NEW w \in Workers, EnqueueThrows(w) PROVE TypeOK'
  <2>1. running[w] \in Jobs /\ w \in Threads /\ <<>> \in Seq(Seq(Jobs))
    <3>1. w \in Threads /\ <<>> \in Seq(Seq(Jobs))
      BY DEF Threads
    <3>2. running[w] # None
      BY <1>0, <1>10 DEF EnqueueThrows, ControlOK
    <3> QED  BY <1>0, <3>1, <3>2 DEF TypeOK
  <2>2. inCatch' \in [Workers -> BOOLEAN] /\ terminated' \in BOOLEAN
    BY <1>0, <1>10 DEF EnqueueThrows, TypeOK
  <2>3. CASE Publish(w, running[w], "rejected", <<>>)
    <3>1. /\ done' \in SUBSET Jobs
          /\ exception' \in [Jobs -> {None, "thrown", "canceled", "rejected"}]
          /\ continuations' \in [Jobs -> Seq(Jobs)]
          /\ todo' \in [Threads -> Seq(Seq(Jobs))]
          /\ pc' = [pc EXCEPT ![w] = "run"]
      BY <1>0, <2>1, <2>3, PublishTyped DEF Typed
    <3>2. UNCHANGED <<stop, queue, pendingJobs, submitted, returned, countVars, running, cursor, target>>
      BY <1>10 DEF EnqueueThrows
    <3> QED  BY <1>0, <2>2, <3>1, <3>2 DEF TypeOK, countVars
  <2>4. CASE UNCHANGED <<stateVars, todo, inCatch, pc>>
    BY <1>0, <1>10, <2>2, <2>4 DEF EnqueueThrows, TypeOK, stateVars, countVars
  <2> QED  BY <1>10, <2>3, <2>4 DEF EnqueueThrows
<1>11. ASSUME NEW w \in Workers, ExecuteJobEnd(w) PROVE TypeOK'
  <2>1. pendingJobs - 1 \in Nat
    <3>1. w \in Busy
      BY <1>0, <1>11 DEF ExecuteJobEnd, ControlOK, Busy
    <3>2. IsFiniteSet(queue) /\ IsFiniteSet(Busy) /\ pendingJobs = Cardinality(queue) + Cardinality(Busy)
      BY DEF Inv, PendingOK
    <3>3. Cardinality(queue) \in Nat /\ Cardinality(Busy) \in Nat \ {0}
      BY <3>1, <3>2, FS_CardinalityType, FS_EmptySet
    <3> QED  BY <3>2, <3>3
  <2> QED  BY <1>0, <1>11, <2>1 DEF ExecuteJobEnd, Goto, TypeOK, Threads, stateVars, countVars
<1>12. ASSUME NEW w \in Workers, WorkerExits(w) PROVE TypeOK'
  BY <1>0, <1>12 DEF WorkerExits, WorkerLeaves, Goto, TypeOK, Threads, stateVars, countVars, frameVars
<1>13. CASE Destroy
  BY <1>0, <1>13 DEF Destroy, TypeOK, stateVars, countVars, frameVars
<1>14. CASE UNCHANGED vars
  BY <1>0, <1>14 DEF vars, TypeOK, stateVars, countVars, frameVars
<1> QED  BY <1>1, <1>2, <1>3, <1>4, <1>5, <1>6, <1>7, <1>8, <1>9, <1>10, <1>11, <1>12, <1>13, <1>14
            DEF Next, ClientStep, WorkerStep, CommonStep

(* Nothing is taken from a dependency's list to be run by a client: nobody *)
(* has the handle of the job it submits.                                   *)
LEMMA ClientHasNothingToRun ==
  ASSUME Inv, NEW t \in Threads, RunContinuation(t)
  PROVE  t \in Workers
  BY Running DEF RunContinuation

LEMMA ControlNext == Inv /\ [Next]_vars => ControlOK'
<1> SUFFICES ASSUME Inv, [Next]_vars PROVE ControlOK'
  OBVIOUS
<1> USE GraphAssumption DEF Threads, WorkerPc, ClientPc
<1>0. TypeOK /\ ControlOK
  BY DEF Inv, Typed
<1>1. ASSUME NEW c \in Clients, NEW k \in Jobs, SubmitAfter(c, k) PROVE ControlOK'
  <2>1. \A x \in Clients : running[x] # k
    BY <1>0, <1>1 DEF SubmitAfter, CreateJob, TypeOK, ControlOK
  <2>2. /\ pc'[c] \in {"ready", "register"} /\ \A t \in Threads \ {c} : pc'[t] = pc[t]
        /\ running'[c] = k /\ \A t \in Threads \ {c} : running'[t] = running[t]
        /\ target'[c] = k /\ \A t \in Threads \ {c} : target'[t] = target[t]
        /\ cursor'[c] = 1 /\ \A x \in Clients \ {c} : cursor'[x] = cursor[x]
        /\ k # None /\ k \notin returned /\ ~stop
        /\ submitted' = submitted \cup {k}
        /\ UNCHANGED <<stop, returned, todo>>
    BY <1>0, <1>1 DEF SubmitAfter, CreateJob, Goto, TypeOK
  <2>3. todo[c] = <<>>
    BY <1>0, <1>1 DEF SubmitAfter, CreateJob, ControlOK
  <2>4. \A x, y \in Clients : running'[x] = running'[y] /\ running'[x] # None => x = y
    BY <1>0, <2>1, <2>2 DEF ControlOK
  <2>5. \A x \in Clients : pc'[x] # "idle" =>
          cursor'[x] >= 1 /\ running'[x] \in submitted' \ returned'
    BY <1>0, <2>2 DEF ControlOK
  <2>6. \A w \in Workers : /\ pc'[w] \in WorkerPc
                           /\ running'[w] = None <=> pc'[w] \in {"idle", "gone"}
    BY <1>0, <2>2 DEF ControlOK
  <2>7. \A x \in Clients : /\ pc'[x] \in ClientPc
                           /\ running'[x] = None <=> pc'[x] = "idle"
                           /\ target'[x] = running'[x]
                           /\ stop' => pc'[x] = "idle"
    BY <1>0, <2>2 DEF ControlOK
  <2>8. \A t \in Threads : /\ pc'[t] \in {"ready", "enqueue"} => target'[t] # None
                           /\ pc'[t] \in {"run", "ready", "enqueue"} \/ todo'[t] = <<>>
    BY <1>0, <2>2, <2>3 DEF ControlOK
  <2> QED  BY <2>4, <2>5, <2>6, <2>7, <2>8 DEF ControlOK
<1>2. ASSUME NEW c \in Clients, AddContinuation(c) PROVE ControlOK'
  <2>1. /\ cursor' = [cursor EXCEPT ![c] = @ + 1]
        /\ UNCHANGED <<submitted, returned, running, target, stop, todo>>
        /\ pc[c] = "register"
        /\ pc' = pc \/ pc' = [pc EXCEPT ![c] = "ready"] \/ pc' = [pc EXCEPT ![c] = "register"]
    BY <1>2 DEF AddContinuation, CountDown, Goto
  <2>2. /\ pc'[c] \in {"register", "ready"} /\ \A t \in Threads \ {c} : pc'[t] = pc[t]
        /\ cursor'[c] >= 1 /\ \A x \in Clients \ {c} : cursor'[x] = cursor[x]
    BY <1>0, <2>1 DEF TypeOK, ControlOK
  <2>3. running[c] # None /\ target[c] # None /\ ~stop
    BY <1>0, <2>1 DEF ControlOK
  <2> QED  BY <1>0, <2>1, <2>2, <2>3 DEF ControlOK
<1>3. ASSUME NEW c \in Clients, Return(c) PROVE ControlOK'
  BY <1>0, <1>3 DEF Return, Goto, TypeOK, ControlOK
<1>4. ASSUME NEW w \in Workers, NEW j \in Jobs, Start(w, j) PROVE ControlOK'
  BY <1>0, <1>4 DEF Start, Goto, TypeOK, ControlOK
<1>5. ASSUME NEW w \in Workers, BodyEnds(w) PROVE ControlOK'
  <2>1. /\ UNCHANGED <<submitted, returned, running, target, cursor, stop>>
        /\ pc[w] = "body" /\ pc' = [pc EXCEPT ![w] = "run"]
        /\ todo' = [todo EXCEPT ![w] = <<continuations[running[w]]>> \o <<>>]
    BY <1>5 DEF BodyEnds, Publish, Goto
  <2>2. pc'[w] = "run" /\ \A t \in Threads \ {w} : pc'[t] = pc[t] /\ todo'[t] = todo[t]
    BY <1>0, <2>1 DEF TypeOK
  <2> QED  BY <1>0, <2>1, <2>2 DEF ControlOK
<1>6. ASSUME NEW t \in Threads, RunContinuation(t) PROVE ControlOK'
  <2>1. t \in Workers /\ Head(Head(todo[t])) \in Jobs
    BY <1>6, Running DEF RunContinuation
  <2>2. /\ target' = [target EXCEPT ![t] = Head(Head(todo[t]))]
        /\ UNCHANGED <<submitted, returned, running, cursor, stop>>
        /\ pc[t] = "run"
        /\ pc' = [pc EXCEPT ![t] = "ready"] \/ pc' = [pc EXCEPT ![t] = "run"]
    BY <1>6 DEF RunContinuation, CountDown, Goto
  <2>3. /\ target'[t] # None /\ \A x \in Threads \ {t} : target'[x] = target[x]
        /\ pc'[t] \in {"ready", "run"} /\ \A x \in Threads \ {t} : pc'[x] = pc[x]
    BY <1>0, <2>1, <2>2 DEF TypeOK
  <2>4. \A x \in Threads \ {t} : todo'[x] = todo[x]
    BY <1>0, <1>6 DEF RunContinuation, TypeOK
  <2>5. \A w \in Workers : /\ pc'[w] \in WorkerPc
                           /\ running'[w] = None <=> pc'[w] \in {"idle", "gone"}
    BY <1>0, <2>1, <2>2, <2>3 DEF ControlOK
  <2>6. \A x \in Clients : pc'[x] = pc[x] /\ target'[x] = target[x]
    BY <2>1, <2>3
  <2>7. \A x \in Threads : /\ pc'[x] \in {"ready", "enqueue"} => target'[x] # None
                           /\ pc'[x] \in {"run", "ready", "enqueue"} \/ todo'[x] = <<>>
    BY <1>0, <2>3, <2>4 DEF ControlOK
  <2> QED  BY <1>0, <2>2, <2>5, <2>6, <2>7 DEF ControlOK
<1>7. ASSUME NEW t \in Threads, CompleteReturns(t) PROVE ControlOK'
  <2>1. /\ UNCHANGED <<submitted, returned, running, target, cursor, stop>>
        /\ pc[t] = "run"
        /\ pc' = [pc EXCEPT ![t] = IF Len(todo[t]) > 1 THEN "run"
                                  ELSE IF t \in Workers THEN "end" ELSE "register"]
    BY <1>7 DEF CompleteReturns, Goto
  <2>2. pc'[t] # "run" => todo'[t] = <<>>
    <3>1. todo[t] \in Seq(Seq(Jobs))
      BY <1>0 DEF TypeOK
    <3>2. todo[t] # <<>> /\ ~(Len(todo[t]) > 1) => Tail(todo[t]) = <<>>
      BY <3>1
    <3>3. todo'[t] = IF todo[t] = <<>> THEN <<>> ELSE Tail(todo[t])
      BY <1>0, <1>7 DEF CompleteReturns, TypeOK
    <3>4. pc'[t] # "run" => ~(Len(todo[t]) > 1)
      BY <1>0, <2>1 DEF TypeOK
    <3> QED  BY <3>2, <3>3, <3>4
  <2>3. \A x \in Threads \ {t} : todo'[x] = todo[x]
    BY <1>0, <1>7 DEF CompleteReturns, TypeOK
  <2>4. /\ pc'[t] \in {"run", "end", "register"} /\ (pc'[t] = "end" => t \in Workers)
        /\ (pc'[t] = "register" => t \in Clients)
        /\ \A x \in Threads \ {t} : pc'[x] = pc[x]
    BY <1>0, <2>1 DEF TypeOK
  <2> QED  BY <1>0, <2>1, <2>2, <2>3, <2>4 DEF ControlOK
<1>8. ASSUME NEW t \in Threads, SubmitIfReady(t) PROVE ControlOK'
  <2>1. /\ UNCHANGED <<submitted, returned, running, target, cursor, stop>>
        /\ pc[t] = "ready"
        /\ pc' = [pc EXCEPT ![t] = "run"] \/ pc' = [pc EXCEPT ![t] = "enqueue"]
        /\ \A x \in Threads \ {t} : todo'[x] = todo[x]
    BY <1>0, <1>8 DEF SubmitIfReady, Publish, Goto, stateVars, TypeOK
  <2>2. pc'[t] \in {"run", "enqueue"} /\ \A x \in Threads \ {t} : pc'[x] = pc[x]
    BY <1>0, <2>1 DEF TypeOK
  <2> QED  BY <1>0, <2>1, <2>2 DEF ControlOK
<1>9. ASSUME NEW t \in Threads, EnqueueWithState(t) PROVE ControlOK'
  BY <1>0, <1>9 DEF EnqueueWithState, Enqueue, Goto, TypeOK, ControlOK, frameVars
<1>10. ASSUME NEW w \in Workers, EnqueueThrows(w) PROVE ControlOK'
  <2>1. UNCHANGED <<submitted, returned, running, target, cursor, stop>> /\ pc[w] = "enqueue"
    BY <1>10 DEF EnqueueThrows
  <2>2. CASE UNCHANGED <<todo, pc>>
    BY <1>0, <2>1, <2>2 DEF ControlOK
  <2>3. CASE Publish(w, running[w], "rejected", <<>>)
    <3>1. pc'[w] = "run" /\ \A t \in Threads \ {w} : pc'[t] = pc[t] /\ todo'[t] = todo[t]
      BY <1>0, <2>3 DEF Publish, Goto, TypeOK
    <3> QED  BY <1>0, <2>1, <3>1 DEF ControlOK
  <2> QED  BY <1>10, <2>2, <2>3 DEF EnqueueThrows, stateVars
<1>11. ASSUME NEW w \in Workers, ExecuteJobEnd(w) PROVE ControlOK'
  BY <1>0, <1>11 DEF ExecuteJobEnd, Goto, TypeOK, ControlOK
<1>12. ASSUME NEW w \in Workers, WorkerExits(w) PROVE ControlOK'
  BY <1>0, <1>12 DEF WorkerExits, WorkerLeaves, Goto, TypeOK, ControlOK, frameVars
<1>13. CASE Destroy
  BY <1>0, <1>13 DEF Destroy, ControlOK, frameVars
<1>14. CASE UNCHANGED vars
  BY <1>0, <1>14 DEF vars, ControlOK, frameVars
<1> QED  BY <1>1, <1>2, <1>3, <1>4, <1>5, <1>6, <1>7, <1>8, <1>9, <1>10, <1>11, <1>12, <1>13, <1>14
            DEF Next, ClientStep, WorkerStep, CommonStep

-----------------------------------------------------------------------------
LEMMA DepsNext == Inv /\ [Next]_vars => DepsOK'
<1> SUFFICES ASSUME Inv, [Next]_vars PROVE DepsOK'
  OBVIOUS
<1>0. TypeOK /\ ControlOK /\ DepsOK
  BY DEF Inv, Typed
<1>1. ASSUME NEW c \in Clients, NEW k \in Jobs, SubmitAfter(c, k) PROVE DepsOK'
  <2>1. /\ submitted' = submitted \cup {k} /\ returned' = returned /\ k \notin submitted
        /\ ToSet(Deps[k]) \subseteq returned
    BY <1>1 DEF SubmitAfter, CreateJob
  <2>2. ASSUME NEW S \in SUBSET submitted', S # {} PROVE \E j \in S : ToSet(Deps[j]) \cap S = {}
    <3>1. CASE S \ {k} = {}
      BY <1>0, <2>1, <2>2, <3>1 DEF TypeOK
    <3>2. CASE S \ {k} # {}
      <4>1. S \ {k} \in SUBSET submitted
        BY <2>1, <2>2
      <4>2. PICK j \in S \ {k} : ToSet(Deps[j]) \cap (S \ {k}) = {}
        BY <1>0, <3>2, <4>1 DEF DepsOK
      <4>3. ToSet(Deps[j]) \subseteq submitted
        BY <1>0, <4>1, <4>2 DEF DepsOK, TypeOK
      <4> QED  BY <2>1, <4>2, <4>3
    <3> QED  BY <3>1, <3>2
  <2>3. \A j \in submitted' : ToSet(Deps[j]) \subseteq returned'
    BY <1>0, <2>1 DEF DepsOK
  <2> QED  BY <2>2, <2>3 DEF DepsOK
<1>2. ASSUME submitted' = submitted, returned \subseteq returned' PROVE DepsOK'
  BY <1>0, <1>2 DEF DepsOK
<1>3. \/ \E c \in Clients, k \in Jobs : SubmitAfter(c, k)
      \/ submitted' = submitted /\ returned \subseteq returned'
  BY DEF Next, ClientStep, WorkerStep, CommonStep, vars, AddContinuation, Return, Start, BodyEnds,
         RunContinuation, CompleteReturns, SubmitIfReady, EnqueueWithState, Enqueue, EnqueueThrows,
         ExecuteJobEnd, WorkerExits, WorkerLeaves, Destroy
<1> QED  BY <1>1, <1>2, <1>3

-----------------------------------------------------------------------------
(* The stack of a thread: a frame is pushed, popped, or loses its first    *)
(* entry.                                                                  *)

LEMMA EntryPush ==
  ASSUME NEW s \in Seq(Seq(Jobs)), NEW x \in Seq(Jobs), NEW m \in Nat, NEW i \in Nat, NEW k
  PROVE  IsEntry(<<x>> \o s, m, i, k) <=>
           IsEntry(s, m, i, k) \/ (m = Len(s) + 1 /\ i \in 1 .. Len(x) /\ FromEnd(x, i) = k)
<1> DEFINE r == <<x>> \o s
<1>1. /\ Len(s) \in Nat
      /\ Len(r) = Len(s) + 1
      /\ FromEnd(r, Len(s) + 1) = x
      /\ \A n \in 1 .. Len(s) : FromEnd(r, n) = FromEnd(s, n)
  BY PushKeeps
<1> HIDE DEF r
<1>2. IsEntry(r, m, i, k) <=>
        IsEntry(s, m, i, k) \/ (m = Len(s) + 1 /\ i \in 1 .. Len(x) /\ FromEnd(x, i) = k)
  BY <1>1 DEF IsEntry
<1> QED  BY <1>2 DEF r

LEMMA EntryPop ==
  ASSUME NEW s \in Seq(Seq(Jobs)), s # <<>>, Head(s) = <<>>, NEW m \in Nat, NEW i \in Nat, NEW k
  PROVE  IsEntry(Tail(s), m, i, k) <=> IsEntry(s, m, i, k)
<1> DEFINE r == Tail(s)
<1>1. /\ Len(s) \in Nat \ {0}
      /\ Len(r) = Len(s) - 1
      /\ FromEnd(s, Len(s)) = <<>>
      /\ \A n \in 1 .. Len(s) - 1 : FromEnd(r, n) = FromEnd(s, n)
  BY PopKeeps
<1> HIDE DEF r
<1>2. IsEntry(r, m, i, k) <=> IsEntry(s, m, i, k)
  BY <1>1 DEF IsEntry
<1> QED  BY <1>2 DEF r

LEMMA EntryNext ==
  ASSUME NEW s \in Seq(Seq(Jobs)), s # <<>>, Head(s) # <<>>, NEW m \in Nat, NEW i \in Nat, NEW k
  PROVE  IsEntry(<<Tail(Head(s))>> \o Tail(s), m, i, k) <=>
           IsEntry(s, m, i, k) /\ ~(m = Len(s) /\ i = Len(Head(s)))
<1> DEFINE f == Head(s)
           g == Tail(f)
           r == <<g>> \o Tail(s)
<1>1. f \in Seq(Jobs) /\ f = FromEnd(s, Len(s)) /\ Len(s) \in Nat \ {0}
  BY PopKeeps
<1>2. /\ g \in Seq(Jobs)
      /\ Len(f) \in Nat \ {0} /\ Len(g) = Len(f) - 1
      /\ \A n \in 1 .. Len(f) - 1 : FromEnd(g, n) = FromEnd(f, n)
  BY <1>1, PopKeeps
<1> HIDE DEF f, g
<1>3. /\ Len(r) = Len(s)
      /\ FromEnd(r, Len(s)) = g
      /\ \A n \in 1 .. Len(s) - 1 : FromEnd(r, n) = FromEnd(s, n)
  BY <1>2, ReplaceKeeps
<1> HIDE DEF r
<1>4. IsEntry(r, m, i, k) <=> IsEntry(s, m, i, k) /\ ~(m = Len(s) /\ i = Len(f))
  <2>1. CASE m \in 1 .. Len(s) - 1
    BY <1>1, <1>3, <2>1 DEF IsEntry
  <2>2. CASE m = Len(s)
    <3>1. IsEntry(r, m, i, k) <=> i \in 1 .. Len(g) /\ FromEnd(g, i) = k
      BY <1>1, <1>3, <2>2 DEF IsEntry
    <3>2. IsEntry(s, m, i, k) <=> i \in 1 .. Len(f) /\ FromEnd(f, i) = k
      BY <1>1, <2>2 DEF IsEntry
    <3>3. i \in 1 .. Len(g) <=> i \in 1 .. Len(f) /\ i # Len(f)
      BY <1>2
    <3> QED  BY <1>2, <2>2, <3>1, <3>2, <3>3
  <2>3. CASE m \notin 1 .. Len(s)
    BY <1>1, <1>3, <2>3 DEF IsEntry
  <2> QED  BY <1>1, <2>1, <2>2, <2>3
<1> QED  BY <1>4 DEF f, g, r

(* The same for what is taken.                                             *)
Fresh(t, x, k) == {p \in {t} \X {Len(todo[t]) + 1} \X Nat : p[3] \in 1 .. Len(x) /\ FromEnd(x, p[3]) = k}

LEMMA TakenPush ==
  ASSUME TypeOK, NEW t \in Threads, NEW x \in Seq(Jobs),
         todo' = [todo EXCEPT ![t] = <<x>> \o todo[t]], NEW k
  PROVE  /\ Taken(k)' = Taken(k) \cup Fresh(t, x, k)
         /\ Taken(k) \cap Fresh(t, x, k) = {}
<1> DEFINE r == <<x>> \o todo[t]
<1>1. todo[t] \in Seq(Seq(Jobs)) /\ Len(todo[t]) \in Nat
  BY DEF TypeOK
<1>2. \A m, i \in Nat : IsEntry(r, m, i, k) <=>
        IsEntry(todo[t], m, i, k) \/ (m = Len(todo[t]) + 1 /\ i \in 1 .. Len(x) /\ FromEnd(x, i) = k)
  BY <1>1, EntryPush
<1>3. todo'[t] = r /\ \A u \in Threads : u # t => todo'[u] = todo[u]
  BY DEF TypeOK
<1> HIDE DEF r
<1>4. ASSUME NEW u \in Threads, NEW m \in Nat, NEW i \in Nat
      PROVE  /\ <<u, m, i>> \in Taken(k)' <=> <<u, m, i>> \in Taken(k) \/ <<u, m, i>> \in Fresh(t, x, k)
             /\ ~(<<u, m, i>> \in Taken(k) /\ <<u, m, i>> \in Fresh(t, x, k))
  <2>1. <<u, m, i>> \in Fresh(t, x, k) <=>
          u = t /\ m = Len(todo[t]) + 1 /\ i \in 1 .. Len(x) /\ FromEnd(x, i) = k
    BY DEF Fresh
  <2>2. /\ <<u, m, i>> \in Taken(k) <=> IsEntry(todo[u], m, i, k)
        /\ <<u, m, i>> \in Taken(k)' <=> IsEntry(todo'[u], m, i, k)
    BY DEF Taken
  <2>3. IsEntry(todo[t], m, i, k) => m <= Len(todo[t])
    BY <1>1 DEF IsEntry
  <2>4. CASE u = t
    <3>1. IsEntry(todo'[u], m, i, k) <=>
            IsEntry(todo[u], m, i, k) \/ (m = Len(todo[t]) + 1 /\ i \in 1 .. Len(x) /\ FromEnd(x, i) = k)
      BY <1>2, <1>3, <2>4
    <3>2. ~(IsEntry(todo[u], m, i, k) /\ m = Len(todo[t]) + 1)
      BY <1>1, <2>3, <2>4
    <3> QED  BY <2>1, <2>2, <2>4, <3>1, <3>2
  <2>5. CASE u # t
    BY <1>3, <2>1, <2>2, <2>5
  <2> QED  BY <2>4, <2>5
<1>5. /\ Taken(k) \subseteq Threads \X Nat \X Nat
      /\ Taken(k)' \subseteq Threads \X Nat \X Nat
      /\ Fresh(t, x, k) \subseteq Threads \X Nat \X Nat
  BY <1>1 DEF Taken, Fresh
<1>6. \A p \in Threads \X Nat \X Nat : \E u \in Threads, m, i \in Nat : p = <<u, m, i>>
  OBVIOUS
<1> QED  BY <1>4, <1>5, <1>6

LEMMA TakenPop ==
  ASSUME TypeOK, NEW t \in Threads, todo[t] # <<>>, Head(todo[t]) = <<>>,
         todo' = [todo EXCEPT ![t] = Tail(todo[t])], NEW k
  PROVE  Taken(k)' = Taken(k)
<1>1. \A m, i \in Nat : IsEntry(Tail(todo[t]), m, i, k) <=> IsEntry(todo[t], m, i, k)
  BY EntryPop DEF TypeOK
<1>2. \A u \in Threads : todo'[u] = IF u = t THEN Tail(todo[t]) ELSE todo[u]
  BY DEF TypeOK
<1>3. \A u \in Threads : \A m, i \in Nat : IsEntry(todo'[u], m, i, k) <=> IsEntry(todo[u], m, i, k)
  BY <1>1, <1>2
<1> QED  BY <1>3 DEF Taken

LEMMA TakenNext ==
  ASSUME TypeOK, NEW t \in Threads, todo[t] # <<>>, Head(todo[t]) # <<>>,
         todo' = [todo EXCEPT ![t] = <<Tail(Head(todo[t]))>> \o Tail(todo[t])], NEW k
  PROVE  Taken(k)' = Taken(k) \ {<<t, Len(todo[t]), Len(Head(todo[t]))>>}
<1> DEFINE r == <<Tail(Head(todo[t]))>> \o Tail(todo[t])
           p == <<t, Len(todo[t]), Len(Head(todo[t]))>>
<1>1. \A m, i \in Nat : IsEntry(r, m, i, k) <=>
        IsEntry(todo[t], m, i, k) /\ ~(m = Len(todo[t]) /\ i = Len(Head(todo[t])))
  BY EntryNext DEF TypeOK
<1>2. \A u \in Threads : todo'[u] = IF u = t THEN r ELSE todo[u]
  BY DEF TypeOK
<1> HIDE DEF r
<1>3. ASSUME NEW u \in Threads, NEW m \in Nat, NEW i \in Nat
      PROVE  <<u, m, i>> \in Taken(k)' <=> <<u, m, i>> \in Taken(k) /\ <<u, m, i>> # p
  <2>1. /\ <<u, m, i>> \in Taken(k) <=> IsEntry(todo[u], m, i, k)
        /\ <<u, m, i>> \in Taken(k)' <=> IsEntry(todo'[u], m, i, k)
    BY DEF Taken
  <2> QED  BY <1>1, <1>2, <2>1
<1>4. Taken(k) \subseteq Threads \X Nat \X Nat /\ Taken(k)' \subseteq Threads \X Nat \X Nat
  BY DEF Taken
<1>5. \A q \in Threads \X Nat \X Nat : \E u \in Threads, m, i \in Nat : q = <<u, m, i>>
  OBVIOUS
<1> QED  BY <1>3, <1>4, <1>5

-----------------------------------------------------------------------------
(* Entries are neither lost nor invented: LinksOK and CountOK.             *)

LEMMA SameEntries ==
  ASSUME Inv,
         \A k \in Jobs : /\ Stored(k)' = Stored(k) /\ Taken(k)' = Taken(k)
                         /\ Unread(k)' = Unread(k),
         UNCHANGED <<submitted, done, remaining>>,
         ~stop' => ~stop
  PROVE  LinksOK' /\ CountOK'
<1>1. LinksOK /\ CountOK /\ submitted \subseteq Jobs
  BY DEF Inv, Typed, TypeOK
<1>2. LinksOK'
  BY <1>1 DEF LinksOK
<1>3. \A k \in submitted : Owed(k)' = Owed(k)
  BY <1>1 DEF Owed
<1>4. CountOK'
  BY <1>1, <1>3 DEF CountOK
<1> QED  BY <1>2, <1>4

LEMMA SameUnread ==
  ASSUME UNCHANGED cursor, \A c \in Clients : running'[c] = running[c], NEW k
  PROVE  Unread(k)' = Unread(k)
  BY DEF Unread

LEMMA QuietEntries ==
  ASSUME Inv, UNCHANGED <<continuations, todo, cursor, submitted, done, remaining>>,
         \A c \in Clients : running'[c] = running[c],
         ~stop' => ~stop
  PROVE  LinksOK' /\ CountOK'
<1>1. \A k \in Jobs : Unread(k)' = Unread(k)
  BY SameUnread
<1>2. \A k \in Jobs : Stored(k)' = Stored(k) /\ Taken(k)' = Taken(k)
  BY DEF Stored, Taken
<1> QED  BY <1>1, <1>2, SameEntries

(* The dependencies a new job has to look at.                              *)
LEMMA ColumnCount ==
  ASSUME NEW c, NEW n \in Nat
  PROVE  IsFiniteSet({c} \X (1 .. n)) /\ Cardinality({c} \X (1 .. n)) = n
<1> DEFINE f == [i \in 1 .. n |-> <<c, i>>]
<1>1. f \in Bijection(1 .. n, {c} \X (1 .. n))
  <2>1. f \in [1 .. n -> {c} \X (1 .. n)]
    OBVIOUS
  <2>2. \A i, m \in 1 .. n : f[i] = f[m] => i = m
    OBVIOUS
  <2>3. \A p \in {c} \X (1 .. n) : p[2] \in 1 .. n /\ f[p[2]] = p
    OBVIOUS
  <2> HIDE DEF f
  <2> QED  BY <2>1, <2>2, <2>3 DEF Bijection, Injection, IsInjective, Surjection
<1>2. IsFiniteSet(1 .. n) /\ Cardinality(1 .. n) = n
  BY FS_Interval
<1> QED  BY <1>1, <1>2, FS_Bijection DEF ExistsBijection

LEMMA CreateEntries ==
  ASSUME Inv, NEW c \in Clients, NEW k \in Jobs, SubmitAfter(c, k)
  PROVE  LinksOK' /\ CountOK'
<1> USE GraphAssumption
<1>0. TypeOK /\ ControlOK /\ LinksOK /\ CountOK
  BY DEF Inv, Typed
<1>1. /\ k \notin submitted /\ submitted' = submitted \cup {k} /\ pc[c] = "idle"
      /\ UNCHANGED <<stop, done, continuations, todo>>
      /\ remaining' = [remaining EXCEPT ![k] = Len(Deps[k])]
      /\ running' = [running EXCEPT ![c] = k]
      /\ cursor' = [cursor EXCEPT ![c] = 1]
  BY DEF SubmitAfter, CreateJob, stateVars
<1>2. \A x \in Jobs : Stored(x)' = Stored(x) /\ Taken(x)' = Taken(x)
  BY <1>1 DEF Stored, Taken
<1>3. /\ running'[c] = k /\ \A x \in Clients \ {c} : running'[x] = running[x] /\ running[x] # k
      /\ cursor'[c] = 1 /\ \A x \in Clients \ {c} : cursor'[x] = cursor[x]
      /\ running[c] = None
  BY <1>0, <1>1 DEF TypeOK, ControlOK, Threads
<1>4. \A x \in Jobs \ {k} : Unread(x)' = Unread(x)
  <2>1. ASSUME NEW x \in Jobs \ {k}, NEW p \in Clients \X Nat PROVE p \in Unread(x)' <=> p \in Unread(x)
    <3>1. CASE p[1] = c
      BY <1>3, <2>1, <3>1 DEF Unread
    <3>2. CASE p[1] # c
      BY <1>3, <3>2 DEF Unread
    <3> QED  BY <3>1, <3>2
  <2> QED  BY <2>1 DEF Unread
<1>5. Unread(k)' = {c} \X (1 .. Len(Deps[k]))
  <2>1. ASSUME NEW y \in Clients, NEW i \in Nat
        PROVE  <<y, i>> \in Unread(k)' <=> y = c /\ i \in 1 .. Len(Deps[k])
    BY <1>3 DEF Unread
  <2>2. Unread(k)' \subseteq Clients \X Nat /\ {c} \X (1 .. Len(Deps[k])) \subseteq Clients \X Nat
    BY DEF Unread
  <2> QED  BY <2>1, <2>2
<1>6. Len(Deps[k]) \in Nat
  OBVIOUS
<1>7. Stored(k) = {} /\ Taken(k) = {}
  BY <1>0, <1>1 DEF LinksOK
<1>8. LinksOK'
  <2>1. ASSUME NEW i \in 1 .. Len(Deps[k]) PROVE \E p \in Unread(k)' : p[2] = i
    <3>1. <<c, i>> \in {c} \X (1 .. Len(Deps[k]))
      BY <2>1
    <3> QED  BY <1>5, <3>1
  <2>2. \A x \in Jobs : /\ \A p \in Stored(x)' : p[1] \notin done' /\ p[1] \in ToSet(Deps[x]) /\ x \in submitted'
                        /\ \A p \in Taken(x)' : p[1] \in Workers /\ x \in submitted'
    BY <1>0, <1>1, <1>2 DEF LinksOK
  <2>3. ASSUME NEW x \in Jobs, x \in submitted', NEW i \in 1 .. Len(Deps[x])
        PROVE  \/ Deps[x][i] \in done'
               \/ \E p \in Stored(x)' : p[1] = Deps[x][i]
               \/ \E p \in Unread(x)' : p[2] = i
    <3>1. CASE x = k
      BY <2>1, <2>3, <3>1
    <3>2. CASE x # k
      <4>1. x \in submitted /\ Unread(x)' = Unread(x) /\ Stored(x)' = Stored(x)
        BY <1>1, <1>2, <1>4, <2>3, <3>2
      <4>2. \/ Deps[x][i] \in done
            \/ \E p \in Stored(x) : p[1] = Deps[x][i]
            \/ \E p \in Unread(x) : p[2] = i
        BY <1>0, <2>3, <4>1 DEF LinksOK
      <4> QED  BY <1>1, <4>1, <4>2
    <3> QED  BY <3>1, <3>2
  <2> QED  BY <2>2, <2>3 DEF LinksOK
<1>9. CountOK'
  <2>1. ASSUME NEW x \in submitted
        PROVE  /\ x # k /\ x \in Jobs /\ remaining'[x] = remaining[x]
               /\ Stored(x)' = Stored(x) /\ Taken(x)' = Taken(x) /\ Unread(x)' = Unread(x)
    BY <1>0, <1>1, <1>2, <1>4 DEF TypeOK
  <2>2. /\ IsFiniteSet(Stored(k)') /\ IsFiniteSet(Taken(k)') /\ IsFiniteSet(Unread(k)')
        /\ Owed(k)' = remaining'[k]
    <3>1. IsFiniteSet(Unread(k)') /\ Cardinality(Unread(k)') = Len(Deps[k])
      <4>1. LET U == {c} \X (1 .. Len(Deps[k]))
            IN  IsFiniteSet(U) /\ Cardinality(U) = Len(Deps[k])
        BY <1>6, ColumnCount
      <4> QED  BY <1>5, <4>1
    <3>2. remaining'[k] = Len(Deps[k])
      BY <1>0, <1>1 DEF TypeOK
    <3>3. Stored(k)' = {} /\ Taken(k)' = {}
      BY <1>2, <1>7
    <3>4. /\ IsFiniteSet(Stored(k)') /\ IsFiniteSet(Taken(k)')
          /\ Cardinality(Stored(k)') = 0 /\ Cardinality(Taken(k)') = 0
      BY <3>3, FS_EmptySet
    <3> QED  BY <1>6, <3>1, <3>2, <3>4 DEF Owed
  <2>3. \A x \in submitted : Owed(x)' = Owed(x)
    BY <2>1 DEF Owed
  <2>4. remaining'[k] \in Nat
    BY <1>0, <1>1, <1>6 DEF TypeOK
  <2> QED  BY <1>0, <1>1, <2>1, <2>2, <2>3, <2>4 DEF CountOK
<1> QED  BY <1>8, <1>9

(* The client has looked at one more dependency.                           *)
LEMMA UnreadNext ==
  ASSUME Inv, NEW c \in Clients, AddContinuation(c), NEW x \in Jobs
  PROVE  Unread(x)' = IF x = running[c] THEN Unread(x) \ {<<c, cursor[c]>>} ELSE Unread(x)
<1> DEFINE k == running[c]
<1>0. TypeOK
  BY DEF Inv, Typed
<1>1. /\ running' = running /\ cursor' = [cursor EXCEPT ![c] = @ + 1]
      /\ cursor[c] <= Len(Deps[k]) /\ pc[c] = "register"
  BY DEF AddContinuation
<1>2. cursor'[c] = cursor[c] + 1 /\ \A y \in Clients \ {c} : cursor'[y] = cursor[y]
  BY <1>0, <1>1 DEF TypeOK
<1>3. cursor[c] \in Nat
  BY <1>0 DEF TypeOK
<1>4. k \in Jobs /\ Len(Deps[k]) \in Nat
  <2>1. k \in Jobs
    BY <1>1, Registering
  <2> QED  BY <2>1, GraphAssumption
<1>5. ASSUME NEW y \in Clients, NEW i \in Nat
      PROVE  <<y, i>> \in Unread(x)' <=> <<y, i>> \in Unread(x) /\ ~(x = k /\ y = c /\ i = cursor[c])
  <2>1. /\ <<y, i>> \in Unread(x)' <=> running[y] = x /\ i \in cursor'[y] .. Len(Deps[x])
        /\ <<y, i>> \in Unread(x) <=> running[y] = x /\ i \in cursor[y] .. Len(Deps[x])
    BY <1>1 DEF Unread
  <2>2. CASE y # c
    BY <1>2, <2>1, <2>2
  <2>3. CASE y = c /\ x # k
    BY <2>1, <2>3
  <2>4. CASE y = c /\ x = k
    BY <1>2, <1>3, <1>4, <2>1, <2>4
  <2> QED  BY <2>2, <2>3, <2>4
<1>6. Unread(x) \subseteq Clients \X Nat /\ Unread(x)' \subseteq Clients \X Nat
  BY DEF Unread
<1> QED  BY <1>5, <1>6

LEMMA RegisterEntries ==
  ASSUME Inv, NEW c \in Clients, AddContinuation(c)
  PROVE  LinksOK' /\ CountOK'
<1>0. TypeOK /\ LinksOK /\ CountOK
  BY DEF Inv, Typed
<1>1. PICK k \in Jobs : k = running[c]
  BY Registering DEF AddContinuation
<1>2. PICK n \in Nat : n = cursor[c]
  BY <1>0 DEF TypeOK
<1>3. PICK d \in Jobs : d = Deps[k][n]
  BY <1>1, <1>2, Registering DEF AddContinuation
<1> DEFINE e == <<c, n>>
<1>4. /\ k \in submitted /\ d \in ToSet(Deps[k])
      /\ n \in 1 .. Len(Deps[k])
      /\ e \in Unread(k)
      /\ remaining[k] \in Nat \ {0}
  BY <1>1, <1>2, <1>3, Registering DEF AddContinuation
<1>5. \A x \in Jobs : Unread(x)' = IF x = k THEN Unread(x) \ {e} ELSE Unread(x)
  BY <1>1, <1>2, UnreadNext
<1> HIDE DEF e
<1>6. UNCHANGED <<stop, submitted, done, todo>>
  BY DEF AddContinuation
<1>7. \A x \in Jobs : Taken(x)' = Taken(x)
  BY <1>6 DEF Taken
<1>8. /\ IsFiniteSet(Stored(k)) /\ IsFiniteSet(Taken(k)) /\ IsFiniteSet(Unread(k))
      /\ Owed(k) <= remaining[k]
      /\ ~stop => Owed(k) = remaining[k]
  BY <1>0, <1>4 DEF CountOK
<1>9. /\ Cardinality(Stored(k)) \in Nat /\ Cardinality(Taken(k)) \in Nat
      /\ Cardinality(Unread(k)) \in Nat
  BY <1>8, FS_CardinalityType
<1>10. /\ IsFiniteSet(Unread(k)') /\ Cardinality(Unread(k)') = Cardinality(Unread(k)) - 1
  BY <1>4, <1>5, <1>8, FS_RemoveElement
<1>11. CASE d \in done /\ CountDown(c, k, "register") /\ UNCHANGED continuations
  <2>1. \A x \in Jobs : Stored(x)' = Stored(x)
    BY <1>11 DEF Stored
  <2>2. LinksOK'
    <3>1. ASSUME NEW x \in Jobs, x \in submitted, NEW i \in 1 .. Len(Deps[x])
          PROVE  \/ Deps[x][i] \in done
                 \/ \E p \in Stored(x) : p[1] = Deps[x][i]
                 \/ \E p \in Unread(x)' : p[2] = i
      <4>1. \/ Deps[x][i] \in done
            \/ \E p \in Stored(x) : p[1] = Deps[x][i]
            \/ \E p \in Unread(x) : p[2] = i
        BY <1>0, <3>1 DEF LinksOK
      <4>2. CASE x = k /\ i = n
        BY <1>11, <1>3, <4>2
      <4>3. CASE ~(x = k /\ i = n)
        <5>1. \A p \in Unread(x) : p[2] = i => p \in Unread(x)'
          BY <1>5, <4>3 DEF e
        <5> QED  BY <4>1, <5>1
      <4> QED  BY <4>2, <4>3
    <3> QED  BY <1>0, <1>6, <1>7, <2>1, <3>1 DEF LinksOK
  <2>3. remaining' = [remaining EXCEPT ![k] = @ - 1]
    BY <1>11 DEF CountDown
  <2>4. ASSUME NEW x \in submitted
        PROVE  /\ IsFiniteSet(Stored(x)') /\ IsFiniteSet(Taken(x)') /\ IsFiniteSet(Unread(x)')
               /\ Owed(x)' <= remaining'[x]
               /\ ~stop => Owed(x)' = remaining'[x]
    <3>0. x \in Jobs
      BY <1>0 DEF TypeOK
    <3>1. CASE x = k
      <4>1. remaining'[k] = remaining[k] - 1
        BY <1>0, <1>4, <2>3 DEF TypeOK
      <4>2. Owed(k)' = Owed(k) - 1
        BY <1>7, <1>9, <1>10, <2>1 DEF Owed
      <4>3. Owed(k) \in Nat
        BY <1>9 DEF Owed
      <4> QED  BY <1>4, <1>7, <1>8, <1>10, <2>1, <3>1, <4>1, <4>2, <4>3
    <3>2. CASE x # k
      <4>1. /\ Stored(x)' = Stored(x) /\ Taken(x)' = Taken(x) /\ Unread(x)' = Unread(x)
            /\ remaining'[x] = remaining[x]
        BY <1>0, <1>5, <1>7, <2>1, <2>3, <3>0, <3>2 DEF TypeOK
      <4> QED  BY <1>0, <4>1 DEF CountOK, Owed
    <3> QED  BY <3>1, <3>2
  <2> QED  BY <1>6, <2>2, <2>4 DEF CountOK
<1>12. CASE /\ d \notin done /\ UNCHANGED <<remaining, pc>>
           /\ continuations' = [continuations EXCEPT ![d] = Append(@, k)]
  <2>0. PICK l \in Nat : l = Len(continuations[d]) + 1
    BY <1>0 DEF TypeOK
  <2>1. continuations[d] \in Seq(Jobs)
    BY <1>0, <1>4 DEF TypeOK
  <2>2. ASSUME NEW x \in Jobs, NEW y \in Jobs, NEW i \in Nat
        PROVE  <<y, i>> \in Stored(x)' <=> <<y, i>> \in Stored(x) \/ (x = k /\ y = d /\ i = l)
    <3>1. /\ <<y, i>> \in Stored(x) <=> i \in 1 .. Len(continuations[y]) /\ continuations[y][i] = x
          /\ <<y, i>> \in Stored(x)' <=> i \in 1 .. Len(continuations'[y]) /\ continuations'[y][i] = x
      BY DEF Stored
    <3>2. CASE y = d
      <4>1. continuations'[d] = Append(continuations[d], k)
        BY <1>0, <1>4, <1>12 DEF TypeOK
      <4>2. /\ Len(continuations'[d]) = l
            /\ continuations'[d][l] = k
            /\ \A m \in 1 .. l - 1 : continuations'[d][m] = continuations[d][m]
        BY <2>0, <2>1, <4>1
      <4> QED  BY <2>0, <2>1, <3>1, <3>2, <4>2
    <3>3. CASE y # d
      BY <1>0, <1>12, <3>1, <3>3 DEF TypeOK
    <3> QED  BY <3>2, <3>3
  <2>3. <<d, l>> \notin Stored(k)
    BY <2>0, <2>1 DEF Stored
  <2>4. \A x \in Jobs : Stored(x)' = IF x = k THEN Stored(x) \cup {<<d, l>>} ELSE Stored(x)
    <3>1. \A x \in Jobs : Stored(x) \subseteq Jobs \X Nat /\ Stored(x)' \subseteq Jobs \X Nat
      BY DEF Stored
    <3>2. ASSUME NEW x \in Jobs, x # k PROVE Stored(x)' = Stored(x)
      <4>1. \A y \in Jobs, i \in Nat : <<y, i>> \in Stored(x)' <=> <<y, i>> \in Stored(x)
        BY <2>2, <3>2
      <4>2. Stored(x) \subseteq Jobs \X Nat /\ Stored(x)' \subseteq Jobs \X Nat
        BY <3>1
      <4> QED  BY <4>1, <4>2
    <3>3. Stored(k)' = Stored(k) \cup {<<d, l>>}
      <4>1. \A y \in Jobs, i \in Nat :
              <<y, i>> \in Stored(k)' <=> <<y, i>> \in Stored(k) \cup {<<d, l>>}
        BY <2>2
      <4>2. Stored(k) \cup {<<d, l>>} \subseteq Jobs \X Nat
        BY <3>1
      <4> QED  BY <3>1, <4>1, <4>2
    <3> QED  BY <3>2, <3>3
  <2>5. LinksOK'
    <3>1. ASSUME NEW x \in Jobs, x \in submitted, NEW i \in 1 .. Len(Deps[x])
          PROVE  \/ Deps[x][i] \in done
                 \/ \E p \in Stored(x)' : p[1] = Deps[x][i]
                 \/ \E p \in Unread(x)' : p[2] = i
      <4>1. \/ Deps[x][i] \in done
            \/ \E p \in Stored(x) : p[1] = Deps[x][i]
            \/ \E p \in Unread(x) : p[2] = i
        BY <1>0, <3>1 DEF LinksOK
      <4>2. CASE x = k /\ i = n
        <5>1. <<d, l>> \in Stored(k)'
          BY <2>4
        <5> QED  BY <1>3, <4>2, <5>1
      <4>3. CASE ~(x = k /\ i = n)
        <5>1. \A p \in Unread(x) : p[2] = i => p \in Unread(x)'
          BY <1>5, <4>3 DEF e
        <5> QED  BY <2>4, <4>1, <5>1
      <4> QED  BY <4>2, <4>3
    <3>2. ASSUME NEW x \in Jobs, NEW p \in Stored(x)'
          PROVE  p[1] \notin done /\ p[1] \in ToSet(Deps[x]) /\ x \in submitted
      BY <1>0, <1>4, <1>12, <2>4, <3>2 DEF LinksOK
    <3> QED  BY <1>0, <1>6, <1>7, <3>1, <3>2 DEF LinksOK
  <2>6. ASSUME NEW x \in submitted
        PROVE  /\ IsFiniteSet(Stored(x)') /\ IsFiniteSet(Taken(x)') /\ IsFiniteSet(Unread(x)')
               /\ Owed(x)' <= remaining[x]
               /\ ~stop => Owed(x)' = remaining[x]
    <3>0. x \in Jobs
      BY <1>0 DEF TypeOK
    <3>1. CASE x = k
      <4>1. IsFiniteSet(Stored(k)') /\ Cardinality(Stored(k)') = Cardinality(Stored(k)) + 1
        BY <1>8, <2>3, <2>4, FS_AddElement
      <4>2. Owed(k)' = Owed(k)
        BY <1>7, <1>9, <1>10, <4>1 DEF Owed
      <4> QED  BY <1>7, <1>8, <1>10, <3>1, <4>1, <4>2
    <3>2. CASE x # k
      <4>1. Stored(x)' = Stored(x) /\ Taken(x)' = Taken(x) /\ Unread(x)' = Unread(x)
        BY <1>5, <1>7, <2>4, <3>0, <3>2
      <4> QED  BY <1>0, <4>1 DEF CountOK, Owed
    <3> QED  BY <3>1, <3>2
  <2> QED  BY <1>6, <1>12, <2>5, <2>6 DEF CountOK
<1> QED  BY <1>11, <1>12, <1>1, <1>2, <1>3 DEF AddContinuation

LEMMA RunEntries ==
  ASSUME Inv, NEW t \in Threads, RunContinuation(t)
  PROVE  LinksOK' /\ CountOK'
<1>0. TypeOK /\ LinksOK /\ CountOK
  BY DEF Inv, Typed
<1>1. PICK k \in Jobs : k = Head(Head(todo[t]))
  BY Running DEF RunContinuation
<1>2. PICK e : e = <<t, Len(todo[t]), Len(Head(todo[t]))>>
  OBVIOUS
<1>3. k \in submitted /\ e \in Taken(k) /\ remaining[k] \in Nat \ {0}
  BY <1>1, <1>2, Running DEF RunContinuation
<1>4. \A x \in Jobs : Taken(x)' = Taken(x) \ {e}
  BY <1>0, <1>2, TakenNext DEF RunContinuation
<1>5. \A x \in Jobs \ {k} : e \notin Taken(x)
  BY <1>3 DEF Taken, IsEntry
<1>6. /\ UNCHANGED <<stop, submitted, done, continuations, cursor, running>>
      /\ remaining' = [remaining EXCEPT ![k] = @ - 1]
  BY <1>1 DEF RunContinuation, CountDown, stateVars
<1>7. \A x \in Jobs : Stored(x)' = Stored(x) /\ Unread(x)' = Unread(x)
  BY <1>6 DEF Stored, Unread
<1>8. LinksOK'
  BY <1>0, <1>4, <1>6, <1>7 DEF LinksOK
<1>9. ASSUME NEW x \in submitted
      PROVE  /\ IsFiniteSet(Stored(x)') /\ IsFiniteSet(Taken(x)') /\ IsFiniteSet(Unread(x)')
             /\ Owed(x)' <= remaining'[x]
             /\ ~stop => Owed(x)' = remaining'[x]
  <2>0. x \in Jobs
    BY <1>0 DEF TypeOK
  <2>1. CASE x = k
    <3>0. /\ IsFiniteSet(Stored(k)) /\ IsFiniteSet(Taken(k)) /\ IsFiniteSet(Unread(k))
          /\ Owed(k) <= remaining[k]
          /\ ~stop => Owed(k) = remaining[k]
      BY <1>0, <1>3 DEF CountOK
    <3>1. IsFiniteSet(Taken(k)') /\ Cardinality(Taken(k)') = Cardinality(Taken(k)) - 1
      BY <1>3, <1>4, <3>0, FS_RemoveElement
    <3>2. /\ Cardinality(Stored(k)) \in Nat /\ Cardinality(Taken(k)) \in Nat
          /\ Cardinality(Unread(k)) \in Nat
      BY <3>0, FS_CardinalityType
    <3>3. remaining'[k] = remaining[k] - 1
      BY <1>0, <1>3, <1>6 DEF TypeOK
    <3>4. Owed(k)' = Owed(k) - 1 /\ Owed(k) \in Nat
      BY <1>7, <3>1, <3>2 DEF Owed
    <3> QED  BY <1>3, <1>7, <2>1, <3>0, <3>1, <3>3, <3>4
  <2>2. CASE x # k
    <3>1. /\ Stored(x)' = Stored(x) /\ Taken(x)' = Taken(x) /\ Unread(x)' = Unread(x)
          /\ remaining'[x] = remaining[x]
      BY <1>0, <1>4, <1>5, <1>6, <1>7, <2>0, <2>2 DEF TypeOK
    <3> QED  BY <1>0, <3>1 DEF CountOK, Owed
  <2> QED  BY <2>1, <2>2
<1> QED  BY <1>6, <1>8, <1>9 DEF CountOK

-----------------------------------------------------------------------------
(* CompleteJobState takes the continuations of a job that was not done.    *)
Moved(j, k) == {p \in Stored(k) : p[1] = j}

LEMMA MovedCount ==
  ASSUME TypeOK, NEW t \in Threads, NEW j \in Jobs, NEW k
  PROVE  ExistsBijection(Moved(j, k), Fresh(t, continuations[j], k))
<1> DEFINE x == continuations[j]
           n == Len(x)
           M == Moved(j, k)
           N == Fresh(t, x, k)
           m == Len(todo[t]) + 1
           f == [p \in M |-> <<t, m, n + 1 - p[2]>>]
<1>1. n \in Nat /\ m \in Nat
  BY DEF TypeOK
<1>2. ASSUME NEW i \in Nat
      PROVE  /\ <<j, i>> \in M <=> i \in 1 .. n /\ x[i] = k
             /\ <<t, m, i>> \in N <=> i \in 1 .. n /\ x[n + 1 - i] = k
  BY DEF Moved, Stored, Fresh, FromEnd
<1>3. \A p \in M : p = <<j, p[2]>> /\ p[2] \in 1 .. n
  BY DEF Moved, Stored
<1>4. \A p \in N : p = <<t, m, p[3]>> /\ p[3] \in 1 .. n
  BY DEF Fresh
<1> HIDE DEF M, N, x, n, m
<1>5. ASSUME NEW p \in M PROVE <<t, m, n + 1 - p[2]>> \in N
  <2>0. p[2] \in Nat /\ <<j, p[2]>> \in M
    BY <1>1, <1>3
  <2>1. p[2] \in 1 .. n /\ x[p[2]] = k
    BY <1>2, <2>0
  <2>2. n + 1 - p[2] \in Nat /\ n + 1 - p[2] \in 1 .. n /\ n + 1 - (n + 1 - p[2]) = p[2]
    BY <1>1, <2>1
  <2> QED  BY <1>2, <2>1, <2>2
<1>6. f \in [M -> N]
  BY <1>5
<1>7. ASSUME NEW p \in M, NEW q \in M, f[p] = f[q] PROVE p = q
  <2>1. n + 1 - p[2] = n + 1 - q[2]
    BY <1>7
  <2>2. p[2] = q[2]
    BY <1>1, <1>3, <2>1
  <2> QED  BY <1>3, <2>2
<1>8. ASSUME NEW q \in N PROVE \E p \in M : f[p] = q
  <2>0. q[3] \in Nat /\ <<t, m, q[3]>> \in N
    BY <1>1, <1>4
  <2>1. q[3] \in 1 .. n /\ x[n + 1 - q[3]] = k
    BY <1>2, <2>0
  <2>2. n + 1 - q[3] \in Nat /\ n + 1 - q[3] \in 1 .. n /\ n + 1 - (n + 1 - q[3]) = q[3]
    BY <1>1, <2>1
  <2>3. <<j, n + 1 - q[3]>> \in M
    BY <1>2, <2>1, <2>2
  <2>4. f[<<j, n + 1 - q[3]>>] = <<t, m, q[3]>>
    BY <2>2, <2>3
  <2> QED  BY <1>4, <2>3, <2>4
<1> HIDE DEF f
<1>9. f \in Bijection(M, N)
  BY <1>6, <1>7, <1>8 DEF Bijection, Injection, IsInjective, Surjection
<1> QED  BY <1>9 DEF ExistsBijection, M, N, x

(* A job whose handle nobody has, or that is done, has no continuations.   *)
LEMMA NoContinuations ==
  ASSUME Inv, NEW j \in Jobs, j \in done \/ j \notin returned
  PROVE  continuations[j] = <<>>
<1>1. SUFFICES ASSUME continuations[j] # <<>> PROVE FALSE
  OBVIOUS
<1>2. continuations[j] \in Seq(Jobs)
  BY DEF Inv, Typed, TypeOK
<1>3. PICK k \in Jobs : k = continuations[j][1]
  BY <1>1, <1>2
<1>4. <<j, 1>> \in Stored(k)
  BY <1>1, <1>2, <1>3 DEF Stored
<1>5. j \notin done /\ j \in ToSet(Deps[k]) /\ k \in submitted
  BY <1>4 DEF Inv, LinksOK
<1> QED  BY <1>5 DEF Inv, DepsOK

LEMMA PublishEntries ==
  ASSUME Inv, NEW t \in Threads, NEW j \in Jobs, NEW ex, Publish(t, j, ex, todo[t]),
         t \in Workers \/ j \notin returned,
         UNCHANGED <<stop, submitted, remaining, cursor, running>>
  PROVE  LinksOK' /\ CountOK'
<1>0. TypeOK /\ LinksOK /\ CountOK
  BY DEF Inv, Typed
<1> DEFINE F(x) == Fresh(t, continuations[j], x)
<1>1. /\ done' = done \cup {j}
      /\ continuations' = [continuations EXCEPT ![j] = <<>>]
      /\ todo' = [todo EXCEPT ![t] = <<continuations[j]>> \o todo[t]]
  BY DEF Publish
<1>2. \A x \in Jobs : Unread(x)' = Unread(x)
  BY DEF Unread
<1>3. ASSUME NEW x \in Jobs PROVE Stored(x)' = Stored(x) \ Moved(j, x)
  <2>1. \A y \in Jobs : continuations'[y] = IF y = j THEN <<>> ELSE continuations[y]
    BY <1>0, <1>1 DEF TypeOK
  <2>2. ASSUME NEW p \in Jobs \X Nat PROVE p \in Stored(x)' <=> p \in Stored(x) /\ p[1] # j
    BY <2>1 DEF Stored
  <2> QED  BY <2>2 DEF Stored, Moved
<1>4. \A x \in Jobs : Taken(x)' = Taken(x) \cup F(x) /\ Taken(x) \cap F(x) = {}
  <2>1. continuations[j] \in Seq(Jobs)
    BY <1>0 DEF TypeOK
  <2> QED  BY <1>0, <1>1, <2>1, TakenPush
<1>5. ASSUME NEW x \in Jobs, NEW p \in F(x) PROVE p[1] = t /\ t \in Workers /\ x \in submitted
  <2>1. p[1] = t /\ continuations[j] # <<>>
    BY DEF Fresh
  <2>2. t \in Workers
    BY <2>1, NoContinuations
  <2>3. continuations[j] \in Seq(Jobs) /\ p[3] \in 1 .. Len(continuations[j])
        /\ FromEnd(continuations[j], p[3]) = x
    BY <1>0 DEF Fresh, TypeOK
  <2>4. <<j, Len(continuations[j]) + 1 - p[3]>> \in Stored(x)
    BY <2>3 DEF FromEnd, Stored
  <2> QED  BY <1>0, <2>1, <2>2, <2>4 DEF LinksOK
<1> HIDE DEF F
<1>6. LinksOK'
  <2>1. ASSUME NEW x \in Jobs, NEW p \in Stored(x)'
        PROVE  p[1] \notin done' /\ p[1] \in ToSet(Deps[x]) /\ x \in submitted'
    BY <1>0, <1>1, <1>3 DEF LinksOK, Moved
  <2>2. ASSUME NEW x \in Jobs, NEW p \in Taken(x)' PROVE p[1] \in Workers /\ x \in submitted'
    <3>1. CASE p \in Taken(x)
      BY <1>0, <3>1 DEF LinksOK
    <3>2. CASE p \in F(x)
      BY <1>5, <3>2
    <3> QED  BY <1>4, <2>2, <3>1, <3>2
  <2>3. ASSUME NEW x \in Jobs, x \in submitted, NEW i \in 1 .. Len(Deps[x])
        PROVE  \/ Deps[x][i] \in done'
               \/ \E p \in Stored(x)' : p[1] = Deps[x][i]
               \/ \E p \in Unread(x)' : p[2] = i
    <3>1. \/ Deps[x][i] \in done
          \/ \E p \in Stored(x) : p[1] = Deps[x][i]
          \/ \E p \in Unread(x) : p[2] = i
      BY <1>0, <2>3 DEF LinksOK
    <3> QED  BY <1>1, <1>2, <1>3, <3>1 DEF Moved
  <2> QED  BY <2>1, <2>2, <2>3 DEF LinksOK
<1>7. ASSUME NEW x \in submitted
      PROVE  /\ IsFiniteSet(Stored(x)') /\ IsFiniteSet(Taken(x)') /\ IsFiniteSet(Unread(x)')
             /\ Owed(x)' = Owed(x)
  <2>0. x \in Jobs
    BY <1>0 DEF TypeOK
  <2>1. IsFiniteSet(Stored(x)) /\ IsFiniteSet(Taken(x)) /\ IsFiniteSet(Unread(x))
    BY <1>0 DEF CountOK
  <2>2. Moved(j, x) \in SUBSET Stored(x) /\ Stored(x) \cap Moved(j, x) = Moved(j, x)
    BY DEF Moved
  <2>3. IsFiniteSet(Moved(j, x))
    BY <2>1, <2>2, FS_Subset
  <2>4. IsFiniteSet(F(x)) /\ Cardinality(F(x)) = Cardinality(Moved(j, x))
    BY <1>0, <2>3, MovedCount, FS_Bijection DEF F
  <2>5. /\ IsFiniteSet(Stored(x)')
        /\ Cardinality(Stored(x)') = Cardinality(Stored(x)) - Cardinality(Moved(j, x))
    <3>1. /\ IsFiniteSet(Stored(x) \ Moved(j, x))
          /\ Cardinality(Stored(x) \ Moved(j, x))
               = Cardinality(Stored(x)) - Cardinality(Stored(x) \cap Moved(j, x))
      BY <2>1, FS_Difference
    <3>2. Stored(x)' = Stored(x) \ Moved(j, x)
      BY <1>3, <2>0
    <3> QED  BY <2>2, <3>1, <3>2
  <2>6. /\ IsFiniteSet(Taken(x)')
        /\ Cardinality(Taken(x)') = Cardinality(Taken(x)) + Cardinality(F(x))
    <3>1. Cardinality(Taken(x) \cap F(x)) = 0
      BY <1>4, <2>0, FS_EmptySet
    <3>2. Cardinality(Taken(x)) \in Nat /\ Cardinality(F(x)) \in Nat
      BY <2>1, <2>4, FS_CardinalityType
    <3>3. /\ IsFiniteSet(Taken(x) \cup F(x))
          /\ Cardinality(Taken(x) \cup F(x))
               = Cardinality(Taken(x)) + Cardinality(F(x)) - Cardinality(Taken(x) \cap F(x))
      BY <2>1, <2>4, FS_Union
    <3>4. Taken(x)' = Taken(x) \cup F(x)
      BY <1>4, <2>0
    <3> QED  BY <3>1, <3>2, <3>3, <3>4
  <2>7. /\ Cardinality(Stored(x)) \in Nat /\ Cardinality(Taken(x)) \in Nat
        /\ Cardinality(Unread(x)) \in Nat /\ Cardinality(Moved(j, x)) \in Nat
    BY <2>1, <2>3, FS_CardinalityType
  <2> QED  BY <1>2, <2>0, <2>1, <2>4, <2>5, <2>6, <2>7 DEF Owed
<1>8. CountOK'
  BY <1>0, <1>7 DEF CountOK
<1> QED  BY <1>6, <1>8

(* A stopped pool throws entries away.                                     *)
LEMMA ThrowEntries ==
  ASSUME Inv, NEW w \in Workers, EnqueueThrows(w)
  PROVE  LinksOK' /\ CountOK'
<1>0. TypeOK /\ ControlOK /\ LinksOK /\ CountOK
  BY DEF Inv, Typed
<1>1. /\ UNCHANGED <<stop, submitted, remaining, cursor, running>> /\ stop
  BY DEF EnqueueThrows, countVars
<1>2. \A x \in Jobs : Unread(x)' = Unread(x)
  BY <1>1 DEF Unread
<1>3. CASE Publish(w, running[w], "rejected", <<>>)
  <2>1. w \in Threads /\ running[w] \in Jobs /\ running[w] \in done
    BY <1>0 DEF EnqueueThrows, ControlOK, TypeOK, Threads, Inv, PlaceOK, RunsOK, Runs
  <2>2. continuations[running[w]] = <<>>
    BY <2>1, NoContinuations
  <2>3. done' = done /\ continuations' = continuations
    BY <1>0, <1>3, <2>1, <2>2 DEF Publish, TypeOK
  <2>4. \A u \in Threads : todo'[u] = IF u = w THEN <<<<>>>> ELSE todo[u]
    BY <1>0, <1>3, <2>1, <2>2 DEF Publish, TypeOK
  <2>5. \A x \in Jobs : Stored(x)' = Stored(x)
    BY <2>3 DEF Stored
  <2>6. ASSUME NEW x \in Jobs PROVE Taken(x)' \subseteq Taken(x)
    <3>1. \A m, i \in Nat : ~IsEntry(<<<<>>>>, m, i, x)
      BY DEF IsEntry, FromEnd
    <3> QED  BY <2>4, <3>1 DEF Taken
  <2>7. LinksOK'
    BY <1>0, <1>1, <1>2, <2>3, <2>5, <2>6 DEF LinksOK
  <2>8. ASSUME NEW x \in submitted
        PROVE  /\ IsFiniteSet(Stored(x)') /\ IsFiniteSet(Taken(x)') /\ IsFiniteSet(Unread(x)')
               /\ Owed(x)' <= remaining[x]
    <3>0. x \in Jobs
      BY <1>0 DEF TypeOK
    <3>1. IsFiniteSet(Stored(x)) /\ IsFiniteSet(Taken(x)) /\ IsFiniteSet(Unread(x))
          /\ Owed(x) <= remaining[x] /\ remaining[x] \in Nat
      BY <1>0, <3>0 DEF CountOK, TypeOK
    <3>2. IsFiniteSet(Taken(x)') /\ Cardinality(Taken(x)') <= Cardinality(Taken(x))
      BY <2>6, <3>0, <3>1, FS_Subset
    <3>3. /\ Cardinality(Stored(x)) \in Nat /\ Cardinality(Taken(x)) \in Nat
          /\ Cardinality(Unread(x)) \in Nat /\ Cardinality(Taken(x)') \in Nat
      BY <3>1, <3>2, FS_CardinalityType
    <3> QED  BY <1>2, <2>5, <3>0, <3>1, <3>2, <3>3 DEF Owed
  <2> QED  BY <1>1, <2>7, <2>8 DEF CountOK
<1>4. CASE UNCHANGED <<stateVars, todo, inCatch, pc>>
  BY <1>1, <1>4, QuietEntries DEF stateVars
<1> QED  BY <1>3, <1>4 DEF EnqueueThrows

LEMMA EntriesNext == Inv /\ [Next]_vars => LinksOK' /\ CountOK'
<1> SUFFICES ASSUME Inv, [Next]_vars PROVE LinksOK' /\ CountOK'
  OBVIOUS
<1> USE GraphAssumption
<1>0. TypeOK /\ ControlOK
  BY DEF Inv, Typed
<1>1. ASSUME NEW c \in Clients, NEW k \in Jobs, SubmitAfter(c, k) PROVE LinksOK' /\ CountOK'
  BY <1>1, CreateEntries
<1>2. ASSUME NEW c \in Clients, AddContinuation(c) PROVE LinksOK' /\ CountOK'
  BY <1>2, RegisterEntries
<1>3. ASSUME NEW c \in Clients, Return(c) PROVE LinksOK' /\ CountOK'
  <2>1. /\ cursor[c] > Len(Deps[running[c]]) /\ running' = [running EXCEPT ![c] = None]
        /\ UNCHANGED <<stop, submitted, done, continuations, remaining, cursor, todo>>
        /\ pc[c] = "register"
    BY <1>3 DEF Return, stateVars, countVars
  <2>2. /\ running'[c] = None /\ \A x \in Clients \ {c} : running'[x] = running[x]
        /\ running[c] \in Jobs
    BY <1>0, <2>1 DEF TypeOK, ControlOK, Threads
  <2>3. ASSUME NEW k \in Jobs PROVE Unread(k)' = Unread(k)
    <3>1. \A i \in Nat : running[c] = k => i \notin cursor[c] .. Len(Deps[k])
      <4>1. cursor[c] \in Nat /\ Len(Deps[running[c]]) \in Nat
        BY <1>0, <2>2 DEF TypeOK
      <4> QED  BY <2>1, <4>1
    <3>2. ASSUME NEW p \in Clients \X Nat PROVE p \in Unread(k)' <=> p \in Unread(k)
      <4>1. CASE p[1] = c
        BY <2>2, <3>1, <4>1 DEF Unread
      <4>2. CASE p[1] # c
        BY <2>1, <2>2, <4>2 DEF Unread
      <4> QED  BY <4>1, <4>2
    <3> QED  BY <3>2 DEF Unread
  <2>4. \A k \in Jobs : Stored(k)' = Stored(k) /\ Taken(k)' = Taken(k)
    BY <2>1 DEF Stored, Taken
  <2> QED  BY <2>1, <2>3, <2>4, SameEntries
<1>4. ASSUME NEW w \in Workers, NEW j \in Jobs, Start(w, j) PROVE LinksOK' /\ CountOK'
  BY <1>0, <1>4, QuietEntries DEF Start, TypeOK, Threads, stateVars, countVars
<1>5. ASSUME NEW w \in Workers, BodyEnds(w) PROVE LinksOK' /\ CountOK'
  <2>1. w \in Threads /\ running[w] \in Jobs /\ todo[w] = <<>>
    BY <1>0, <1>5 DEF BodyEnds, TypeOK, ControlOK, Threads
  <2>2. PICK ex : Publish(w, running[w], ex, todo[w])
    BY <1>5, <2>1 DEF BodyEnds
  <2>3. UNCHANGED <<stop, submitted, remaining, cursor, running>>
    BY <1>5 DEF BodyEnds, countVars
  <2>4. PICK j \in Jobs : j = running[w]
    BY <2>1
  <2> QED  BY <2>1, <2>2, <2>3, <2>4, PublishEntries
<1>6. ASSUME NEW t \in Threads, RunContinuation(t) PROVE LinksOK' /\ CountOK'
  BY <1>6, RunEntries
<1>7. ASSUME NEW t \in Threads, CompleteReturns(t) PROVE LinksOK' /\ CountOK'
  <2>1. UNCHANGED <<stop, submitted, done, continuations, remaining, running, cursor>>
    BY <1>7 DEF CompleteReturns, stateVars, countVars
  <2>2. \A k \in Jobs : Stored(k)' = Stored(k) /\ Unread(k)' = Unread(k)
    BY <2>1 DEF Stored, Unread
  <2>3. \A k \in Jobs : Taken(k)' = Taken(k)
    <3>1. CASE todo[t] = <<>>
      <4>1. todo' = todo
        BY <1>0, <1>7, <3>1 DEF CompleteReturns, TypeOK
      <4> QED  BY <4>1 DEF Taken
    <3>2. CASE todo[t] # <<>>
      <4>1. Head(todo[t]) = <<>> /\ todo' = [todo EXCEPT ![t] = Tail(todo[t])]
        BY <1>7, <3>2 DEF CompleteReturns
      <4> QED  BY <1>0, <3>2, <4>1, TakenPop
    <3> QED  BY <3>1, <3>2
  <2> QED  BY <2>1, <2>2, <2>3, SameEntries
<1>8. ASSUME NEW t \in Threads, SubmitIfReady(t) PROVE LinksOK' /\ CountOK'
  <2>1. PICK k \in Jobs : k = target[t]
    BY <1>0, <1>8 DEF SubmitIfReady, TypeOK, ControlOK
  <2>2. UNCHANGED <<stop, submitted, remaining, cursor, running>>
    BY <1>8 DEF SubmitIfReady
  <2>3. CASE Publish(t, k, "canceled", todo[t])
    <3>1. t \in Workers \/ k \notin returned
      BY <1>0, <1>8, <2>1 DEF SubmitIfReady, ControlOK, Threads
    <3> QED  BY <2>2, <2>3, <3>1, PublishEntries
  <2>4. CASE UNCHANGED <<stateVars, todo>>
    BY <2>2, <2>4, QuietEntries DEF stateVars
  <2> QED  BY <1>8, <2>1, <2>3, <2>4 DEF SubmitIfReady
<1>9. ASSUME NEW t \in Threads, EnqueueWithState(t) PROVE LinksOK' /\ CountOK'
  BY <1>9, QuietEntries DEF EnqueueWithState, Enqueue, stateVars, countVars, frameVars
<1>10. ASSUME NEW w \in Workers, EnqueueThrows(w) PROVE LinksOK' /\ CountOK'
  BY <1>10, ThrowEntries
<1>11. ASSUME NEW w \in Workers, ExecuteJobEnd(w) PROVE LinksOK' /\ CountOK'
  BY <1>0, <1>11, QuietEntries DEF ExecuteJobEnd, TypeOK, Threads, stateVars, countVars
<1>12. ASSUME NEW w \in Workers, WorkerExits(w) PROVE LinksOK' /\ CountOK'
  BY <1>12, QuietEntries DEF WorkerExits, WorkerLeaves, stateVars, countVars, frameVars
<1>13. CASE Destroy
  BY <1>13, QuietEntries DEF Destroy, stateVars, countVars, frameVars
<1>14. CASE UNCHANGED vars
  BY <1>14, QuietEntries DEF vars, stateVars, countVars, frameVars
<1> QED  BY <1>1, <1>2, <1>3, <1>4, <1>5, <1>6, <1>7, <1>8, <1>9, <1>10, <1>11, <1>12, <1>13, <1>14
            DEF Next, ClientStep, WorkerStep, CommonStep

-----------------------------------------------------------------------------
(* The counter of WaitAll.                                                 *)

LEMMA PendingNext == Inv /\ [Next]_vars => PendingOK'
<1> SUFFICES ASSUME Inv, [Next]_vars PROVE PendingOK'
  OBVIOUS
<1> USE GraphAssumption
<1>0. TypeOK /\ ControlOK /\ PlaceOK /\ PendingOK
  BY DEF Inv, Typed
<1>1. /\ IsFiniteSet(queue) /\ Cardinality(queue) \in Nat
      /\ IsFiniteSet(Busy) /\ Cardinality(Busy) \in Nat
  BY <1>0, FS_CardinalityType DEF PendingOK
<1>2. ASSUME NEW w \in Workers, NEW j \in Jobs, Start(w, j) PROVE PendingOK'
  <2>1. queue' = queue \ {j} /\ j \in queue
    BY <1>2 DEF Start
  <2>2. Busy' = Busy \cup {w} /\ w \notin Busy
    BY <1>0, <1>2 DEF Start, Busy, TypeOK, ControlOK, Threads
  <2>3. IsFiniteSet(queue') /\ Cardinality(queue') = Cardinality(queue) - 1
    BY <1>1, <2>1, FS_RemoveElement
  <2>4. IsFiniteSet(Busy') /\ Cardinality(Busy') = Cardinality(Busy) + 1
    BY <1>1, <2>2, FS_AddElement
  <2> QED  BY <1>0, <1>1, <1>2, <2>3, <2>4 DEF Start, PendingOK
<1>3. ASSUME NEW t \in Threads, EnqueueWithState(t) PROVE PendingOK'
  <2>1. queue' = queue \cup {target[t]} /\ target[t] \notin queue /\ pendingJobs' = pendingJobs + 1
    BY <1>0, <1>3 DEF EnqueueWithState, Enqueue, PlaceOK, HeldOK, Holds, TypeOK, ControlOK
  <2>2. Busy' = Busy
    BY <1>3 DEF EnqueueWithState, Enqueue, Busy, frameVars
  <2>3. IsFiniteSet(queue') /\ Cardinality(queue') = Cardinality(queue) + 1
    BY <1>1, <2>1, FS_AddElement
  <2> QED  BY <1>0, <1>1, <2>1, <2>2, <2>3 DEF PendingOK
<1>4. ASSUME NEW w \in Workers, ExecuteJobEnd(w) PROVE PendingOK'
  <2>1. Busy' = Busy \ {w} /\ w \in Busy
    BY <1>0, <1>4 DEF ExecuteJobEnd, Busy, TypeOK, ControlOK, Threads
  <2>2. IsFiniteSet(Busy') /\ Cardinality(Busy') = Cardinality(Busy) - 1
    BY <1>1, <2>1, FS_RemoveElement
  <2> QED  BY <1>0, <1>1, <1>4, <2>2 DEF ExecuteJobEnd, PendingOK
<1>5. ASSUME UNCHANGED <<queue, pendingJobs>>, \A w \in Workers : running'[w] = running[w]
      PROVE  PendingOK'
  <2>1. Busy' = Busy
    BY <1>5 DEF Busy
  <2> QED  BY <1>0, <1>5, <2>1 DEF PendingOK
<1>6. ASSUME NEW c \in Clients, \/ \E k \in Jobs : SubmitAfter(c, k)
                                \/ ClientStep(c)
      PROVE  UNCHANGED <<queue, pendingJobs>> /\ \A w \in Workers : running'[w] = running[w]
  <2>1. CASE \E k \in Jobs : SubmitAfter(c, k)
    BY <1>0, <2>1 DEF SubmitAfter, CreateJob, TypeOK, Threads
  <2>2. CASE AddContinuation(c)
    BY <2>2 DEF AddContinuation
  <2>3. CASE Return(c)
    BY <1>0, <2>3 DEF Return, TypeOK, Threads
  <2> QED  BY <1>6, <2>1, <2>2, <2>3 DEF ClientStep
<1>7. ASSUME NEW w \in Workers, BodyEnds(w) \/ EnqueueThrows(w) \/ WorkerExits(w)
      PROVE  UNCHANGED <<queue, pendingJobs, running>>
  BY <1>7 DEF BodyEnds, EnqueueThrows, WorkerExits, WorkerLeaves, frameVars
<1>8. ASSUME NEW t \in Threads, RunContinuation(t) \/ CompleteReturns(t) \/ SubmitIfReady(t)
      PROVE  UNCHANGED <<queue, pendingJobs, running>>
  BY <1>8 DEF RunContinuation, CompleteReturns, SubmitIfReady
<1>9. Destroy \/ UNCHANGED vars => UNCHANGED <<queue, pendingJobs, running>>
  BY DEF Destroy, vars, frameVars
<1> QED  BY <1>2, <1>3, <1>4, <1>5, <1>6, <1>7, <1>8, <1>9 DEF Next, WorkerStep, CommonStep

-----------------------------------------------------------------------------
(* A job is in one place.                                                  *)

LEMMA PlaceNext == Inv /\ [Next]_vars => PlaceOK'
<1> SUFFICES ASSUME Inv, [Next]_vars PROVE PlaceOK'
  OBVIOUS
<1> USE GraphAssumption DEF Threads, Holds, Runs
<1>0. TypeOK /\ ControlOK /\ PlaceOK
  BY DEF Inv, Typed
<1>1. ASSUME NEW c \in Clients, NEW k \in Jobs, SubmitAfter(c, k) PROVE PlaceOK'
  <2>1. /\ submitted' = submitted \cup {k} /\ k \notin submitted /\ pc[c] = "idle"
        /\ UNCHANGED <<stop, queue, done, submitOnce>>
    BY <1>1 DEF SubmitAfter, CreateJob, stateVars
  <2>2. /\ pc'[c] \in {"ready", "register"} /\ \A t \in Threads \ {c} : pc'[t] = pc[t]
        /\ target'[c] = k /\ \A t \in Threads \ {c} : target'[t] = target[t]
        /\ \A w \in Workers : running'[w] = running[w] /\ pc'[w] = pc[w]
        /\ remaining'[k] = Len(Deps[k]) /\ \A j \in Jobs \ {k} : remaining'[j] = remaining[j]
        /\ pc'[c] = "ready" <=> Deps[k] = <<>>
    BY <1>0, <1>1 DEF SubmitAfter, CreateJob, Goto, TypeOK
  <2>3. Len(Deps[k]) = 0 <=> Deps[k] = <<>>
    OBVIOUS
  <2>4. ~submitOnce[k] /\ k \notin queue \cup done /\ \A w \in Workers : running[w] # k
    BY <1>0, <2>1 DEF PlaceOK, QueuedOK, RunsOK, HeldOK, OnceOK, FoundOK
  <2>5. \A t \in Threads : pc[t] \in {"ready", "enqueue"} => target[t] # k
    BY <1>0, <2>1 DEF PlaceOK, QueuedOK, RunsOK, HeldOK, OnceOK, FoundOK
  <2>6. ASSUME NEW x \in Jobs PROVE QueuedOK(x)'
    <3>1. QueuedOK(x)
      BY <1>0 DEF PlaceOK
    <3> QED  BY <2>1, <2>2, <2>3, <2>4, <2>5, <3>1 DEF QueuedOK, RunsOK
  <2>7. ASSUME NEW x \in Jobs PROVE RunsOK(x)'
    <3>1. RunsOK(x)
      BY <1>0 DEF PlaceOK
    <3>2. \A w \in Workers : Runs(w, x)' => Runs(w, x) /\ x # k /\ pc'[w] = pc[w]
      BY <2>2, <2>4
    <3> QED  BY <2>1, <3>1, <3>2 DEF RunsOK
  <2>8. ASSUME NEW x \in Jobs PROVE HeldOK(x)'
    <3>1. HeldOK(x)
      BY <1>0 DEF PlaceOK
    <3>2. CASE x = k
      <4>1. \A t \in Threads : Holds(t, x)' => t = c /\ pc'[c] = "ready"
        BY <2>2, <2>5, <3>2
      <4> QED  BY <2>1, <2>2, <2>3, <2>4, <3>2, <4>1 DEF HeldOK
    <3>3. CASE x # k
      <4>1. \A t \in Threads : Holds(t, x)' => Holds(t, x) /\ pc'[t] = pc[t]
        BY <2>2, <3>3
      <4>2. remaining'[x] = remaining[x] /\ \A w \in Workers : Runs(w, x)' => Runs(w, x)
        BY <2>2, <3>3
      <4> HIDE DEF Holds, Runs
      <4> QED  BY <2>1, <3>1, <4>1, <4>2 DEF HeldOK
    <3> QED  BY <3>2, <3>3
  <2>9. ASSUME NEW x \in Jobs PROVE OnceOK(x)'
    <3>1. OnceOK(x)
      BY <1>0 DEF PlaceOK
    <3> QED  BY <2>1, <2>2, <2>3, <2>4, <2>5, <3>1 DEF OnceOK
  <2>10. ASSUME NEW x \in Jobs PROVE FoundOK(x)'
    <3>1. FoundOK(x)
      BY <1>0 DEF PlaceOK
    <3>2. x # k => \A t \in Threads : Holds(t, x) => Holds(t, x)'
      BY <2>1, <2>2
    <3>3. x = k /\ remaining'[k] = 0 => Holds(c, x)'
      BY <2>2, <2>3
    <3> QED  BY <2>1, <2>2, <2>4, <3>1, <3>2, <3>3 DEF FoundOK
  <2> QED  BY <2>6, <2>7, <2>8, <2>9, <2>10 DEF PlaceOK
<1>2. ASSUME NEW t \in Threads, NEW k \in Jobs, k \in submitted, remaining[k] \in Nat \ {0},
             pc[t] \in {"run", "register"}, target'[t] = k,
             \A u \in Threads \ {t} : target'[u] = target[u],
             CountDown(t, k, pc[t]),
             UNCHANGED <<stop, queue, submitted, done, submitOnce, running>>
      PROVE  PlaceOK'
  <2>1. /\ remaining'[k] = remaining[k] - 1 /\ \A j \in Jobs \ {k} : remaining'[j] = remaining[j]
        /\ pc'[t] = IF remaining[k] = 1 THEN "ready" ELSE pc[t]
        /\ \A u \in Threads \ {t} : pc'[u] = pc[u]
    BY <1>0, <1>2 DEF CountDown, Goto, TypeOK
  <2>2. ~submitOnce[k] /\ k \notin queue \cup done /\ \A w \in Workers : running[w] # k
    BY <1>0, <1>2 DEF PlaceOK, QueuedOK, RunsOK, HeldOK, OnceOK, FoundOK
  <2>3. \A u \in Threads : pc[u] \in {"ready", "enqueue"} => target[u] # k
    BY <1>0, <1>2 DEF PlaceOK, QueuedOK, RunsOK, HeldOK, OnceOK, FoundOK
  <2>4. remaining'[k] = 0 <=> remaining[k] = 1
    BY <1>2, <2>1
  <2>5. ASSUME NEW x \in Jobs PROVE QueuedOK(x)'
    <3>1. QueuedOK(x) /\ RunsOK(x)
      BY <1>0 DEF PlaceOK
    <3> QED  BY <1>2, <2>1, <2>2, <2>3, <2>4, <3>1 DEF QueuedOK, RunsOK
  <2>6. ASSUME NEW x \in Jobs PROVE RunsOK(x)'
    <3>1. RunsOK(x)
      BY <1>0 DEF PlaceOK
    <3> QED  BY <1>2, <2>1, <2>2, <2>3, <2>4, <3>1 DEF RunsOK
  <2>7. ASSUME NEW x \in Jobs PROVE HeldOK(x)'
    <3>1. HeldOK(x)
      BY <1>0 DEF PlaceOK
    <3>2. CASE x = k
      <4>1. \A u \in Threads : Holds(u, x)' => u = t /\ pc'[t] = "ready" /\ remaining[k] = 1
        BY <1>2, <2>1, <2>3, <3>2
      <4> QED  BY <1>2, <2>1, <2>2, <2>4, <3>2, <4>1 DEF HeldOK
    <3>3. CASE x # k
      <4>1. \A u \in Threads : Holds(u, x)' => Holds(u, x) /\ u # t
        BY <1>2, <2>1, <3>3
      <4>2. remaining'[x] = remaining[x] /\ \A w \in Workers : Runs(w, x)' => Runs(w, x)
        BY <1>2, <2>1, <3>3
      <4>3. \A u \in Threads \ {t} : pc'[u] = pc[u]
        BY <2>1
      <4> HIDE DEF Holds, Runs
      <4> QED  BY <1>2, <3>1, <4>1, <4>2, <4>3 DEF HeldOK
    <3> QED  BY <3>2, <3>3
  <2>8. ASSUME NEW x \in Jobs PROVE OnceOK(x)'
    <3>1. OnceOK(x)
      BY <1>0 DEF PlaceOK
    <3> QED  BY <1>2, <2>1, <2>2, <2>3, <2>4, <3>1 DEF OnceOK
  <2>9. ASSUME NEW x \in Jobs PROVE FoundOK(x)'
    <3>1. FoundOK(x)
      BY <1>0 DEF PlaceOK
    <3> QED  BY <1>2, <2>1, <2>2, <2>3, <2>4, <3>1 DEF FoundOK
  <2> QED  BY <2>5, <2>6, <2>7, <2>8, <2>9 DEF PlaceOK
<1>3. ASSUME NEW c \in Clients, AddContinuation(c) PROVE PlaceOK'
  <2>1. CASE CountDown(c, running[c], "register")
    <3>1. PICK k \in Jobs : k = running[c]
      BY <1>3, Registering DEF AddContinuation
    <3>2. k \in submitted /\ remaining[k] \in Nat \ {0}
      BY <1>3, <3>1, Registering DEF AddContinuation
    <3>3. pc[c] = "register" /\ target'[c] = k /\ \A u \in Threads \ {c} : target'[u] = target[u]
      BY <1>0, <1>3, <3>1 DEF AddContinuation, ControlOK
    <3>4. UNCHANGED <<stop, queue, submitted, done, submitOnce, running>>
      BY <1>3 DEF AddContinuation
    <3> QED  BY <1>2, <2>1, <3>1, <3>2, <3>3, <3>4
  <2>2. CASE UNCHANGED <<remaining, pc>>
    <3>1. UNCHANGED <<stop, queue, submitted, done, submitOnce, running, target>>
      BY <1>3 DEF AddContinuation
    <3> SUFFICES ASSUME NEW x \in Jobs
                 PROVE  QueuedOK(x)' /\ RunsOK(x)' /\ HeldOK(x)' /\ OnceOK(x)' /\ FoundOK(x)'
      BY DEF PlaceOK
    <3>2. QueuedOK(x) /\ RunsOK(x) /\ HeldOK(x) /\ OnceOK(x) /\ FoundOK(x)
      BY <1>0 DEF PlaceOK
    <3>3. QueuedOK(x)' /\ RunsOK(x)' /\ OnceOK(x)'
      BY <2>2, <3>1, <3>2 DEF QueuedOK, RunsOK, OnceOK
    <3>4. HeldOK(x)' /\ FoundOK(x)'
      BY <2>2, <3>1, <3>2 DEF HeldOK, FoundOK
    <3> QED  BY <3>3, <3>4
  <2> QED  BY <1>3, <2>1, <2>2 DEF AddContinuation
<1>4. ASSUME NEW t \in Threads, RunContinuation(t) PROVE PlaceOK'
  <2>1. PICK k \in Jobs : k = Head(Head(todo[t]))
    BY <1>4, Running DEF RunContinuation
  <2>2. k \in submitted /\ remaining[k] \in Nat \ {0}
    BY <1>4, <2>1, Running DEF RunContinuation
  <2>3. /\ pc[t] = "run" /\ CountDown(t, k, "run")
        /\ target' = [target EXCEPT ![t] = k]
        /\ UNCHANGED <<stop, queue, submitted, done, submitOnce, running>>
    BY <1>4, <2>1 DEF RunContinuation, stateVars
  <2>4. target'[t] = k /\ \A u \in Threads \ {t} : target'[u] = target[u]
    BY <1>0, <2>3 DEF TypeOK
  <2> QED  BY <1>2, <2>2, <2>3, <2>4
<1>5. ASSUME NEW t \in Threads, pc[t] \notin {"ready", "enqueue"}, pc'[t] \notin {"ready", "enqueue"},
             \A u \in Threads \ {t} : pc'[u] = pc[u] /\ target'[u] = target[u],
             pc[t] = "body" <=> pc'[t] = "body",
             \A w \in Workers : running'[w] = running[w],
             UNCHANGED <<queue, submitted, done, remaining, submitOnce>>,
             ~stop' => ~stop
      PROVE  PlaceOK'
  <2>1. ASSUME NEW x \in Jobs PROVE QueuedOK(x)'
    <3>1. QueuedOK(x) /\ RunsOK(x)
      BY <1>0 DEF PlaceOK
    <3> QED  BY <1>5, <3>1 DEF QueuedOK, RunsOK
  <2>2. ASSUME NEW x \in Jobs PROVE RunsOK(x)'
    <3>1. RunsOK(x)
      BY <1>0 DEF PlaceOK
    <3>2. \A w \in Workers : pc'[w] = "body" <=> pc[w] = "body"
      BY <1>5
    <3>3. \A w \in Workers : Runs(w, x)' <=> Runs(w, x)
      BY <1>5
    <3>4. UNCHANGED <<done, submitOnce>>
      BY <1>5
    <3> HIDE DEF Runs
    <3> QED  BY <3>1, <3>2, <3>3, <3>4 DEF RunsOK
  <2>3. ASSUME NEW x \in Jobs PROVE HeldOK(x)'
    <3>1. HeldOK(x)
      BY <1>0 DEF PlaceOK
    <3>2. \A u \in Threads : Holds(u, x)' => Holds(u, x) /\ pc'[u] = pc[u]
      BY <1>5
    <3>3. \A w \in Workers : Runs(w, x)' <=> Runs(w, x)
      BY <1>5
    <3>4. UNCHANGED <<queue, submitted, done, remaining, submitOnce>>
      BY <1>5
    <3> HIDE DEF Holds, Runs
    <3> QED  BY <3>1, <3>2, <3>3, <3>4 DEF HeldOK
  <2>4. ASSUME NEW x \in Jobs PROVE OnceOK(x)'
    <3>1. OnceOK(x)
      BY <1>0 DEF PlaceOK
    <3> QED  BY <1>5, <3>1 DEF OnceOK
  <2>5. ASSUME NEW x \in Jobs PROVE FoundOK(x)'
    <3>1. FoundOK(x)
      BY <1>0 DEF PlaceOK
    <3> QED  BY <1>5, <3>1 DEF FoundOK
  <2> QED  BY <2>1, <2>2, <2>3, <2>4, <2>5 DEF PlaceOK
<1>6. ASSUME NEW c \in Clients, Return(c) PROVE PlaceOK'
  BY <1>0, <1>5, <1>6 DEF Return, Goto, TypeOK, stateVars, countVars
<1>7. ASSUME NEW t \in Threads, CompleteReturns(t) PROVE PlaceOK'
  BY <1>0, <1>5, <1>7 DEF CompleteReturns, Goto, TypeOK, stateVars, countVars
<1>8. ASSUME NEW w \in Workers, WorkerExits(w) PROVE PlaceOK'
  BY <1>0, <1>5, <1>8 DEF WorkerExits, WorkerLeaves, Goto, TypeOK, stateVars, countVars, frameVars
<1>9. ASSUME NEW w \in Workers, NEW j \in Jobs, Start(w, j) PROVE PlaceOK'
  <2>1. /\ pc[w] = "idle" /\ j \in queue /\ queue' = queue \ {j}
        /\ UNCHANGED <<stop, submitted, done, remaining, submitOnce, target>>
    BY <1>9 DEF Start, stateVars, countVars
  <2>2. /\ pc'[w] = "body" /\ \A t \in Threads \ {w} : pc'[t] = pc[t]
        /\ running'[w] = j /\ \A v \in Workers \ {w} : running'[v] = running[v]
        /\ running[w] = None
    BY <1>0, <1>9 DEF Start, Goto, TypeOK, ControlOK
  <2>3. ASSUME NEW x \in Jobs PROVE QueuedOK(x)'
    <3>1. QueuedOK(x) /\ RunsOK(x)
      BY <1>0 DEF PlaceOK
    <3> QED  BY <2>1, <2>2, <3>1 DEF QueuedOK, RunsOK
  <2>4. ASSUME NEW x \in Jobs PROVE RunsOK(x)'
    <3>1. RunsOK(x)
      BY <1>0 DEF PlaceOK
    <3>2. j \notin done /\ submitOnce[j] /\ \A v \in Workers : running[v] # j
      BY <1>0, <2>1 DEF PlaceOK, QueuedOK
    <3>3. Runs(w, x)' => x = j
      BY <2>2
    <3>4. \A v \in Workers \ {w} : /\ pc'[v] = pc[v]
                                   /\ Runs(v, x)' => Runs(v, x) /\ x # j
      BY <2>2, <3>2
    <3> QED  BY <2>1, <2>2, <3>1, <3>2, <3>3, <3>4 DEF RunsOK
  <2>5. ASSUME NEW x \in Jobs PROVE HeldOK(x)'
    <3>1. HeldOK(x)
      BY <1>0 DEF PlaceOK
    <3>2. \A t \in Threads : Holds(t, x)' => Holds(t, x) /\ pc'[t] = pc[t]
      BY <2>1, <2>2
    <3>3. (\E t \in Threads : Holds(t, x)) => x # j /\ \A v \in Workers : ~Runs(v, x)'
      BY <2>1, <2>2, <3>1 DEF HeldOK
    <3> HIDE DEF Holds, Runs
    <3> QED  BY <2>1, <3>1, <3>2, <3>3 DEF HeldOK
  <2>6. ASSUME NEW x \in Jobs PROVE OnceOK(x)'
    <3>1. OnceOK(x)
      BY <1>0 DEF PlaceOK
    <3> QED  BY <2>1, <2>2, <3>1 DEF OnceOK
  <2>7. ASSUME NEW x \in Jobs PROVE FoundOK(x)'
    <3>1. FoundOK(x)
      BY <1>0 DEF PlaceOK
    <3> QED  BY <2>1, <2>2, <3>1 DEF FoundOK
  <2> QED  BY <2>3, <2>4, <2>5, <2>6, <2>7 DEF PlaceOK
<1>10. ASSUME NEW w \in Workers, BodyEnds(w) PROVE PlaceOK'
  <2>1. /\ pc[w] = "body" /\ done' = done \cup {running[w]}
        /\ UNCHANGED <<stop, queue, submitted, remaining, submitOnce, target, running>>
        /\ pc' = [pc EXCEPT ![w] = "run"]
    BY <1>10 DEF BodyEnds, Publish, Goto, countVars
  <2>2. pc'[w] = "run" /\ \A t \in Threads \ {w} : pc'[t] = pc[t]
    BY <1>0, <2>1 DEF TypeOK
  <2>3. running[w] \in Jobs
    BY <1>0, <2>1 DEF TypeOK, ControlOK
  <2> QED  BY <1>0, <2>1, <2>2, <2>3 DEF PlaceOK, QueuedOK, RunsOK, HeldOK, OnceOK, FoundOK
<1>11. ASSUME NEW t \in Threads, SubmitIfReady(t) PROVE PlaceOK'
  <2>1. PICK k \in Jobs : k = target[t]
    BY <1>0, <1>11 DEF SubmitIfReady, TypeOK, ControlOK
  <2>2. /\ pc[t] = "ready" /\ remaining[k] = 0 /\ ~submitOnce[k] /\ k \in submitted
        /\ k \notin queue \cup done /\ \A w \in Workers : running[w] # k
    BY <1>0, <1>11, <2>1 DEF SubmitIfReady, PlaceOK, QueuedOK, RunsOK, HeldOK, OnceOK, FoundOK
  <2>3. /\ UNCHANGED <<stop, queue, submitted, remaining, target, running>>
        /\ submitOnce' = [submitOnce EXCEPT ![k] = TRUE]
        /\ \/ done' = done \cup {k} /\ pc' = [pc EXCEPT ![t] = "run"]
           \/ done' = done /\ pc' = [pc EXCEPT ![t] = "enqueue"]
    BY <1>11, <2>1, <2>2 DEF SubmitIfReady, Publish, Goto, stateVars
  <2>4. /\ submitOnce'[k] /\ \A j \in Jobs \ {k} : submitOnce'[j] = submitOnce[j]
        /\ \A u \in Threads \ {t} : pc'[u] = pc[u]
        /\ \/ done' = done \cup {k} /\ pc'[t] = "run"
           \/ done' = done /\ pc'[t] = "enqueue"
    BY <1>0, <2>3 DEF TypeOK
  <2>5. \A u \in Threads \ {t} : pc[u] \in {"ready", "enqueue"} => target[u] # k
    BY <1>0, <2>1, <2>2 DEF PlaceOK, QueuedOK, RunsOK, HeldOK, OnceOK, FoundOK
  <2>6. ASSUME NEW x \in Jobs PROVE QueuedOK(x)'
    <3>1. QueuedOK(x) /\ RunsOK(x)
      BY <1>0 DEF PlaceOK
    <3> QED  BY <2>1, <2>2, <2>3, <2>4, <2>5, <3>1 DEF QueuedOK, RunsOK
  <2>7. ASSUME NEW x \in Jobs PROVE RunsOK(x)'
    <3>1. RunsOK(x)
      BY <1>0 DEF PlaceOK
    <3>2. \A v \in Workers : Runs(v, x)' => Runs(v, x) /\ x # k
      BY <2>2, <2>3
    <3>3. \A v \in Workers : pc'[v] = "body" <=> pc[v] = "body"
      BY <2>2, <2>4
    <3>4. x # k => submitOnce'[x] = submitOnce[x] /\ (x \in done' <=> x \in done)
      BY <2>4
    <3> HIDE DEF Runs
    <3> QED  BY <3>1, <3>2, <3>3, <3>4 DEF RunsOK
  <2>8. ASSUME NEW x \in Jobs PROVE HeldOK(x)'
    <3>1. HeldOK(x)
      BY <1>0 DEF PlaceOK
    <3> QED  BY <2>1, <2>2, <2>3, <2>4, <2>5, <3>1 DEF HeldOK
  <2>9. ASSUME NEW x \in Jobs PROVE OnceOK(x)'
    <3>1. OnceOK(x)
      BY <1>0 DEF PlaceOK
    <3> QED  BY <2>1, <2>2, <2>3, <2>4, <2>5, <3>1 DEF OnceOK
  <2>10. ASSUME NEW x \in Jobs PROVE FoundOK(x)'
    <3>1. FoundOK(x)
      BY <1>0 DEF PlaceOK
    <3> QED  BY <2>1, <2>2, <2>3, <2>4, <2>5, <3>1 DEF FoundOK
  <2> QED  BY <2>6, <2>7, <2>8, <2>9, <2>10 DEF PlaceOK
<1>12. ASSUME NEW t \in Threads, EnqueueWithState(t) PROVE PlaceOK'
  <2>1. PICK k \in Jobs : k = target[t]
    BY <1>0, <1>12 DEF EnqueueWithState, Enqueue, TypeOK, ControlOK
  <2>2. /\ pc[t] = "enqueue" /\ queue' = queue \cup {k}
        /\ UNCHANGED <<stop, submitted, done, remaining, submitOnce, target, running>>
        /\ pc' = [pc EXCEPT ![t] = "run"]
    BY <1>12, <2>1 DEF EnqueueWithState, Enqueue, Goto, stateVars, countVars, frameVars
  <2>3. /\ submitOnce[k] /\ k \notin done /\ \A w \in Workers : running[w] # k
        /\ \A u \in Threads \ {t} : pc[u] \in {"ready", "enqueue"} => target[u] # k
    BY <1>0, <2>1, <2>2 DEF PlaceOK, QueuedOK, RunsOK, HeldOK, OnceOK, FoundOK
  <2>4. pc'[t] = "run" /\ \A u \in Threads \ {t} : pc'[u] = pc[u]
    BY <1>0, <2>2 DEF TypeOK
  <2> QED  BY <1>0, <2>1, <2>2, <2>3, <2>4 DEF PlaceOK, QueuedOK, RunsOK, HeldOK, OnceOK, FoundOK
<1>13. ASSUME NEW w \in Workers, EnqueueThrows(w) PROVE PlaceOK'
  <2>1. /\ UNCHANGED <<stop, queue, submitted, remaining, submitOnce, target, running>> /\ stop
        /\ pc[w] = "enqueue"
        /\ \/ done' = done \cup {running[w]} /\ pc' = [pc EXCEPT ![w] = "run"]
           \/ done' = done /\ pc' = pc
    BY <1>13 DEF EnqueueThrows, Publish, Goto, stateVars, countVars
  <2>2. running[w] \in Jobs /\ running[w] \in done
    <3>1. running[w] \in Jobs
      <4>1. running[w] # None
        BY <1>0, <2>1 DEF ControlOK
      <4> QED  BY <1>0, <4>1 DEF TypeOK
    <3>2. RunsOK(running[w])
      BY <1>0, <3>1 DEF PlaceOK
    <3> QED  BY <2>1, <3>1, <3>2 DEF RunsOK
  <2>3. /\ done' = done
        /\ \A u \in Threads \ {w} : pc'[u] = pc[u]
        /\ pc'[w] = "run" \/ pc'[w] = "enqueue"
    <3>1. done \cup {running[w]} = done
      BY <2>2
    <3> QED  BY <1>0, <2>1, <3>1 DEF TypeOK
  <2>4. ASSUME NEW x \in Jobs PROVE QueuedOK(x)'
    <3>1. QueuedOK(x) /\ RunsOK(x)
      BY <1>0 DEF PlaceOK
    <3> QED  BY <2>1, <2>3, <3>1 DEF QueuedOK, RunsOK
  <2>5. ASSUME NEW x \in Jobs PROVE RunsOK(x)'
    <3>1. RunsOK(x)
      BY <1>0 DEF PlaceOK
    <3> QED  BY <2>1, <2>3, <3>1 DEF RunsOK
  <2>6. ASSUME NEW x \in Jobs PROVE HeldOK(x)'
    <3>1. HeldOK(x)
      BY <1>0 DEF PlaceOK
    <3> QED  BY <2>1, <2>3, <3>1 DEF HeldOK
  <2>7. ASSUME NEW x \in Jobs PROVE OnceOK(x)'
    <3>1. OnceOK(x)
      BY <1>0 DEF PlaceOK
    <3> QED  BY <2>1, <2>3, <3>1 DEF OnceOK
  <2>8. ASSUME NEW x \in Jobs PROVE FoundOK(x)'
    <3>1. FoundOK(x)
      BY <1>0 DEF PlaceOK
    <3>2. x \in Jobs /\ Holds(w, x) => submitOnce[x]
      BY <1>0, <2>1 DEF PlaceOK, HeldOK
    <3>3. \A u \in Threads : Holds(u, x) => u = w \/ Holds(u, x)'
      BY <2>1, <2>3
    <3> QED  BY <2>1, <3>1, <3>2, <3>3 DEF FoundOK
  <2> QED  BY <2>4, <2>5, <2>6, <2>7, <2>8 DEF PlaceOK
<1>14. ASSUME NEW w \in Workers, ExecuteJobEnd(w) PROVE PlaceOK'
  <2>1. /\ pc[w] = "end"
        /\ UNCHANGED <<stop, queue, submitted, done, remaining, submitOnce>>
    BY <1>14 DEF ExecuteJobEnd, stateVars, countVars
  <2>2. /\ pc'[w] = "idle" /\ \A t \in Threads \ {w} : pc'[t] = pc[t] /\ target'[t] = target[t]
        /\ running'[w] = None /\ \A v \in Workers \ {w} : running'[v] = running[v]
    BY <1>0, <1>14 DEF ExecuteJobEnd, Goto, TypeOK
  <2>3. running[w] \in Jobs /\ running[w] \in done
    <3>1. running[w] \in Jobs
      BY <1>0, <2>1 DEF TypeOK, ControlOK
    <3>2. RunsOK(running[w])
      BY <1>0, <3>1 DEF PlaceOK
    <3> QED  BY <2>1, <3>1, <3>2 DEF RunsOK
  <2>4. ASSUME NEW x \in Jobs PROVE QueuedOK(x)'
    <3>1. QueuedOK(x) /\ RunsOK(x)
      BY <1>0 DEF PlaceOK
    <3> QED  BY <2>1, <2>2, <2>3, <3>1 DEF QueuedOK, RunsOK
  <2>5. ASSUME NEW x \in Jobs PROVE RunsOK(x)'
    <3>1. RunsOK(x)
      BY <1>0 DEF PlaceOK
    <3>2. \A v \in Workers : Runs(v, x)' => v # w /\ Runs(v, x) /\ pc'[v] = pc[v]
      BY <2>2
    <3> QED  BY <2>1, <3>1, <3>2 DEF RunsOK
  <2>6. ASSUME NEW x \in Jobs PROVE HeldOK(x)'
    <3>1. HeldOK(x)
      BY <1>0 DEF PlaceOK
    <3>2. \A t \in Threads : Holds(t, x)' => Holds(t, x) /\ pc'[t] = pc[t]
      BY <2>2
    <3>3. \A v \in Workers : Runs(v, x)' => Runs(v, x)
      BY <2>2
    <3> QED  BY <2>1, <3>1, <3>2, <3>3 DEF HeldOK
  <2>7. ASSUME NEW x \in Jobs PROVE OnceOK(x)'
    <3>1. OnceOK(x)
      BY <1>0 DEF PlaceOK
    <3> QED  BY <2>1, <2>2, <2>3, <3>1 DEF OnceOK
  <2>8. ASSUME NEW x \in Jobs PROVE FoundOK(x)'
    <3>1. FoundOK(x)
      BY <1>0 DEF PlaceOK
    <3>2. \A v \in Workers : Runs(v, x) => x \in done \/ Runs(v, x)'
      BY <2>2, <2>3
    <3>3. \A t \in Threads : Holds(t, x) => Holds(t, x)'
      BY <2>1, <2>2
    <3> HIDE DEF Holds, Runs
    <3> QED  BY <2>1, <3>1, <3>2, <3>3 DEF FoundOK
  <2> QED  BY <2>4, <2>5, <2>6, <2>7, <2>8 DEF PlaceOK
<1>15. CASE Destroy
  BY <1>0, <1>15 DEF Destroy, PlaceOK, stateVars, countVars, frameVars, QueuedOK, RunsOK, HeldOK, OnceOK, FoundOK
<1>16. CASE UNCHANGED vars
  BY <1>0, <1>16 DEF vars, PlaceOK, stateVars, countVars, frameVars, QueuedOK, RunsOK, HeldOK, OnceOK, FoundOK
<1> QED  BY <1>1, <1>3, <1>4, <1>6, <1>7, <1>8, <1>9, <1>10, <1>11, <1>12, <1>13, <1>14, <1>15, <1>16
            DEF Next, ClientStep, WorkerStep, CommonStep


(* What a job that is done shows: it stays done, and its outcome changes   *)
(* only in a pool that is being destroyed.                                 *)
Final == \A j \in done : j \in done' /\ (~stop => exception'[j] = exception[j])

LEMMA FinalNext == Inv /\ [Next]_vars => Final /\ (stop => stop')
<1> SUFFICES ASSUME Inv, [Next]_vars PROVE Final /\ (stop => stop')
  OBVIOUS
<1> USE GraphAssumption DEF Threads
<1>0. TypeOK /\ ControlOK /\ PlaceOK
  BY DEF Inv, Typed
<1>1. ASSUME NEW t \in Threads, NEW j \in Jobs, NEW ex, NEW frames, Publish(t, j, ex, frames),
             j \in done => stop
      PROVE  Final
  BY <1>0, <1>1 DEF Publish, TypeOK, Final
<1>2. ASSUME NEW w \in Workers, BodyEnds(w) PROVE Final /\ (stop => stop')
  <2>1. running[w] \in Jobs /\ pc[w] = "body"
    BY <1>0, <1>2 DEF BodyEnds, TypeOK, ControlOK
  <2>2. RunsOK(running[w])
    BY <1>0, <2>1 DEF PlaceOK
  <2>3. running[w] \notin done
    BY <2>1, <2>2 DEF RunsOK, Runs
  <2> QED  BY <1>1, <1>2, <2>1, <2>3 DEF BodyEnds
<1>3. ASSUME NEW t \in Threads, SubmitIfReady(t) PROVE Final /\ (stop => stop')
  <2>1. PICK k \in Jobs : k = target[t]
    BY <1>0, <1>3 DEF SubmitIfReady, TypeOK, ControlOK
  <2>2. HeldOK(k) /\ Holds(t, k)
    BY <1>0, <1>3, <2>1 DEF PlaceOK, SubmitIfReady, Holds
  <2>3. k \notin done
    BY <2>2 DEF HeldOK
  <2>4. CASE Publish(t, k, "canceled", todo[t])
    BY <1>1, <1>3, <2>3, <2>4 DEF SubmitIfReady
  <2>5. CASE UNCHANGED stateVars
    BY <1>3, <2>5 DEF SubmitIfReady, stateVars, Final
  <2> QED  BY <1>3, <2>1, <2>4, <2>5 DEF SubmitIfReady
<1>4. ASSUME NEW w \in Workers, EnqueueThrows(w) PROVE Final /\ (stop => stop')
  <2>1. running[w] \in Jobs
    BY <1>0, <1>4 DEF EnqueueThrows, TypeOK, ControlOK
  <2>2. CASE Publish(w, running[w], "rejected", <<>>)
    BY <1>1, <1>4, <2>1, <2>2 DEF EnqueueThrows
  <2>3. CASE UNCHANGED stateVars
    BY <1>4, <2>3 DEF EnqueueThrows, stateVars, Final
  <2> QED  BY <1>4, <2>2, <2>3 DEF EnqueueThrows
<1>5. CASE UNCHANGED <<stop, stateVars>>
  BY <1>5 DEF stateVars, Final
<1>6. ASSUME NEW c \in Clients, NEW k \in Jobs, SubmitAfter(c, k) PROVE Final /\ (stop => stop')
  BY <1>5, <1>6 DEF SubmitAfter, CreateJob
<1>7. ASSUME NEW c \in Clients, AddContinuation(c) PROVE Final /\ (stop => stop')
  BY <1>7 DEF AddContinuation, Final
<1>8. ASSUME NEW c \in Clients, Return(c) PROVE Final /\ (stop => stop')
  BY <1>5, <1>8 DEF Return
<1>9. ASSUME NEW t \in Threads, RunContinuation(t) PROVE Final /\ (stop => stop')
  BY <1>5, <1>9 DEF RunContinuation
<1>10. ASSUME NEW t \in Threads, CompleteReturns(t) PROVE Final /\ (stop => stop')
  BY <1>5, <1>10 DEF CompleteReturns
<1>11. ASSUME NEW t \in Threads, EnqueueWithState(t) PROVE Final /\ (stop => stop')
  BY <1>5, <1>11 DEF EnqueueWithState, Enqueue
<1>12. ASSUME NEW w \in Workers, NEW j \in Jobs, Start(w, j) PROVE Final /\ (stop => stop')
  BY <1>5, <1>12 DEF Start
<1>13. ASSUME NEW w \in Workers, ExecuteJobEnd(w) PROVE Final /\ (stop => stop')
  BY <1>5, <1>13 DEF ExecuteJobEnd
<1>14. ASSUME NEW w \in Workers, WorkerExits(w) PROVE Final /\ (stop => stop')
  BY <1>5, <1>14 DEF WorkerExits, WorkerLeaves
<1>15. CASE Destroy
  BY <1>15 DEF Destroy, stateVars, Final
<1>16. CASE UNCHANGED vars
  BY <1>5, <1>16 DEF vars
<1> QED  BY <1>2, <1>3, <1>4, <1>6, <1>7, <1>8, <1>9, <1>10, <1>11, <1>12, <1>13, <1>14, <1>15, <1>16
            DEF Next, ClientStep, WorkerStep, CommonStep

(* What SubmitIfReady read of the dependencies cannot change before        *)
(* EnqueueWithState acts on it: they are done.                             *)
LEMMA DecisionNext == Inv /\ [Next]_vars => DecisionOK'
<1> SUFFICES ASSUME Inv, [Next]_vars, NEW t \in Threads, pc'[t] = "enqueue", ~stop'
             PROVE  ~DependencyFailed(target[t])'
  BY DEF DecisionOK
<1> USE GraphAssumption DEF Threads
<1>0. TypeOK /\ ControlOK /\ PlaceOK /\ DecisionOK
  BY DEF Inv, Typed
<1>1. Final /\ ~stop
  BY FinalNext
<1>2. ASSUME NEW k \in Jobs, k \in submitted, remaining[k] = 0, ~DependencyFailed(k), target'[t] = k
      PROVE  ~DependencyFailed(target[t])'
  <2>1. \A d \in ToSet(Deps[k]) : exception'[d] = exception[d]
    BY <1>1, <1>2, ZeroMeansReady DEF Final
  <2> QED  BY <1>2, <2>1 DEF DependencyFailed
<1>3. CASE pc[t] = "enqueue" /\ target'[t] = target[t]
  <2>1. PICK k \in Jobs : k = target[t]
    BY <1>0, <1>3 DEF TypeOK, ControlOK
  <2>2. k \in submitted /\ remaining[k] = 0
    BY <1>0, <1>3, <2>1 DEF PlaceOK, HeldOK, Holds
  <2>3. ~DependencyFailed(k)
    BY <1>0, <1>1, <1>3, <2>1 DEF DecisionOK
  <2> QED  BY <1>2, <1>3, <2>1, <2>2, <2>3
<1>4. CASE SubmitIfReady(t)
  <2>1. PICK k \in Jobs : k = target[t]
    BY <1>0, <1>4 DEF SubmitIfReady, TypeOK, ControlOK
  <2>2. k \in submitted /\ remaining[k] = 0
    BY <1>0, <1>4, <2>1 DEF SubmitIfReady, PlaceOK, HeldOK, Holds
  <2>3. ~DependencyFailed(k) /\ target'[t] = k
    BY <1>0, <1>4, <2>1 DEF SubmitIfReady, Publish, Goto, TypeOK
  <2> QED  BY <1>2, <2>1, <2>2, <2>3
<1>5. SubmitIfReady(t) \/ (pc[t] = "enqueue" /\ target'[t] = target[t])
  <2>1. ASSUME NEW c \in Clients, NEW k \in Jobs, SubmitAfter(c, k) PROVE pc[t] = "enqueue" /\ target'[t] = target[t]
    BY <1>0, <2>1 DEF SubmitAfter, CreateJob, Goto, TypeOK
  <2>2. ASSUME NEW c \in Clients, AddContinuation(c) PROVE pc[t] = "enqueue" /\ target'[t] = target[t]
    BY <1>0, <2>2 DEF AddContinuation, CountDown, Goto, TypeOK
  <2>3. ASSUME NEW c \in Clients, Return(c) PROVE pc[t] = "enqueue" /\ target'[t] = target[t]
    BY <1>0, <2>3 DEF Return, Goto, TypeOK
  <2>4. ASSUME NEW u \in Threads, RunContinuation(u) PROVE pc[t] = "enqueue" /\ target'[t] = target[t]
    BY <1>0, <2>4 DEF RunContinuation, CountDown, Goto, TypeOK
  <2>5. ASSUME NEW u \in Threads, CompleteReturns(u) PROVE pc[t] = "enqueue" /\ target'[t] = target[t]
    BY <1>0, <2>5 DEF CompleteReturns, Goto, TypeOK
  <2>6. ASSUME NEW u \in Threads, EnqueueWithState(u) PROVE pc[t] = "enqueue" /\ target'[t] = target[t]
    BY <1>0, <2>6 DEF EnqueueWithState, Enqueue, frameVars, Goto, TypeOK
  <2>7. ASSUME NEW w \in Workers, NEW j \in Jobs, Start(w, j) PROVE pc[t] = "enqueue" /\ target'[t] = target[t]
    BY <1>0, <2>7 DEF Start, Goto, TypeOK
  <2>8. ASSUME NEW w \in Workers, BodyEnds(w) PROVE pc[t] = "enqueue" /\ target'[t] = target[t]
    BY <1>0, <2>8 DEF BodyEnds, Publish, Goto, TypeOK
  <2>9. ASSUME NEW w \in Workers, EnqueueThrows(w) PROVE pc[t] = "enqueue" /\ target'[t] = target[t]
    BY <1>0, <2>9 DEF EnqueueThrows, Publish, Goto, TypeOK
  <2>10. ASSUME NEW w \in Workers, ExecuteJobEnd(w) PROVE pc[t] = "enqueue" /\ target'[t] = target[t]
    BY <1>0, <2>10 DEF ExecuteJobEnd, Goto, TypeOK
  <2>11. ASSUME NEW w \in Workers, WorkerExits(w) PROVE pc[t] = "enqueue" /\ target'[t] = target[t]
    BY <1>0, <2>11 DEF WorkerExits, WorkerLeaves, frameVars, Goto, TypeOK
  <2>12. ASSUME NEW u \in Threads, SubmitIfReady(u), u # t PROVE pc[t] = "enqueue" /\ target'[t] = target[t]
    BY <1>0, <2>12 DEF SubmitIfReady, Publish, Goto, TypeOK
  <2>13. CASE Destroy
    BY <2>13 DEF Destroy
  <2>14. CASE UNCHANGED vars
    BY <2>14 DEF vars
  <2> QED  BY <2>1, <2>2, <2>3, <2>4, <2>5, <2>6, <2>7, <2>8, <2>9, <2>10, <2>11, <2>12, <2>13, <2>14
              DEF Next, ClientStep, WorkerStep, CommonStep
<1> QED  BY <1>3, <1>4, <1>5

-----------------------------------------------------------------------------
LEMMA InvInit == Init => Inv
<1> SUFFICES ASSUME Init PROVE Inv
  OBVIOUS
<1> USE GraphAssumption
<1>1. Typed
  BY TypedInit
<1>2. DepsOK
  BY DEF Init, DepsOK
<1>3. \A k \in Jobs : Stored(k) = {} /\ Taken(k) = {} /\ Unread(k) = {}
  <2> SUFFICES ASSUME NEW k \in Jobs PROVE Stored(k) = {} /\ Taken(k) = {} /\ Unread(k) = {}
    OBVIOUS
  <2>1. Len(<<>>) = 0 /\ 1 .. 0 = {}
    OBVIOUS
  <2>2. Stored(k) = {}
    BY <2>1 DEF Init, Stored
  <2>3. Taken(k) = {}
    BY <2>1 DEF Init, Taken, IsEntry
  <2>4. Unread(k) = {}
    BY DEF Init, Unread, Threads
  <2> QED  BY <2>2, <2>3, <2>4
<1>4. LinksOK
  BY <1>3 DEF Init, LinksOK
<1>5. CountOK
  BY DEF Init, CountOK
<1>6. PlaceOK
  BY DEF Init, PlaceOK, QueuedOK, RunsOK, HeldOK, OnceOK, FoundOK, Holds, Runs, Threads
<1>7. PendingOK
  <2>1. queue = {} /\ Busy = {} /\ pendingJobs = 0
    BY DEF Init, Busy, Threads
  <2> QED  BY <2>1, FS_EmptySet DEF PendingOK
<1>8. DecisionOK
  BY DEF Init, DecisionOK
<1> QED  BY <1>1, <1>2, <1>4, <1>5, <1>6, <1>7, <1>8 DEF Inv

LEMMA InvNext == Inv /\ [Next]_vars => Inv'
<1> SUFFICES ASSUME Inv, [Next]_vars PROVE Inv'
  OBVIOUS
<1>1. Typed'
  BY TypeNext, ControlNext DEF Typed
<1>2. DepsOK' /\ PlaceOK' /\ PendingOK' /\ DecisionOK'
  BY DepsNext, PlaceNext, PendingNext, DecisionNext
<1>3. LinksOK' /\ CountOK'
  BY EntriesNext
<1> QED  BY <1>1, <1>2, <1>3 DEF Inv

LEMMA Invariance == Spec => []Inv
<1>1. Init => Inv
  BY InvInit
<1>2. Inv /\ [Next]_vars => Inv'
  BY InvNext
<1> QED  BY <1>1, <1>2, PTL DEF Spec

-----------------------------------------------------------------------------
(* Every variable keeps its type: counters do not go below zero, and what  *)
(* a handler reads of a job it was handed is there.                        *)
THEOREM TypeCorrect == Spec => []TypeOK
<1>1. Inv => TypeOK
  BY DEF Inv, Typed
<1> QED  BY <1>1, Invariance, PTL

(* No job is queued, run or completed before all of its dependencies,      *)
(* however AddContinuation races CompleteJobState and however many workers *)
(* count down at once; for a job that is queued or run this is the promise *)
(* of SubmitAfter in src/ThreadPool.h.                                     *)
THEOREM DependenciesComeFirst == Spec => []DependenciesFirst
<1>1. Inv => DependenciesFirst
  <2> SUFFICES ASSUME Inv, NEW k \in Jobs, Begun(k) PROVE ToSet(Deps[k]) \subseteq done
    BY DEF DependenciesFirst
  <2>1. QueuedOK(k) /\ RunsOK(k) /\ OnceOK(k)
    BY DEF Inv, PlaceOK
  <2>2. submitOnce[k]
    BY <2>1 DEF Begun, QueuedOK, RunsOK, OnceOK, Runs
  <2>3. k \in submitted /\ remaining[k] = 0
    BY <2>1, <2>2 DEF OnceOK
  <2> QED  BY <2>3, ZeroMeansReady
<1> QED  BY <1>1, Invariance, PTL

(* In a pool that is not being destroyed, the counter WaitAll waits for    *)
(* covers every job a client has a handle of, those that wait for their    *)
(* dependencies included: while one is not done, the first of them that    *)
(* waits for no other is queued or running.                                *)
THEOREM WaitAllCovers == Spec => []WaitAllCoversGraph
<1> USE GraphAssumption DEF Threads
<1>1. Inv => WaitAllCoversGraph
  <2> SUFFICES ASSUME Inv, ~stop, pendingJobs = 0, ~(returned \subseteq done) PROVE FALSE
    BY DEF WaitAllCoversGraph
  <2>0. TypeOK /\ ControlOK /\ DepsOK /\ LinksOK /\ CountOK /\ PlaceOK /\ PendingOK
    BY DEF Inv, Typed
  <2>1. queue = {} /\ Busy = {}
    <3>1. Cardinality(queue) \in Nat /\ Cardinality(Busy) \in Nat
      BY <2>0, FS_CardinalityType DEF PendingOK
    <3>2. Cardinality(queue) = 0 /\ Cardinality(Busy) = 0
      BY <2>0, <3>1 DEF PendingOK
    <3> QED  BY <2>0, <3>2, FS_EmptySet DEF PendingOK
  <2>2. \A w \in Workers : running[w] = None /\ pc[w] \in {"idle", "gone"}
    BY <2>0, <2>1 DEF Busy, ControlOK
  <2> DEFINE S == returned \ done
  <2>3. PICK k \in S : ToSet(Deps[k]) \cap S = {}
    <3>1. S \in SUBSET submitted /\ S # {}
      BY <2>0 DEF TypeOK
    <3> QED  BY <2>0, <3>1 DEF DepsOK
  <2>4. k \in Jobs /\ k \in submitted /\ k \in returned /\ k \notin done
    BY <2>0, <2>3 DEF TypeOK
  <2>5. ToSet(Deps[k]) \subseteq done
    BY <2>0, <2>3, <2>4 DEF DepsOK
  <2>6. Stored(k) = {}
    BY <2>0, <2>4, <2>5 DEF LinksOK
  <2>7. Taken(k) = {}
    <3> SUFFICES ASSUME NEW p \in Taken(k) PROVE FALSE
      OBVIOUS
    <3>1. p[1] \in Workers
      BY <2>0, <2>4 DEF LinksOK
    <3>2. todo[p[1]] = <<>>
      BY <2>0, <2>2, <3>1 DEF ControlOK
    <3>3. p[2] \in 1 .. 0
      BY <3>2 DEF Taken, IsEntry
    <3> QED  BY <3>3
  <2>8. Unread(k) = {} /\ \A c \in Clients : running[c] # k
    <3>1. \A c \in Clients : running[c] # k
      <4> SUFFICES ASSUME NEW c \in Clients, running[c] = k PROVE FALSE
        OBVIOUS
      <4>1. pc[c] # "idle"
        BY <2>0, <2>4 DEF ControlOK
      <4> QED  BY <2>0, <2>4, <4>1 DEF ControlOK
    <3> QED  BY <3>1 DEF Unread
  <2>9. remaining[k] = 0
    <3>1. Owed(k) = 0
      BY <2>6, <2>7, <2>8, FS_EmptySet DEF Owed
    <3> QED  BY <2>0, <2>4, <3>1 DEF CountOK
  <2>10. \A t \in Threads : ~Holds(t, k)
    <3>1. \A w \in Workers : ~Holds(w, k)
      BY <2>2 DEF Holds
    <3>2. \A c \in Clients : ~Holds(c, k)
      BY <2>0, <2>8 DEF Holds, ControlOK
    <3> QED  BY <3>1, <3>2
  <2>11. \A w \in Workers : ~Runs(w, k)
    BY <2>2, <2>4 DEF Runs
  <2> QED  BY <2>0, <2>1, <2>4, <2>9, <2>10, <2>11 DEF PlaceOK, FoundOK
<1> QED  BY <1>1, Invariance, PTL

(* The outcome of a job that is done does not change under those who look  *)
(* at it: CompleteJobState runs once per job, except for the exception of  *)
(* a stopped pool, which the wrapped job completes its own job with.       *)
THEOREM OutcomesFinal == Spec => OutcomesAreFinal
<1>1. Inv /\ [Next]_vars => [\A j \in done : j \in done' /\ (~stop => exception'[j] = exception[j])]_vars
  BY FinalNext DEF Final
<1> QED  BY <1>1, Invariance, PTL DEF Spec, OutcomesAreFinal

-----------------------------------------------------------------------------
(***************************************************************************)
(* JobGraph implements JobOutcomes: every step that a continuation, a      *)
(* counter or a flag of SubmitAfter takes is a step of the promise, or is  *)
(* not visible in it.  The invariant says where each job is, which is what *)
(* the guards of the promise ask; that a job without dependencies is in a  *)
(* queue when its handle is returned takes AloneOK besides.                *)
(***************************************************************************)

(* A job without dependencies has nothing to count down, so no worker ever *)
(* takes it further: the client that submits it enqueues it.               *)
AloneOK ==
  \A k \in Jobs : Deps[k] = <<>> => remaining[k] = 0 /\ \A w \in Workers : ~Holds(w, k)

LEMMA AloneNext == Inv /\ AloneOK /\ [Next]_vars => AloneOK'
<1> SUFFICES ASSUME Inv, AloneOK, [Next]_vars, NEW k \in Jobs, Deps[k] = <<>>
             PROVE  remaining'[k] = 0 /\ \A w \in Workers : ~Holds(w, k)'
  BY DEF AloneOK
<1> USE GraphAssumption DEF Threads
<1>0. TypeOK /\ ControlOK
  BY DEF Inv, Typed
<1>1. remaining[k] = 0 /\ \A w \in Workers : ~Holds(w, k)
  BY DEF AloneOK
<1> DEFINE Same == /\ remaining'[k] = 0
                   /\ \A w \in Workers : \/ pc'[w] \notin {"ready", "enqueue"}
                                         \/ target'[w] # k
                                         \/ pc[w] \in {"ready", "enqueue"} /\ target'[w] = target[w]
<1>2. SUFFICES Same
  BY <1>1 DEF Holds
<1>3. ASSUME NEW c \in Clients, NEW j \in Jobs, SubmitAfter(c, j) PROVE Same
  <2>1. remaining' = [remaining EXCEPT ![j] = Len(Deps[j])]
    BY <1>3 DEF SubmitAfter, CreateJob
  <2>2. Len(<<>>) = 0
    OBVIOUS
  <2>3. remaining'[k] = 0
    BY <1>0, <1>1, <2>1, <2>2 DEF TypeOK
  <2>4. \A w \in Workers : pc'[w] = pc[w] /\ target'[w] = target[w]
    BY <1>0, <1>3 DEF SubmitAfter, CreateJob, Goto, TypeOK
  <2> QED  BY <2>3, <2>4
<1>4. ASSUME NEW c \in Clients, AddContinuation(c) PROVE Same
  <2>1. running[c] # k
    <3>1. cursor[c] \in 1 .. Len(Deps[running[c]])
      <4>1. pc[c] = "register" /\ cursor[c] <= Len(Deps[running[c]])
        BY <1>4 DEF AddContinuation
      <4> QED  BY <4>1, Registering
    <3>2. Len(<<>>) = 0
      OBVIOUS
    <3> QED  BY <3>1, <3>2
  <2>2. remaining'[k] = remaining[k]
    BY <1>0, <1>4, <2>1 DEF AddContinuation, CountDown, TypeOK
  <2>3. \A w \in Workers : pc'[w] = pc[w] /\ target'[w] = target[w]
    BY <1>0, <1>4 DEF AddContinuation, CountDown, Goto, TypeOK
  <2> QED  BY <1>1, <2>2, <2>3
<1>5. ASSUME NEW u \in Threads, RunContinuation(u) PROVE Same
  <2>1. PICK j \in Jobs : j = Head(Head(todo[u])) /\ remaining[j] \in Nat \ {0}
    BY <1>5, Running DEF RunContinuation
  <2>2. j # k
    BY <1>1, <2>1
  <2>3. remaining'[k] = remaining[k] /\ target'[u] = j
    BY <1>0, <1>5, <2>1, <2>2 DEF RunContinuation, CountDown, TypeOK
  <2>4. \A w \in Workers \ {u} : pc'[w] = pc[w] /\ target'[w] = target[w]
    BY <1>0, <1>5 DEF RunContinuation, CountDown, Goto, TypeOK
  <2> QED  BY <1>1, <2>2, <2>3, <2>4
<1>6. ASSUME UNCHANGED remaining,
             \A w \in Workers : \/ pc'[w] \notin {"ready", "enqueue"}
                                \/ pc[w] \in {"ready", "enqueue"} /\ target'[w] = target[w]
      PROVE  Same
  BY <1>1, <1>6
<1> HIDE DEF Same
<1>7. ASSUME NEW c \in Clients, Return(c) PROVE Same
  BY <1>0, <1>6, <1>7 DEF Return, countVars, Goto, TypeOK
<1>8. ASSUME NEW u \in Threads, CompleteReturns(u) PROVE Same
  BY <1>0, <1>6, <1>8 DEF CompleteReturns, countVars, Goto, TypeOK
<1>9. ASSUME NEW u \in Threads, EnqueueWithState(u) PROVE Same
  BY <1>0, <1>6, <1>9 DEF EnqueueWithState, Enqueue, countVars, Goto, TypeOK
<1>10. ASSUME NEW u \in Threads, SubmitIfReady(u) PROVE Same
  BY <1>0, <1>6, <1>10 DEF SubmitIfReady, Publish, Goto, TypeOK
<1>11. ASSUME NEW w \in Workers, NEW j \in Jobs, Start(w, j) PROVE Same
  BY <1>0, <1>6, <1>11 DEF Start, countVars, Goto, TypeOK
<1>12. ASSUME NEW w \in Workers, BodyEnds(w) PROVE Same
  BY <1>0, <1>6, <1>12 DEF BodyEnds, Publish, countVars, Goto, TypeOK
<1>13. ASSUME NEW w \in Workers, EnqueueThrows(w) PROVE Same
  BY <1>0, <1>6, <1>13 DEF EnqueueThrows, Publish, countVars, Goto, TypeOK
<1>14. ASSUME NEW w \in Workers, ExecuteJobEnd(w) PROVE Same
  BY <1>0, <1>6, <1>14 DEF ExecuteJobEnd, countVars, Goto, TypeOK
<1>15. ASSUME NEW w \in Workers, WorkerExits(w) PROVE Same
  BY <1>0, <1>6, <1>15 DEF WorkerExits, WorkerLeaves, countVars, Goto, TypeOK
<1>16. CASE Destroy
  BY <1>6, <1>16 DEF Destroy, countVars
<1>17. CASE UNCHANGED vars
  BY <1>6, <1>17 DEF vars, countVars
<1> QED  BY <1>3, <1>4, <1>5, <1>7, <1>8, <1>9, <1>10, <1>11, <1>12, <1>13, <1>14, <1>15, <1>16, <1>17
            DEF Next, ClientStep, WorkerStep, CommonStep

LEMMA AloneInvariance == Spec => [](Inv /\ AloneOK)
<1>1. Init => Inv /\ AloneOK
  BY InvInit DEF Init, AloneOK, Holds, Threads
<1>2. Inv /\ AloneOK /\ [Next]_vars => (Inv /\ AloneOK)'
  BY InvNext, AloneNext
<1> QED  BY <1>1, <1>2, PTL DEF Spec

(* Who has the handle of a job without dependencies knows that it is in a  *)
(* queue, at least, as long as the pool lives.                             *)
LEMMA AloneBegun ==
  ASSUME Inv, AloneOK, ~stop, NEW k \in returned, Deps[k] = <<>>
  PROVE  Begun(k)
<1>1. k \in Jobs /\ k \in submitted /\ remaining[k] = 0 /\ \A w \in Workers : ~Holds(w, k)
  BY DEF Inv, Typed, TypeOK, AloneOK
<1>2. \A c \in Clients : ~Holds(c, k)
  <2> SUFFICES ASSUME NEW c \in Clients, Holds(c, k) PROVE FALSE
    OBVIOUS
  <2>1. running[c] = k /\ pc[c] # "idle"
    BY DEF Inv, Typed, ControlOK, Holds
  <2> QED  BY <2>1 DEF Inv, Typed, ControlOK
<1>3. FoundOK(k)
  BY <1>1 DEF Inv, PlaceOK
<1> QED  BY <1>1, <1>2, <1>3 DEF FoundOK, Begun, Runs, Threads

(* The variables of JobOutcomes, as JobGraph's Promise maps them.          *)
Phase == [k \in Jobs |-> IF k \notin submitted THEN "new"
                         ELSE IF k \in done THEN "done"
                         ELSE IF k \in queue THEN "queued"
                         ELSE IF \E w \in Workers : running[w] = k THEN "running"
                         ELSE IF Deps[k] = <<>> THEN "new"
                         ELSE "waiting"]

After == [k \in Jobs |-> IF k \in submitted THEN ToSet(Deps[k]) ELSE {}]

Needs == {k \in SuccessOnly \cap submitted : Deps[k] # <<>>}

LEMMA PromiseInit == Init => Promise!Init
<1> SUFFICES ASSUME Init PROVE Promise!Init
  OBVIOUS
<1>1. /\ Phase = [k \in Jobs |-> "new"] /\ After = [k \in Jobs |-> {}] /\ Needs = {}
      /\ exception = [k \in Jobs |-> None] /\ stop = FALSE
  BY DEF Init, Phase, After, Needs
<1> QED  BY <1>1 DEF Promise!Init, Phase, After, Needs

(* A step that moves one job, seen from the jobs it does not move.         *)
LEMMA PhaseMoves ==
  ASSUME NEW j \in Jobs, NEW to, Phase'[j] = to,
         \A k \in Jobs \ {j} : Phase'[k] = Phase[k]
  PROVE  Phase' = [Phase EXCEPT ![j] = to]
<1>1. DOMAIN Phase = Jobs /\ DOMAIN Phase' = Jobs
  BY DEF Phase
<1>2. Phase = [k \in Jobs |-> Phase[k]] /\ Phase' = [k \in Jobs |-> Phase'[k]]
  BY DEF Phase
<1> QED  BY <1>1, <1>2

(* Nothing of the promise changes.                                         *)
LEMMA PromiseStutters ==
  ASSUME UNCHANGED <<submitted, done, queue, exception, stop>>,
         \A w \in Workers : running'[w] = running[w]
  PROVE  UNCHANGED Promise!vars
<1>1. Phase' = Phase
  BY DEF Phase
<1>2. After' = After /\ Needs' = Needs
  BY DEF After, Needs
<1> QED  BY <1>1, <1>2 DEF Promise!vars, Phase, After, Needs

(* Where the invariant puts a job.                                         *)
LEMMA PhaseOf ==
  ASSUME Inv, NEW k \in Jobs
  PROVE  /\ done \subseteq submitted
         /\ k \in done => Phase[k] = "done"
         /\ k \in queue => Phase[k] = "queued"
         /\ \A w \in Workers : Runs(w, k) /\ pc[w] = "body" => Phase[k] = "running"
         /\ \A t \in Threads : Holds(t, k) => Phase[k] = IF Deps[k] = <<>> THEN "new" ELSE "waiting"
<1>1. done \subseteq submitted
  BY DEF Inv, Typed, TypeOK, PlaceOK, OnceOK
<1>2. QueuedOK(k) /\ RunsOK(k) /\ HeldOK(k) /\ OnceOK(k)
  BY DEF Inv, PlaceOK
<1>3. k \in done => Phase[k] = "done"
  BY <1>1 DEF Phase
<1>4. k \in queue => Phase[k] = "queued"
  BY <1>2 DEF Phase, QueuedOK, OnceOK
<1>5. ASSUME NEW w \in Workers, Runs(w, k), pc[w] = "body" PROVE Phase[k] = "running"
  <2>1. k \in submitted /\ k \notin done
    BY <1>2, <1>5 DEF RunsOK, OnceOK
  <2>2. k \notin queue
    BY <1>2, <1>5 DEF QueuedOK
  <2> QED  BY <1>5, <2>1, <2>2 DEF Phase, Runs
<1>6. ASSUME NEW t \in Threads, Holds(t, k) PROVE Phase[k] = IF Deps[k] = <<>> THEN "new" ELSE "waiting"
  <2>1. k \in submitted /\ k \notin done /\ k \notin queue /\ \A w \in Workers : ~Runs(w, k)
    BY <1>2, <1>6 DEF HeldOK
  <2> QED  BY <2>1 DEF Phase, Runs
<1> QED  BY <1>1, <1>3, <1>4, <1>5, <1>6

(* A job whose counter is zero is ready in the promise's sense, and the    *)
(* promise and SubmitIfReady agree on whether a dependency failed.         *)
LEMMA ReadyInPromise ==
  ASSUME Inv, NEW k \in submitted, remaining[k] = 0, Deps[k] # <<>>
  PROVE  /\ Promise!Ready(k)
         /\ Promise!DependencyFailed(k) <=> DependencyFailed(k)
<1>1. k \in Jobs /\ ToSet(Deps[k]) \subseteq done /\ After[k] = ToSet(Deps[k])
  BY ZeroMeansReady DEF Inv, Typed, TypeOK, After
<1>2. \A d \in After[k] : Phase[d] = "done"
  <2> SUFFICES ASSUME NEW d \in After[k] PROVE Phase[d] = "done"
    OBVIOUS
  <2>1. d \in done /\ d \in Jobs
    BY <1>1 DEF Inv, Typed, TypeOK
  <2> QED  BY <2>1, PhaseOf
<1>3. Promise!Ready(k)
  BY <1>2 DEF Promise!Ready, Phase, After
<1>4. Promise!DependencyFailed(k) <=> k \in Needs /\ \E d \in After[k] : exception[d] # None
  BY DEF Promise!DependencyFailed, Needs, After
<1>5. k \in Needs <=> k \in SuccessOnly
  BY DEF Needs
<1> QED  BY <1>1, <1>3, <1>4, <1>5 DEF DependencyFailed

LEMMA PromiseNext == Inv /\ AloneOK /\ [Next]_vars => [Promise!Next]_(Promise!vars)
<1> SUFFICES ASSUME Inv, AloneOK, [Next]_vars PROVE [Promise!Next]_(Promise!vars)
  OBVIOUS
<1> USE GraphAssumption
<1>0. TypeOK /\ ControlOK /\ PlaceOK
  BY DEF Inv, Typed
<1>1. ASSUME NEW c \in Clients, NEW k \in Jobs, SubmitAfter(c, k)
      PROVE  [Promise!Next]_(Promise!vars)
  <2>1. /\ ~stop /\ k \notin submitted /\ ToSet(Deps[k]) \subseteq returned
        /\ submitted' = submitted \cup {k}
        /\ UNCHANGED <<stop, queue, done, exception>>
    BY <1>1 DEF SubmitAfter, CreateJob, stateVars
  <2>2. \A w \in Workers : running'[w] = running[w]
    BY <1>0, <1>1 DEF SubmitAfter, CreateJob, TypeOK, Threads
  <2>3. k \notin queue \cup done /\ \A w \in Workers : running[w] # k
    BY <1>0, <2>1 DEF PlaceOK, QueuedOK, RunsOK, OnceOK, Runs
  <2>4. Phase[k] = "new" /\ Phase'[k] = IF Deps[k] = <<>> THEN "new" ELSE "waiting"
    BY <2>1, <2>2, <2>3 DEF Phase
  <2>5. ASSUME NEW x \in Jobs \ {k} PROVE Phase'[x] = Phase[x]
    BY <2>1, <2>2 DEF Phase
  <2>6. After' = [After EXCEPT ![k] = ToSet(Deps[k])]
    BY <2>1 DEF After
  <2>7. CASE Deps[k] = <<>>
    <3>1. Phase' = Phase
      <4>1. Phase' = [Phase EXCEPT ![k] = "new"]
        BY <2>4, <2>5, <2>7, PhaseMoves
      <4>2. Phase = [x \in Jobs |-> Phase[x]]
        BY DEF Phase
      <4> QED  BY <2>4, <4>1, <4>2
    <3>2. After' = After
      <4>1. ToSet(Deps[k]) = {} /\ After[k] = {}
        BY <2>1, <2>7 DEF After, ToSet
      <4>2. After = [x \in Jobs |-> After[x]]
        BY DEF After
      <4> QED  BY <2>6, <4>1, <4>2
    <3>3. Needs' = Needs
      BY <2>1, <2>7 DEF Needs
    <3>4. UNCHANGED Promise!vars
      BY <2>1, <3>1, <3>2, <3>3 DEF Promise!vars, Phase, After, Needs
    <3> QED  BY <3>4
  <2>8. CASE Deps[k] # <<>>
    <3>1. Phase' = [Phase EXCEPT ![k] = "waiting"]
      BY <2>4, <2>5, <2>8, PhaseMoves
    <3>2. Needs' = IF k \in SuccessOnly THEN Needs \cup {k} ELSE Needs
      BY <2>1, <2>8 DEF Needs
    <3>3. \A d \in ToSet(Deps[k]) : Phase[d] # "new"
      <4> SUFFICES ASSUME NEW d \in ToSet(Deps[k]) PROVE Phase[d] # "new"
        OBVIOUS
      <4>1. d \in returned /\ d \in submitted /\ d \in Jobs
        BY <1>0, <2>1 DEF TypeOK
      <4>2. Deps[d] = <<>> => Begun(d)
        BY <2>1, <4>1, AloneBegun
      <4> QED  BY <4>1, <4>2 DEF Phase, Begun
    <3>4. /\ ToSet(Deps[k]) \in SUBSET Jobs /\ (k \in SuccessOnly) \in BOOLEAN
          /\ ToSet(Deps[k]) # {}
      <4>1. Deps[k] \in Seq(Jobs) /\ Deps[k][1] \in ToSet(Deps[k])
        BY <2>8 DEF ToSet
      <4> QED  BY <1>0, <2>1, <4>1 DEF TypeOK
    <3>5. Promise!Submit(k, ToSet(Deps[k]), k \in SuccessOnly)
      BY <2>1, <2>4, <2>6, <3>1, <3>2, <3>3, <3>4 DEF Promise!Submit, Promise!Move, Phase, After, Needs
    <3>6. \E D \in SUBSET Jobs, strict \in BOOLEAN : Promise!Submit(k, D, strict)
      BY <3>4, <3>5
    <3> QED  BY <3>6 DEF Promise!Next, Promise!JobStep
  <2> QED  BY <2>7, <2>8
<1>2. ASSUME NEW t \in Threads, EnqueueWithState(t) PROVE Promise!Next
  <2>1. PICK k \in Jobs : k = target[t]
    BY <1>0, <1>2 DEF EnqueueWithState, Enqueue, TypeOK, ControlOK
  <2>2. /\ ~stop /\ pc[t] = "enqueue" /\ queue' = queue \cup {k}
        /\ UNCHANGED <<stop, submitted, done, exception, running>>
    BY <1>2, <2>1 DEF EnqueueWithState, Enqueue, stateVars, frameVars
  <2>3. Holds(t, k) /\ k \in submitted /\ remaining[k] = 0 /\ k \notin done
    BY <1>0, <2>1, <2>2 DEF PlaceOK, HeldOK, Holds
  <2>4. Phase[k] = IF Deps[k] = <<>> THEN "new" ELSE "waiting"
    BY <2>3, PhaseOf
  <2>5. Phase'[k] = "queued"
    BY <2>2, <2>3 DEF Phase
  <2>6. ASSUME NEW x \in Jobs \ {k} PROVE Phase'[x] = Phase[x]
    BY <2>2 DEF Phase
  <2>7. Phase' = [Phase EXCEPT ![k] = "queued"]
    BY <2>5, <2>6, PhaseMoves
  <2>8. After' = After /\ Needs' = Needs
    BY <2>2 DEF After, Needs
  <2>9. CASE Deps[k] = <<>>
    <3>1. After' = [After EXCEPT ![k] = {}]
      <4>1. After = [x \in Jobs |-> After[x]] /\ After[k] = {}
        BY <2>9 DEF After, ToSet
      <4> QED  BY <2>8, <4>1
    <3>2. Promise!Submit(k, {}, FALSE)
      BY <2>2, <2>4, <2>7, <2>8, <2>9, <3>1 DEF Promise!Submit, Promise!Move, Phase, After, Needs
    <3>3. \E D \in SUBSET Jobs, strict \in BOOLEAN : Promise!Submit(k, D, strict)
      BY <3>2
    <3> QED  BY <3>3 DEF Promise!Next, Promise!JobStep
  <2>10. CASE Deps[k] # <<>>
    <3>1. Promise!Ready(k) /\ ~Promise!DependencyFailed(k)
      BY <2>1, <2>2, <2>3, <2>10, ReadyInPromise DEF Inv, DecisionOK
    <3>2. Promise!Queue(k)
      BY <2>2, <2>4, <2>7, <2>8, <2>10, <3>1 DEF Promise!Queue, Promise!Move, Phase, After, Needs
    <3> QED  BY <3>2 DEF Promise!Next, Promise!JobStep
  <2> QED  BY <2>9, <2>10
<1>3. ASSUME NEW w \in Workers, NEW j \in Jobs, Start(w, j) PROVE Promise!Next
  <2>1. /\ j \in queue /\ queue' = queue \ {j} /\ pc[w] = "idle"
        /\ UNCHANGED <<stop, submitted, done, exception>>
    BY <1>3 DEF Start, stateVars
  <2>2. /\ running'[w] = j /\ running[w] = None
        /\ \A v \in Workers \ {w} : running'[v] = running[v]
    BY <1>0, <1>3 DEF Start, TypeOK, ControlOK, Threads
  <2>3. Phase[j] = "queued" /\ j \in submitted /\ j \notin done
    BY <1>0, <2>1, PhaseOf DEF PlaceOK, QueuedOK, OnceOK
  <2>4. Phase'[j] = "running"
    BY <2>1, <2>2, <2>3 DEF Phase
  <2>5. ASSUME NEW x \in Jobs \ {j} PROVE Phase'[x] = Phase[x]
    <3>1. (\E v \in Workers : running'[v] = x) <=> \E v \in Workers : running[v] = x
      BY <2>2
    <3>2. x \in queue' <=> x \in queue
      BY <2>1
    <3> QED  BY <2>1, <3>1, <3>2 DEF Phase
  <2>6. Phase' = [Phase EXCEPT ![j] = "running"]
    BY <2>4, <2>5, PhaseMoves
  <2>7. After' = After /\ Needs' = Needs
    BY <2>1 DEF After, Needs
  <2>8. Promise!Start(j)
    BY <2>1, <2>3, <2>6, <2>7 DEF Promise!Start, Promise!Move, Phase, After, Needs
  <2> QED  BY <2>8 DEF Promise!Next, Promise!JobStep
<1>4. ASSUME NEW w \in Workers, BodyEnds(w) PROVE Promise!Next
  <2>1. PICK j \in Jobs : j = running[w] /\ pc[w] = "body"
    BY <1>0, <1>4 DEF BodyEnds, TypeOK, ControlOK, Threads
  <2>2. PICK ex \in {None, "thrown"} : exception' = [exception EXCEPT ![j] = ex]
    BY <1>4, <2>1 DEF BodyEnds, Publish
  <2>3. done' = done \cup {j} /\ UNCHANGED <<stop, submitted, queue, running>>
    BY <1>4, <2>1 DEF BodyEnds, Publish
  <2>4. Phase[j] = "running" /\ j \in submitted
    BY <1>0, <2>1, PhaseOf DEF PlaceOK, RunsOK, OnceOK, Runs
  <2>5. Phase'[j] = "done"
    BY <2>3, <2>4 DEF Phase
  <2>6. ASSUME NEW x \in Jobs \ {j} PROVE Phase'[x] = Phase[x]
    BY <2>3 DEF Phase
  <2>7. Phase' = [Phase EXCEPT ![j] = "done"]
    BY <2>5, <2>6, PhaseMoves
  <2>8. After' = After /\ Needs' = Needs
    BY <2>3 DEF After, Needs
  <2>9. Promise!Finish(j, ex)
    BY <2>2, <2>3, <2>4, <2>7, <2>8 DEF Promise!Finish, Promise!Move, Phase, After, Needs
  <2> QED  BY <2>9 DEF Promise!Next, Promise!JobStep
<1>5. ASSUME NEW t \in Threads, SubmitIfReady(t) PROVE [Promise!Next]_(Promise!vars)
  <2>1. PICK k \in Jobs : k = target[t]
    BY <1>0, <1>5 DEF SubmitIfReady, TypeOK, ControlOK
  <2>2. Holds(t, k) /\ k \in submitted /\ remaining[k] = 0 /\ ~submitOnce[k]
    BY <1>0, <1>5, <2>1 DEF SubmitIfReady, PlaceOK, HeldOK, Holds
  <2>3. UNCHANGED <<stop, submitted, queue, running>>
    BY <1>5 DEF SubmitIfReady
  <2>4. CASE DependencyFailed(k) /\ Publish(t, k, "canceled", todo[t])
    <3>0. Deps[k] # <<>>
      BY <2>4 DEF DependencyFailed, ToSet
    <3>1. done' = done \cup {k} /\ exception' = [exception EXCEPT ![k] = "canceled"]
      BY <2>4 DEF Publish
    <3>2. Phase[k] = "waiting" /\ Phase'[k] = "done"
      BY <2>2, <2>3, <3>0, <3>1, PhaseOf DEF Phase
    <3>3. ASSUME NEW x \in Jobs \ {k} PROVE Phase'[x] = Phase[x]
      BY <2>3, <3>1 DEF Phase
    <3>4. Phase' = [Phase EXCEPT ![k] = "done"]
      BY <3>2, <3>3, PhaseMoves
    <3>5. After' = After /\ Needs' = Needs
      BY <2>3 DEF After, Needs
    <3>6. Promise!Ready(k) /\ Promise!DependencyFailed(k)
      BY <2>2, <2>4, <3>0, ReadyInPromise
    <3>7. Promise!Cancel(k)
      BY <2>3, <3>1, <3>2, <3>4, <3>5, <3>6 DEF Promise!Cancel, Promise!Move, Phase, After, Needs
    <3> QED  BY <3>7 DEF Promise!Next, Promise!JobStep
  <2>5. CASE UNCHANGED stateVars
    BY <2>3, <2>5, PromiseStutters DEF stateVars
  <2> QED  BY <1>5, <2>1, <2>2, <2>4, <2>5 DEF SubmitIfReady
<1>6. ASSUME NEW w \in Workers, EnqueueThrows(w) PROVE [Promise!Next]_(Promise!vars)
  <2>1. PICK j \in Jobs : j = running[w]
    BY <1>0, <1>6 DEF EnqueueThrows, TypeOK, ControlOK, Threads
  <2>2. j \in done
    BY <1>0, <1>6, <2>1 DEF EnqueueThrows, PlaceOK, RunsOK, Runs
  <2>3. stop /\ UNCHANGED <<stop, submitted, queue, running>>
    BY <1>6 DEF EnqueueThrows
  <2>4. CASE Publish(w, j, "rejected", <<>>)
    <3>1. done' = done /\ exception' = [exception EXCEPT ![j] = "rejected"]
      BY <2>2, <2>4 DEF Publish
    <3>2. Phase[j] = "done" /\ Phase' = Phase
      BY <2>2, <2>3, <3>1, PhaseOf DEF Phase
    <3>3. After' = After /\ Needs' = Needs
      BY <2>3 DEF After, Needs
    <3>4. Promise!Reject(j)
      BY <2>3, <3>1, <3>2, <3>3 DEF Promise!Reject, Phase, After, Needs
    <3> QED  BY <3>4 DEF Promise!Next, Promise!JobStep
  <2>5. CASE UNCHANGED stateVars
    BY <2>3, <2>5, PromiseStutters DEF stateVars
  <2> QED  BY <1>6, <2>1, <2>4, <2>5 DEF EnqueueThrows
<1>7. CASE Destroy
  <2>1. ~stop /\ stop' = TRUE /\ UNCHANGED <<submitted, queue, done, exception, running>>
    BY <1>7 DEF Destroy, stateVars, frameVars
  <2>2. Phase' = Phase /\ After' = After /\ Needs' = Needs
    BY <2>1 DEF Phase, After, Needs
  <2>3. Promise!Close
    BY <2>1, <2>2 DEF Promise!Close, Phase, After, Needs
  <2> QED  BY <2>3 DEF Promise!Next
<1>8. ASSUME UNCHANGED <<submitted, done, queue, exception, stop, running>> PROVE UNCHANGED Promise!vars
  BY <1>8, PromiseStutters
<1>9. ASSUME NEW c \in Clients, AddContinuation(c) PROVE UNCHANGED Promise!vars
  BY <1>8, <1>9 DEF AddContinuation
<1>10. ASSUME NEW c \in Clients, Return(c) PROVE UNCHANGED Promise!vars
  <2>1. \A w \in Workers : running'[w] = running[w]
    BY <1>0, <1>10 DEF Return, TypeOK, Threads
  <2> QED  BY <1>10, <2>1, PromiseStutters DEF Return, stateVars
<1>11. ASSUME NEW t \in Threads, RunContinuation(t) PROVE UNCHANGED Promise!vars
  BY <1>8, <1>11 DEF RunContinuation, stateVars
<1>12. ASSUME NEW t \in Threads, CompleteReturns(t) PROVE UNCHANGED Promise!vars
  BY <1>8, <1>12 DEF CompleteReturns, stateVars
<1>13. ASSUME NEW w \in Workers, WorkerExits(w) PROVE UNCHANGED Promise!vars
  BY <1>8, <1>13 DEF WorkerExits, WorkerLeaves, stateVars, frameVars
<1>14. ASSUME NEW w \in Workers, ExecuteJobEnd(w) PROVE UNCHANGED Promise!vars
  <2>1. PICK j \in Jobs : j = running[w]
    BY <1>0, <1>14 DEF ExecuteJobEnd, TypeOK, ControlOK, Threads
  <2>2. j \in done
    BY <1>0, <1>14, <2>1 DEF ExecuteJobEnd, PlaceOK, RunsOK, Runs
  <2>3. UNCHANGED <<submitted, done, queue, exception, stop>>
    BY <1>14 DEF ExecuteJobEnd, stateVars
  <2>4. running'[w] = None /\ \A v \in Workers \ {w} : running'[v] = running[v]
    BY <1>0, <1>14 DEF ExecuteJobEnd, TypeOK, Threads
  <2>5. ASSUME NEW x \in Jobs PROVE Phase'[x] = Phase[x]
    <3>1. CASE x = j
      BY <2>2, <2>3, <3>1 DEF Phase
    <3>2. CASE x # j
      <4>1. (\E v \in Workers : running'[v] = x) <=> \E v \in Workers : running[v] = x
        BY <2>1, <2>4, <3>2
      <4> QED  BY <2>3, <4>1 DEF Phase
    <3> QED  BY <3>1, <3>2
  <2>6. Phase' = Phase
    <3>1. Phase = [k \in Jobs |-> Phase[k]] /\ Phase' = [k \in Jobs |-> Phase'[k]]
      BY DEF Phase
    <3> QED  BY <2>5, <3>1
  <2>7. After' = After /\ Needs' = Needs
    BY <2>3 DEF After, Needs
  <2> QED  BY <2>3, <2>6, <2>7 DEF Promise!vars, Phase, After, Needs
<1>15. CASE UNCHANGED vars
  BY <1>8, <1>15 DEF vars, stateVars, frameVars
<1> QED  BY <1>1, <1>2, <1>3, <1>4, <1>5, <1>6, <1>7, <1>9, <1>10, <1>11, <1>12, <1>13, <1>14, <1>15
            DEF Next, ClientStep, WorkerStep, CommonStep

-----------------------------------------------------------------------------
(* SubmitAfter and SubmitAfterAllSucceeded keep the promise of             *)
(* JobOutcomes: a job starts once, after every job it was submitted after, *)
(* or is canceled once because one of those failed; only the destruction   *)
(* of the pool can replace an outcome or leave a job waiting.              *)
THEOREM GraphImplementsOutcomes == Spec => ImplementsJobOutcomes
<1>1. Init => Promise!Init
  BY PromiseInit
<1>2. Inv /\ AloneOK /\ [Next]_vars => [Promise!Next]_(Promise!vars)
  BY PromiseNext
<1> QED  BY <1>1, <1>2, AloneInvariance, PTL DEF Spec, Promise!Spec, ImplementsJobOutcomes

=============================================================================
