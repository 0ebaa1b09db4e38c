------------------------------ MODULE PoolStats ------------------------------
(***************************************************************************)
(* The statistics of src/ThreadPool.cpp: four counters per worker, bumped  *)
(* at different points of a job's way, and a client that reads them, one   *)
(* counter after another, while jobs run and after WaitAll, and resets     *)
(* them between rounds of work, as Days 5, 22 and 26 do.                   *)
(*                                                                         *)
(* Scheduling is ThreadPool's subject: here a queue is only the number of  *)
(* jobs in it, and any of them may be taken by anybody.                    *)
(***************************************************************************)
EXTENDS Integers, FiniteSets, FiniteSetsExt

CONSTANTS
  Workers,    \* threads with counters of their own
  Helpers,    \* calls of WaitWithHelping that run jobs, on whatever thread
  MaxJobs,    \* bound: jobs submitted in a round
  MaxRounds   \* bound: rounds

ASSUME StatsAssumption ==
  /\ IsFiniteSet(Workers) /\ IsFiniteSet(Helpers)
  /\ Workers \cap Helpers = {}
  /\ MaxJobs \in Nat /\ MaxRounds \in Nat

Runners  == Workers \cup Helpers
Counters == {"local", "global", "steal", "processed"}

(* The order of QueueStats's members, in which GetQueueStats loads a       *)
(* worker's counters and ResetStats clears them, each on its own.          *)
Order == <<"processed", "local", "global", "steal">>

VARIABLES
  globalJobs, localJobs, \* jobs in _jobQueue, in all local queues
  pendingJobs,           \* _pendingJobs
  stats,                 \* _localPopCount, _globalPopCount, _stealCount, _perThreadJobCount
  external, nested,      \* jobs submitted in this round by the client, by bodies
  helped,                \* of these, the ones a helper took, by queue
  round,                 \* of the client
  pc,                    \* what a runner does next
  phase,                 \* what the client does next
  done,                  \* by worker, how many of its counters the client's
                         \* GetQueueStats or ResetStats has dealt with
  seen                   \* by worker, what its GetQueueStats has loaded

queueVars == <<globalJobs, localJobs, external, nested>>
client == <<round, phase, done, seen>>
vars == <<queueVars, pendingJobs, stats, helped, pc, client>>

NoCounts == [w \in Workers |-> [k \in Counters |-> 0]]
Untouched == [w \in Workers |-> 0]

Init ==
  /\ globalJobs = 0 /\ localJobs = 0 /\ external = 0 /\ nested = 0
  /\ pendingJobs = 0
  /\ stats = NoCounts
  /\ helped = [q \in {"local", "global"} |-> 0]
  /\ round = 1
  /\ pc = [r \in Runners |-> "idle"]
  /\ phase = "submit" /\ done = Untouched /\ seen = NoCounts

Goto(r, to) == pc' = [pc EXCEPT ![r] = to]
Bump(w, k)  == stats' = [stats EXCEPT ![w][k] = @ + 1]

-----------------------------------------------------------------------------
(* Submission, from outside and from a body.                               *)

SubmitExternal ==
  /\ phase = "submit"
  /\ external + nested < MaxJobs
  /\ globalJobs' = globalJobs + 1 /\ external' = external + 1
  /\ pendingJobs' = pendingJobs + 1
  /\ UNCHANGED <<localJobs, nested, stats, helped, pc, client>>

SubmitNested(w) ==
  /\ pc[w] = "body"
  /\ external + nested < MaxJobs
  /\ localJobs' = localJobs + 1 /\ nested' = nested + 1
  /\ pendingJobs' = pendingJobs + 1
  /\ UNCHANGED <<globalJobs, external, stats, helped, pc, client>>

-----------------------------------------------------------------------------
(* A worker counts its local pop or its theft under the queue's mutex, but *)
(* its global pop after it; a helper counts nothing.                       *)

PopLocal(w) ==
  /\ pc[w] = "idle" /\ localJobs > 0
  /\ localJobs' = localJobs - 1
  /\ Bump(w, "local")
  /\ Goto(w, "body")
  /\ UNCHANGED <<globalJobs, external, nested, pendingJobs, helped, client>>

Steal(w) ==
  /\ pc[w] = "idle" /\ localJobs > 0
  /\ localJobs' = localJobs - 1
  /\ Bump(w, "steal")
  /\ Goto(w, "body")
  /\ UNCHANGED <<globalJobs, external, nested, pendingJobs, helped, client>>

PopGlobal(w) ==
  /\ pc[w] = "idle" /\ globalJobs > 0
  /\ globalJobs' = globalJobs - 1
  /\ Goto(w, "popped")
  /\ UNCHANGED <<localJobs, external, nested, pendingJobs, stats, helped, client>>

CountGlobalPop(w) ==
  /\ pc[w] = "popped"
  /\ Bump(w, "global")
  /\ Goto(w, "body")
  /\ UNCHANGED <<queueVars, pendingJobs, helped, client>>

HelperPop(h) ==
  /\ pc[h] = "idle"
  /\ \/ /\ globalJobs > 0
        /\ globalJobs' = globalJobs - 1
        /\ helped' = [helped EXCEPT !["global"] = @ + 1]
        /\ UNCHANGED localJobs
     \/ /\ localJobs > 0
        /\ localJobs' = localJobs - 1
        /\ helped' = [helped EXCEPT !["local"] = @ + 1]
        /\ UNCHANGED globalJobs
  /\ Goto(h, "body")
  /\ UNCHANGED <<external, nested, pendingJobs, stats, client>>

BodyEnds(r) ==
  /\ pc[r] = "body"
  /\ Goto(r, IF r \in Workers THEN "count" ELSE "retire")
  /\ UNCHANGED <<queueVars, pendingJobs, stats, helped, client>>

(* ExecuteJob: the job is counted, then it stops being pending.            *)
CountProcessed(w) ==
  /\ pc[w] = "count"
  /\ Bump(w, "processed")
  /\ Goto(w, "retire")
  /\ UNCHANGED <<queueVars, pendingJobs, helped, client>>

Retire(r) ==
  /\ pc[r] = "retire"
  /\ pendingJobs' = pendingJobs - 1
  /\ Goto(r, "idle")
  /\ UNCHANGED <<queueVars, stats, helped, client>>

-----------------------------------------------------------------------------
(* The client: WaitAll, and calls of GetQueueStats and ResetStats, which   *)
(* go from worker to worker and from counter to counter.  GetQueueStats is *)
(* called while jobs run as well as after WaitAll, ResetStats only after   *)
(* it, as in Day 5.                                                        *)

At(n)   == \A w \in Workers : done[w] = n
Turn(w) == done[w] < 4 /\ \A v \in Workers \ {w} : done[v] \in {0, 4}

BeginWaitAll ==
  /\ phase = "submit"
  /\ phase' = "wait"
  /\ UNCHANGED <<queueVars, pendingJobs, stats, helped, pc, round, done, seen>>

EndWaitAllQueuesEmpty ==   \* bug: it does not wait for the jobs being executed
  /\ phase = "wait"
  /\ globalJobs = 0 /\ localJobs = 0
  /\ phase' = "read"
  /\ UNCHANGED <<queueVars, pendingJobs, stats, helped, pc, round, done, seen>>

EndWaitAll ==
  /\ phase = "wait"
  /\ pendingJobs = 0
  /\ phase' = "read"
  /\ UNCHANGED <<queueVars, pendingJobs, stats, helped, pc, round, done, seen>>

BeginGet ==
  /\ phase = "submit"
  /\ phase' = "get"
  /\ UNCHANGED <<queueVars, pendingJobs, stats, helped, pc, round, done, seen>>

GetQueueStatsReversed(w) ==   \* bug: QueueStats with jobsProcessed as its last member
  /\ phase \in {"get", "read"} /\ Turn(w)
  /\ LET k == Order[4 - done[w]] IN seen' = [seen EXCEPT ![w][k] = stats[w][k]]
  /\ done' = [done EXCEPT ![w] = @ + 1]
  /\ UNCHANGED <<queueVars, pendingJobs, stats, helped, pc, round, phase>>

(* One counter.                                                            *)
GetQueueStats(w) ==
  /\ phase \in {"get", "read"} /\ Turn(w)
  /\ LET k == Order[done[w] + 1] IN seen' = [seen EXCEPT ![w][k] = stats[w][k]]
  /\ done' = [done EXCEPT ![w] = @ + 1]
  /\ UNCHANGED <<queueVars, pendingJobs, stats, helped, pc, round, phase>>

EndGet ==
  /\ phase = "get" /\ At(4)
  /\ phase' = "submit"
  /\ done' = Untouched /\ seen' = NoCounts
  /\ UNCHANGED <<queueVars, pendingJobs, stats, helped, pc, round>>

BeginReset ==
  /\ phase = "read" /\ (At(0) \/ At(4))
  /\ round < MaxRounds
  /\ phase' = "reset"
  /\ done' = Untouched /\ seen' = NoCounts
  /\ UNCHANGED <<queueVars, pendingJobs, stats, helped, pc, round>>

(* One counter.                                                            *)
ResetStats(w) ==
  /\ phase = "reset" /\ Turn(w)
  /\ stats' = [stats EXCEPT ![w][Order[done[w] + 1]] = 0]
  /\ done' = [done EXCEPT ![w] = @ + 1]
  /\ UNCHANGED <<queueVars, pendingJobs, helped, pc, round, phase, seen>>

EndReset ==
  /\ phase = "reset" /\ At(4)
  /\ phase' = "submit" /\ round' = round + 1
  /\ done' = Untouched
  /\ external' = 0 /\ nested' = 0
  /\ helped' = [q \in {"local", "global"} |-> 0]
  /\ UNCHANGED <<globalJobs, localJobs, pendingJobs, stats, pc, seen>>

Next ==
  \/ SubmitExternal
  \/ \E w \in Workers : \/ PopLocal(w) \/ Steal(w) \/ PopGlobal(w) \/ CountGlobalPop(w)
                        \/ SubmitNested(w) \/ CountProcessed(w)
                        \/ GetQueueStats(w) \/ ResetStats(w)
  \/ \E h \in Helpers : HelperPop(h)
  \/ \E r \in Runners : BodyEnds(r) \/ Retire(r)
  \/ BeginWaitAll \/ EndWaitAll \/ BeginGet \/ EndGet \/ BeginReset \/ EndReset
  \/ phase = "read" /\ At(4) /\ UNCHANGED vars

Spec == Init /\ [][Next]_vars

-----------------------------------------------------------------------------
(* Properties.                                                             *)

TotalOf(st, k) == MapThenSumSet(LAMBDA w : st[w][k], Workers)

(* What Days 22 and 26 check of the statistics they read after WaitAll:    *)
(* every external job is a global pop, every nested one a local pop or a   *)
(* theft, and each was counted as processed before it stopped being        *)
(* pending; only helpers' jobs miss.                                       *)
StatsExactAfterWaitAll ==
  phase = "read" /\ At(4) =>
    /\ TotalOf(seen, "global") + helped["global"] = external
    /\ TotalOf(seen, "local") + TotalOf(seen, "steal") + helped["local"] = nested
    /\ TotalOf(seen, "processed")
         = TotalOf(seen, "global") + TotalOf(seen, "local") + TotalOf(seen, "steal")

(* The counters are loaded one after another while workers go on popping   *)
(* and counting, so what GetQueueStats returns of a worker is no moment of *)
(* its; but it never shows more jobs processed than taken from the queues, *)
(* because jobsProcessed is loaded first.                                  *)
NoReaderSeesAhead ==
  phase = "get" =>
    \A w \in Workers : done[w] = 4 =>
      seen[w]["processed"] <= seen[w]["local"] + seen[w]["global"] + seen[w]["steal"]
=============================================================================
