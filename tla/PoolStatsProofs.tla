-------------------------- MODULE PoolStatsProofs --------------------------
(***************************************************************************)
(* Theorems about PoolStats, for every set of workers and helpers and any  *)
(* number of jobs and rounds.                                              *)
(*                                                                         *)
(* The counters of a round are balanced against the jobs still queued and  *)
(* those popped but not yet counted, and the pending counter against the   *)
(* jobs queued or being executed.  When it is zero nothing is left but the *)
(* counters, and they stand still while they are read.  While jobs run, a  *)
(* reader's early value of one counter is bounded by what the ones it has  *)
(* not loaded are now.                                                     *)
(***************************************************************************)
EXTENDS PoolStats, DataLemmas, TLAPS

-----------------------------------------------------------------------------
(* The invariant.                                                          *)

StatsTypeOK ==
  /\ globalJobs \in Nat /\ localJobs \in Nat /\ pendingJobs \in Int
  /\ external \in Nat /\ nested \in Nat
  /\ stats \in [Workers -> [Counters -> Nat]]
  /\ helped \in [{"local", "global"} -> Nat]
  /\ pc \in [Runners -> {"idle", "popped", "body", "count", "retire"}]
  /\ phase \in {"submit", "get", "wait", "read", "reset"}
  /\ done \in [Workers -> 0..4]
  /\ seen \in [Workers -> [Counters -> Nat]]

Busy   == {r \in Runners : pc[r] # "idle"}
Popped == {w \in Workers : pc[w] = "popped"}

(* _pendingJobs counts the jobs queued and those being executed.           *)
PendingOK ==
  /\ pendingJobs = globalJobs + localJobs + Cardinality(Busy)
  /\ phase \in {"read", "reset"} => pendingJobs = 0

Total(k) == TotalOf(stats, k)

(* Where each submitted job of the round has been counted or still is.     *)
RoundOK ==
  phase # "reset" =>
    /\ external = globalJobs + Cardinality(Popped) + Total("global") + helped["global"]
    /\ nested = localJobs + Total("local") + Total("steal") + helped["local"]

(* A worker is behind by the job whose body it is in or has just left.     *)
Behind(w) == IF pc[w] \in {"body", "count"} THEN 1 ELSE 0

WorkersOK ==
  phase # "reset" =>
    \A w \in Workers :
      stats[w]["local"] + stats[w]["global"] + stats[w]["steal"] = stats[w]["processed"] + Behind(w)

ResetOK == phase = "reset" => \A w \in Workers : \A i \in 1..done[w] : stats[w][Order[i]] = 0

(* The i-th counter of a worker: what the reader has loaded, or would now. *)
Got(w, i) == IF i <= done[w] THEN seen[w][Order[i]] ELSE stats[w][Order[i]]

(* What was processed when it was loaded had been popped by then.          *)
AheadOK ==
  phase = "get" => \A w \in Workers : done[w] >= 1 =>
    seen[w]["processed"] <= Got(w, 2) + Got(w, 3) + Got(w, 4)

(* After WaitAll the counters stand still while they are read.             *)
ReadOK == phase = "read" => \A w \in Workers, i \in 1..4 : Got(w, i) = stats[w][Order[i]]

(* Only a call in progress has dealt with counters.                        *)
IdleOK == phase \in {"submit", "wait"} => At(0)

ReaderOK == AheadOK /\ ReadOK /\ IdleOK

StatsInv == StatsTypeOK /\ PendingOK /\ RoundOK /\ WorkersOK /\ ResetOK /\ ReaderOK

-----------------------------------------------------------------------------
(* Sums of a counter over the workers.                                     *)

Column(st, k) == [w \in Workers |-> st[w][k]]

LEMMA TotalIsSum ==
  ASSUME NEW st, NEW k
  PROVE  TotalOf(st, k) = SumOf(Column(st, k), Workers)
<1> DEFINE F == Column(st, k)
           Is(g) == g = [s \in SUBSET Workers |->
                           IF s = {} THEN 0 ELSE st[Pick(s)][k] + g[s \ {Pick(s)}]]
<1>1. TotalOf(st, k) = (CHOOSE g : Is(g))[Workers]
  BY DEF TotalOf, MapThenSumSet, MapThenFoldSet, Pick
<1>2. \A s \in SUBSET Workers : s # {} => st[Pick(s)][k] = F[Pick(s)]
  <2>1. \A s \in SUBSET Workers : s # {} => Pick(s) \in Workers
    BY DEF Pick
  <2> QED  BY <2>1 DEF Column
<1>3. \A g : Is(g) <=> IsSum(g, F, Workers)
  <2> HIDE DEF F
  <2> QED  BY <1>2 DEF IsSum
<1>4. PICK h : IsSum(h, F, Workers) /\ SumOf(F, Workers) = h[Workers]
  <2> HIDE DEF F
  <2> QED  BY StatsAssumption, SumIsSum
<1>5. Is(CHOOSE g : Is(g))
  <2> HIDE DEF Is
  <2> QED  BY <1>3, <1>4
<1> DEFINE g == CHOOSE f : Is(f)
<1>6. IsSum(g, F, Workers)
  BY <1>3, <1>5
<1>7. g[Workers] = h[Workers]
  <2> HIDE DEF F, g
  <2> QED  BY <1>4, <1>6, StatsAssumption, SumUnique
<1> QED  BY <1>1, <1>4, <1>7

LEMMA TotalIs ==
  ASSUME NEW k
  PROVE  /\ Total(k) = SumOf(Column(stats, k), Workers)
         /\ Total(k)' = SumOf(Column(stats', k), Workers)
<1>1. Total(k) = TotalOf(stats, k) /\ Total(k)' = TotalOf(stats', k)
  BY DEF Total
<1> QED  BY <1>1, TotalIsSum

LEMMA TotalType ==
  ASSUME StatsTypeOK, NEW k \in Counters
  PROVE  Total(k) \in Int
<1>1. \A w \in Workers : Column(stats, k)[w] \in Int
  BY DEF StatsTypeOK, Column
<1> QED  BY <1>1, TotalIs, StatsAssumption, SumType

LEMMA TotalBump ==
  ASSUME StatsTypeOK, NEW w \in Workers, NEW c \in Counters, Bump(w, c)
  PROVE  /\ stats' \in [Workers -> [Counters -> Nat]]
         /\ \A v \in Workers, k \in Counters :
              stats'[v][k] = stats[v][k] + IF v = w /\ k = c THEN 1 ELSE 0
         /\ \A k \in Counters : Total(k)' = Total(k) + IF k = c THEN 1 ELSE 0
<1>1. stats' \in [Workers -> [Counters -> Nat]]
  BY DEF StatsTypeOK, Bump
<1>2. \A v \in Workers, k \in Counters :
        stats'[v][k] = stats[v][k] + IF v = w /\ k = c THEN 1 ELSE 0
  BY DEF StatsTypeOK, Bump
<1>3. ASSUME NEW k \in Counters PROVE Total(k)' = Total(k) + IF k = c THEN 1 ELSE 0
  <2>1. \A v \in Workers :
          /\ Column(stats, k)[v] = stats[v][k] /\ stats[v][k] \in Int
          /\ Column(stats', k)[v] = stats'[v][k] /\ stats'[v][k] \in Int
    BY <1>1 DEF StatsTypeOK, Column
  <2>2. \A v \in Workers \ {w} : Column(stats, k)[v] = Column(stats', k)[v]
    BY <1>2, <2>1
  <2>3. SumOf(Column(stats', k), Workers) = SumOf(Column(stats, k), Workers) + (stats'[w][k] - stats[w][k])
    <3>1. \A v \in Workers : Column(stats, k)[v] \in Int /\ Column(stats', k)[v] \in Int
      BY <2>1
    <3>2. SumOf(Column(stats', k), Workers)
            = SumOf(Column(stats, k), Workers) + (Column(stats', k)[w] - Column(stats, k)[w])
      BY <3>1, <2>2, StatsAssumption, SumChange
    <3> QED  BY <3>2, <2>1
  <2>4. stats'[w][k] - stats[w][k] = IF k = c THEN 1 ELSE 0
    BY <1>2, <2>1
  <2> QED  BY <2>3, <2>4, TotalIs
<1> QED  BY <1>1, <1>2, <1>3

LEMMA TotalZero ==
  ASSUME NEW k \in Counters, \A w \in Workers : stats[w][k] = 0
  PROVE  Total(k) = 0
<1>1. \A w \in Workers : Column(stats, k)[w] = 0
  BY DEF Column
<1> QED  BY <1>1, TotalIs, StatsAssumption, SumZero

-----------------------------------------------------------------------------
(* Who is busy before and after a runner moves.                            *)

LEMMA BusyFinite ==
  /\ IsFiniteSet(Busy) /\ Cardinality(Busy) \in Nat
  /\ IsFiniteSet(Popped) /\ Cardinality(Popped) \in Nat
<1>1. IsFiniteSet(Runners)
  BY StatsAssumption, FS_Union DEF Runners
<1>2. Busy \in SUBSET Runners /\ Popped \in SUBSET Workers
  BY DEF Busy, Popped
<1>3. IsFiniteSet(Busy) /\ IsFiniteSet(Popped)
  BY <1>1, <1>2, StatsAssumption, FS_Subset
<1> QED  BY <1>3, FS_CardinalityType

InBusy(at)   == IF at # "idle" THEN 1 ELSE 0
InPopped(at) == IF at = "popped" THEN 1 ELSE 0

LEMMA Goes ==
  ASSUME StatsTypeOK, NEW r \in Runners,
         NEW to \in {"idle", "popped", "body", "count", "retire"}, Goto(r, to)
  PROVE  /\ pc' \in [Runners -> {"idle", "popped", "body", "count", "retire"}]
         /\ pc'[r] = to /\ \A q \in Runners \ {r} : pc'[q] = pc[q]
         /\ Cardinality(Busy)' = Cardinality(Busy) + InBusy(to) - InBusy(pc[r])
         /\ r \in Workers =>
              Cardinality(Popped)' = Cardinality(Popped) + InPopped(to) - InPopped(pc[r])
         /\ r \notin Workers => Cardinality(Popped)' = Cardinality(Popped)
<1>1. /\ pc' \in [Runners -> {"idle", "popped", "body", "count", "retire"}]
      /\ pc'[r] = to /\ \A q \in Runners \ {r} : pc'[q] = pc[q]
  BY DEF StatsTypeOK, Goto
<1>2. Busy' = IF to # "idle" THEN Busy \cup {r} ELSE Busy \ {r}
  BY <1>1 DEF Busy
<1>3. r \in Busy <=> pc[r] # "idle"
  BY DEF Busy
<1>4. Cardinality(Busy)' = Cardinality(Busy) + InBusy(to) - InBusy(pc[r])
  <2>1. /\ Cardinality(Busy \cup {r}) = IF r \in Busy THEN Cardinality(Busy) ELSE Cardinality(Busy) + 1
        /\ Cardinality(Busy \ {r}) = IF r \in Busy THEN Cardinality(Busy) - 1 ELSE Cardinality(Busy)
    BY BusyFinite, FS_AddElement, FS_RemoveElement
  <2>2. Cardinality(Busy)' = IF to # "idle" THEN Cardinality(Busy \cup {r}) ELSE Cardinality(Busy \ {r})
    BY <1>2
  <2> QED  BY <2>1, <2>2, <1>3, BusyFinite DEF InBusy
<1>5. ASSUME r \in Workers
      PROVE  Cardinality(Popped)' = Cardinality(Popped) + InPopped(to) - InPopped(pc[r])
  <2>1. Popped' = IF to = "popped" THEN Popped \cup {r} ELSE Popped \ {r}
    BY <1>1, <1>5 DEF Popped, Runners
  <2>2. r \in Popped <=> pc[r] = "popped"
    BY <1>5 DEF Popped
  <2>3. /\ Cardinality(Popped \cup {r}) = IF r \in Popped THEN Cardinality(Popped) ELSE Cardinality(Popped) + 1
        /\ Cardinality(Popped \ {r}) = IF r \in Popped THEN Cardinality(Popped) - 1 ELSE Cardinality(Popped)
    BY BusyFinite, FS_AddElement, FS_RemoveElement
  <2>4. Cardinality(Popped)' = IF to = "popped" THEN Cardinality(Popped \cup {r}) ELSE Cardinality(Popped \ {r})
    BY <2>1
  <2> QED  BY <2>2, <2>3, <2>4, BusyFinite DEF InPopped
<1>6. ASSUME r \notin Workers PROVE Popped' = Popped
  BY <1>1, <1>6 DEF Popped, Runners
<1> QED  BY <1>1, <1>4, <1>5, <1>6

LEMMA TotalSame ==
  ASSUME UNCHANGED stats, NEW k
  PROVE  Total(k)' = Total(k)
  BY TotalIs

LEMMA NobodyMoves ==
  ASSUME UNCHANGED pc
  PROVE  /\ Cardinality(Busy)' = Cardinality(Busy)
         /\ Cardinality(Popped)' = Cardinality(Popped)
         /\ \A w : Behind(w)' = Behind(w)
  BY DEF Busy, Popped, Behind

LEMMA TotalTypes ==
  ASSUME StatsTypeOK
  PROVE  Total("local") \in Int /\ Total("global") \in Int /\ Total("steal") \in Int
  BY TotalType DEF Counters

(* A job that is counted in the pending counter keeps WaitAll from ending. *)
LEMMA NobodyBusy ==
  ASSUME StatsInv, pendingJobs = 0
  PROVE  /\ globalJobs = 0 /\ localJobs = 0 /\ Cardinality(Popped) = 0
         /\ \A r \in Runners : pc[r] = "idle"
<1>1. globalJobs = 0 /\ localJobs = 0 /\ Cardinality(Busy) = 0
  <2>1. globalJobs + localJobs + Cardinality(Busy) = 0
    BY DEF StatsInv, PendingOK
  <2>2. globalJobs \in Nat /\ localJobs \in Nat /\ Cardinality(Busy) \in Nat
    BY BusyFinite DEF StatsInv, StatsTypeOK
  <2>3. \A a, b, c \in Nat : a + b + c = 0 => a = 0 /\ b = 0 /\ c = 0
    OBVIOUS
  <2> QED  BY <2>1, <2>2, <2>3
<1>2. Busy = {}
  BY <1>1, BusyFinite, FS_EmptySet
<1>3. Popped = {}
  BY <1>2 DEF Busy, Popped, Runners
<1> QED  BY <1>1, <1>2, <1>3, FS_EmptySet DEF Busy

LEMMA BusyPending ==
  ASSUME StatsInv, NEW r \in Runners, pc[r] # "idle"
  PROVE  phase \in {"submit", "get", "wait"}
  BY NobodyBusy DEF StatsInv, StatsTypeOK, PendingOK

(* Runners only let counters grow, and none while they are read after      *)
(* WaitAll or cleared.                                                     *)
LEMMA ReaderKeeps ==
  ASSUME StatsInv, UNCHANGED client, stats' \in [Workers -> [Counters -> Nat]],
         \A w \in Workers, k \in Counters : stats'[w][k] >= stats[w][k],
         phase \in {"read", "reset"} => UNCHANGED stats
  PROVE  ResetOK' /\ ReaderOK'
<1> USE DEF client
<1>1. ResetOK'
  BY DEF StatsInv, ResetOK
<1>2. AheadOK'
  <2> SUFFICES ASSUME phase = "get", NEW w \in Workers, done[w] >= 1
               PROVE  seen[w]["processed"] <= Got(w, 2)' + Got(w, 3)' + Got(w, 4)'
    BY DEF AheadOK
  <2>1. seen[w]["processed"] <= Got(w, 2) + Got(w, 3) + Got(w, 4)
    BY DEF StatsInv, ReaderOK, AheadOK
  <2>2. \A i \in 2..4 : Order[i] \in Counters
    BY DEF Order, Counters
  <2>3. \A i \in 2..4 : Got(w, i) \in Nat /\ Got(w, i)' \in Nat /\ Got(w, i)' >= Got(w, i)
    BY <2>2 DEF Got, StatsInv, StatsTypeOK
  <2>4. seen[w]["processed"] \in Nat
    BY DEF StatsInv, StatsTypeOK, Counters
  <2> HIDE DEF Got
  <2> QED  BY <2>1, <2>3, <2>4
<1>3. ReadOK' /\ IdleOK'
  BY DEF StatsInv, ReaderOK, ReadOK, IdleOK, Got, At
<1> QED  BY <1>1, <1>2, <1>3 DEF ReaderOK

LEMMA StatsSame ==
  ASSUME StatsInv, UNCHANGED <<client, stats>>
  PROVE  ResetOK' /\ ReaderOK'
<1>1. UNCHANGED client /\ UNCHANGED stats
  OBVIOUS
<1>2. \A w \in Workers, k \in Counters : stats[w][k] >= stats[w][k]
  BY DEF StatsInv, StatsTypeOK
<1> QED  BY <1>1, <1>2, ReaderKeeps DEF StatsInv, StatsTypeOK

-----------------------------------------------------------------------------
(* Every action keeps the invariant.                                       *)

LEMMA SubmitExternalKeeps ==
  ASSUME StatsInv, SubmitExternal
  PROVE  StatsInv'
<1> USE NobodyMoves, TotalSame, TotalTypes, BusyFinite DEF StatsInv, SubmitExternal, client
<1>1. StatsTypeOK'
  BY DEF StatsTypeOK
<1>2. PendingOK'
  BY DEF PendingOK, StatsTypeOK
<1>3. RoundOK'
  BY DEF RoundOK, StatsTypeOK
<1>4. WorkersOK' /\ ResetOK' /\ ReaderOK'
  BY StatsSame DEF WorkersOK, client
<1> QED  BY <1>1, <1>2, <1>3, <1>4

LEMMA SubmitNestedKeeps ==
  ASSUME StatsInv, NEW w \in Workers, SubmitNested(w)
  PROVE  StatsInv'
<1> USE NobodyMoves, TotalSame, TotalTypes, BusyFinite DEF StatsInv, SubmitNested, client
<1>1. StatsTypeOK'
  BY DEF StatsTypeOK
<1>2. phase \in {"submit", "get", "wait"}
  BY BusyPending DEF Runners
<1>3. PendingOK'
  BY <1>2 DEF PendingOK, StatsTypeOK
<1>4. RoundOK'
  <2>1. /\ UNCHANGED <<globalJobs, external, helped, phase>>
        /\ nested' = nested + 1 /\ localJobs' = localJobs + 1
    OBVIOUS
  <2>2. Cardinality(Popped)' = Cardinality(Popped)
    OBVIOUS
  <2>3. /\ Total("global")' = Total("global") /\ Total("local")' = Total("local")
        /\ Total("steal")' = Total("steal")
    OBVIOUS
  <2>4. /\ nested \in Nat /\ localJobs \in Nat /\ helped["local"] \in Nat
        /\ Total("local") \in Int /\ Total("steal") \in Int
    BY DEF StatsTypeOK
  <2>5. phase # "reset" => external' = globalJobs' + Cardinality(Popped)' + Total("global")' + helped'["global"]
    BY <2>1, <2>2, <2>3 DEF RoundOK
  <2>6. phase # "reset" => nested' = localJobs' + Total("local")' + Total("steal")' + helped'["local"]
    BY <2>1, <2>3, <2>4 DEF RoundOK
  <2> QED  BY <2>1, <2>5, <2>6 DEF RoundOK
<1>5. WorkersOK' /\ ResetOK' /\ ReaderOK'
  BY StatsSame DEF WorkersOK, client
<1> QED  BY <1>1, <1>3, <1>4, <1>5

LEMMA PopLocalKeeps ==
  ASSUME StatsInv, NEW w \in Workers, PopLocal(w) \/ Steal(w)
  PROVE  StatsInv'
<1> USE TotalTypes, BusyFinite DEF StatsInv, PopLocal, Steal, client
<1>1. PICK k \in {"local", "steal"} : Bump(w, k)
  OBVIOUS
<1>2. /\ stats' \in [Workers -> [Counters -> Nat]]
      /\ \A v \in Workers, c \in Counters : stats'[v][c] = stats[v][c] + IF v = w /\ c = k THEN 1 ELSE 0
      /\ \A c \in Counters : Total(c)' = Total(c) + IF c = k THEN 1 ELSE 0
  BY <1>1, TotalBump DEF Counters
<1>3. /\ pc' \in [Runners -> {"idle", "popped", "body", "count", "retire"}]
      /\ pc'[w] = "body" /\ \A r \in Runners \ {w} : pc'[r] = pc[r]
      /\ Cardinality(Busy)' = Cardinality(Busy) + 1
      /\ Cardinality(Popped)' = Cardinality(Popped)
  <2>1. w \in Runners /\ pc[w] = "idle" /\ Goto(w, "body")
    BY DEF Runners
  <2> QED  BY <2>1, Goes DEF InBusy, InPopped
<1>4. StatsTypeOK'
  BY <1>2, <1>3 DEF StatsTypeOK
<1>5. PendingOK'
  BY <1>3 DEF PendingOK, StatsTypeOK
<1>6. RoundOK'
  <2>1. /\ Total("global")' = Total("global")
        /\ Total("local")' + Total("steal")' = Total("local") + Total("steal") + 1
    BY <1>2 DEF Counters
  <2>2. SUFFICES ASSUME phase # "reset"
                 PROVE  /\ external = globalJobs + Cardinality(Popped)' + Total("global")' + helped["global"]
                        /\ nested = localJobs' + (Total("local")' + Total("steal")') + helped["local"]
    <3>1. Total("local")' \in Int /\ Total("steal")' \in Int
      BY <1>2 DEF Counters
    <3> QED  BY <3>1 DEF RoundOK, StatsTypeOK
  <2> QED  BY <1>3, <2>1, <2>2 DEF RoundOK, StatsTypeOK
<1>7. WorkersOK'
  <2> SUFFICES ASSUME phase # "reset", NEW v \in Workers
               PROVE  stats'[v]["local"] + stats'[v]["global"] + stats'[v]["steal"]
                        = stats'[v]["processed"] + Behind(v)'
    BY DEF WorkersOK
  <2>1. stats[v]["local"] + stats[v]["global"] + stats[v]["steal"] = stats[v]["processed"] + Behind(v)
    BY DEF WorkersOK
  <2>2. \A c \in Counters : stats[v][c] \in Nat
    BY DEF StatsTypeOK
  <2>3. Behind(v)' = Behind(v) + IF v = w THEN 1 ELSE 0
    BY <1>3 DEF Behind, Runners
  <2>4. Behind(v) \in Int
    BY DEF Behind
  <2>5. /\ stats'[v]["processed"] = stats[v]["processed"]
        /\ stats'[v]["global"] = stats[v]["global"]
        /\ stats'[v]["local"] = stats[v]["local"] + IF v = w /\ k = "local" THEN 1 ELSE 0
        /\ stats'[v]["steal"] = stats[v]["steal"] + IF v = w /\ k = "steal" THEN 1 ELSE 0
    BY <1>2, <2>2 DEF Counters
  <2>6. \A c \in {"local", "global", "steal", "processed"} : stats[v][c] \in Int
    BY <2>2 DEF Counters
  <2> HIDE DEF StatsInv, PopLocal, Steal, client
  <2> QED  BY <2>1, <2>3, <2>4, <2>5, <2>6
<1>8. ResetOK' /\ ReaderOK'
  <2>1. phase \notin {"read", "reset"}
    BY NobodyBusy DEF PendingOK
  <2>2. \A v \in Workers, c \in Counters : stats'[v][c] >= stats[v][c]
    <3> SUFFICES ASSUME NEW v \in Workers, NEW c \in Counters PROVE stats'[v][c] >= stats[v][c]
      OBVIOUS
    <3>1. stats[v][c] \in Nat
      BY DEF StatsTypeOK
    <3>2. stats'[v][c] = stats[v][c] \/ stats'[v][c] = stats[v][c] + 1
      BY <1>2, <3>1
    <3> HIDE DEF StatsInv
    <3> QED  BY <3>1, <3>2
  <2> QED  BY <1>2, <2>1, <2>2, ReaderKeeps
<1> QED  BY <1>4, <1>5, <1>6, <1>7, <1>8


LEMMA PopGlobalKeeps ==
  ASSUME StatsInv, NEW w \in Workers, PopGlobal(w)
  PROVE  StatsInv'
<1> USE TotalTypes, TotalSame, BusyFinite DEF StatsInv, PopGlobal, client
<1>1. /\ pc' \in [Runners -> {"idle", "popped", "body", "count", "retire"}]
      /\ pc'[w] = "popped" /\ \A r \in Runners \ {w} : pc'[r] = pc[r]
      /\ Cardinality(Busy)' = Cardinality(Busy) + 1
      /\ Cardinality(Popped)' = Cardinality(Popped) + 1
  <2>1. w \in Runners /\ pc[w] = "idle" /\ Goto(w, "popped")
    BY DEF Runners
  <2> QED  BY <2>1, Goes DEF InBusy, InPopped
<1>2. StatsTypeOK'
  BY <1>1 DEF StatsTypeOK
<1>3. PendingOK'
  BY <1>1 DEF PendingOK, StatsTypeOK
<1>4. RoundOK'
  BY <1>1 DEF RoundOK, StatsTypeOK
<1>5. WorkersOK'
  <2>1. \A v \in Workers : Behind(v)' = Behind(v)
    BY <1>1 DEF Behind, Runners
  <2> QED  BY <2>1 DEF WorkersOK
<1>6. ResetOK' /\ ReaderOK'
  BY StatsSame
<1> QED  BY <1>2, <1>3, <1>4, <1>5, <1>6

LEMMA CountGlobalPopKeeps ==
  ASSUME StatsInv, NEW w \in Workers, CountGlobalPop(w)
  PROVE  StatsInv'
<1> USE TotalTypes, BusyFinite DEF StatsInv, CountGlobalPop, client
<1>1. /\ stats' \in [Workers -> [Counters -> Nat]]
      /\ \A v \in Workers, c \in Counters : stats'[v][c] = stats[v][c] + IF v = w /\ c = "global" THEN 1 ELSE 0
      /\ \A c \in Counters : Total(c)' = Total(c) + IF c = "global" THEN 1 ELSE 0
  BY TotalBump DEF Counters
<1>2. /\ pc' \in [Runners -> {"idle", "popped", "body", "count", "retire"}]
      /\ pc'[w] = "body" /\ \A r \in Runners \ {w} : pc'[r] = pc[r]
      /\ Cardinality(Busy)' = Cardinality(Busy)
      /\ Cardinality(Popped)' = Cardinality(Popped) - 1
  <2>1. w \in Runners /\ pc[w] = "popped" /\ Goto(w, "body")
    BY DEF Runners
  <2> QED  BY <2>1, Goes DEF InBusy, InPopped
<1>3. phase \in {"submit", "get", "wait"}
  BY BusyPending DEF Runners
<1>4. StatsTypeOK'
  BY <1>1, <1>2 DEF StatsTypeOK, queueVars
<1>5. PendingOK'
  BY <1>2, <1>3 DEF PendingOK, StatsTypeOK, queueVars
<1>6. RoundOK'
  <2>1. /\ Total("global")' = Total("global") + 1
        /\ Total("local")' = Total("local") /\ Total("steal")' = Total("steal")
    BY <1>1 DEF Counters
  <2> QED  BY <1>2, <2>1 DEF RoundOK, StatsTypeOK, queueVars
<1>7. WorkersOK'
  <2> SUFFICES ASSUME phase # "reset", NEW v \in Workers
               PROVE  stats'[v]["local"] + stats'[v]["global"] + stats'[v]["steal"]
                        = stats'[v]["processed"] + Behind(v)'
    BY DEF WorkersOK
  <2>1. stats[v]["local"] + stats[v]["global"] + stats[v]["steal"] = stats[v]["processed"] + Behind(v)
    BY DEF WorkersOK
  <2>2. \A c \in Counters : stats[v][c] \in Nat
    BY DEF StatsTypeOK
  <2>3. Behind(v)' = Behind(v) + IF v = w THEN 1 ELSE 0
    BY <1>2 DEF Behind, Runners
  <2> QED  BY <1>1, <2>1, <2>2, <2>3 DEF Counters, Behind
<1>8. ResetOK' /\ ReaderOK'
  <2>1. \A v \in Workers, c \in Counters : stats'[v][c] >= stats[v][c]
    <3> SUFFICES ASSUME NEW v \in Workers, NEW c \in Counters PROVE stats'[v][c] >= stats[v][c]
      OBVIOUS
    <3>1. stats[v][c] \in Nat
      BY DEF StatsTypeOK
    <3>2. stats'[v][c] = stats[v][c] \/ stats'[v][c] = stats[v][c] + 1
      BY <1>1, <3>1
    <3> HIDE DEF StatsInv
    <3> QED  BY <3>1, <3>2
  <2> QED  BY <1>1, <1>3, <2>1, ReaderKeeps
<1> QED  BY <1>4, <1>5, <1>6, <1>7, <1>8

LEMMA HelperPopKeeps ==
  ASSUME StatsInv, NEW h \in Helpers, HelperPop(h)
  PROVE  StatsInv'
<1> USE TotalTypes, TotalSame, BusyFinite DEF StatsInv, HelperPop, client
<1>1. h \in Runners /\ h \notin Workers
  BY StatsAssumption DEF Runners
<1>2. /\ pc' \in [Runners -> {"idle", "popped", "body", "count", "retire"}]
      /\ pc'[h] = "body" /\ \A r \in Runners \ {h} : pc'[r] = pc[r]
      /\ Cardinality(Busy)' = Cardinality(Busy) + 1
      /\ Cardinality(Popped)' = Cardinality(Popped)
  <2>1. pc[h] = "idle" /\ Goto(h, "body")
    OBVIOUS
  <2> QED  BY <1>1, <2>1, Goes DEF InBusy
<1>3. StatsTypeOK'
  BY <1>2 DEF StatsTypeOK
<1>4. PendingOK'
  <2>1. UNCHANGED <<pendingJobs, phase>>
    OBVIOUS
  <2>2. globalJobs' + localJobs' = globalJobs + localJobs - 1
    BY DEF StatsTypeOK
  <2>3. Cardinality(Busy) \in Nat
    BY DEF StatsTypeOK
  <2> QED  BY <1>2, <2>1, <2>2, <2>3 DEF PendingOK, StatsTypeOK
<1>5. RoundOK'
  <2>1. /\ UNCHANGED <<external, nested, phase>>
        /\ \A k \in {"local", "global"} : helped[k] \in Nat
    BY DEF StatsTypeOK
  <2>2. \/ /\ globalJobs' = globalJobs - 1 /\ localJobs' = localJobs
           /\ helped'["global"] = helped["global"] + 1 /\ helped'["local"] = helped["local"]
        \/ /\ localJobs' = localJobs - 1 /\ globalJobs' = globalJobs
           /\ helped'["local"] = helped["local"] + 1 /\ helped'["global"] = helped["global"]
    BY DEF StatsTypeOK
  <2>3. globalJobs \in Nat /\ localJobs \in Nat
    BY DEF StatsTypeOK
  <2> QED  BY <1>2, <2>1, <2>2, <2>3 DEF RoundOK
<1>6. WorkersOK'
  <2>1. \A v \in Workers : Behind(v)' = Behind(v)
    BY <1>1, <1>2 DEF Behind, Runners
  <2> QED  BY <2>1 DEF WorkersOK
<1>7. ResetOK' /\ ReaderOK'
  BY StatsSame
<1> QED  BY <1>3, <1>4, <1>5, <1>6, <1>7

LEMMA BodyEndsKeeps ==
  ASSUME StatsInv, NEW r \in Runners, BodyEnds(r)
  PROVE  StatsInv'
<1> USE TotalTypes, TotalSame, BusyFinite DEF StatsInv, BodyEnds, client
<1>1. /\ pc' \in [Runners -> {"idle", "popped", "body", "count", "retire"}]
      /\ pc'[r] = (IF r \in Workers THEN "count" ELSE "retire")
      /\ \A q \in Runners \ {r} : pc'[q] = pc[q]
      /\ Cardinality(Busy)' = Cardinality(Busy)
      /\ Cardinality(Popped)' = Cardinality(Popped)
  <2>1. CASE r \in Workers
    <3>1. pc[r] = "body" /\ Goto(r, "count")
      BY <2>1
    <3> QED  BY <2>1, <3>1, Goes DEF InBusy, InPopped
  <2>2. CASE r \notin Workers
    <3>1. pc[r] = "body" /\ Goto(r, "retire")
      BY <2>2
    <3> QED  BY <2>2, <3>1, Goes DEF InBusy
  <2> QED  BY <2>1, <2>2
<1>2. StatsTypeOK'
  BY <1>1 DEF StatsTypeOK, queueVars
<1>3. PendingOK' /\ RoundOK'
  BY <1>1 DEF PendingOK, RoundOK, StatsTypeOK, queueVars
<1>4. WorkersOK'
  <2>1. \A v \in Workers : Behind(v)' = Behind(v)
    BY <1>1 DEF Behind, Runners
  <2> QED  BY <2>1 DEF WorkersOK
<1>5. ResetOK' /\ ReaderOK'
  BY StatsSame
<1> QED  BY <1>2, <1>3, <1>4, <1>5

LEMMA CountProcessedKeeps ==
  ASSUME StatsInv, NEW w \in Workers, CountProcessed(w)
  PROVE  StatsInv'
<1> USE TotalTypes, BusyFinite DEF StatsInv, CountProcessed, client
<1>1. /\ stats' \in [Workers -> [Counters -> Nat]]
      /\ \A v \in Workers, c \in Counters : stats'[v][c] = stats[v][c] + IF v = w /\ c = "processed" THEN 1 ELSE 0
      /\ \A c \in Counters : Total(c)' = Total(c) + IF c = "processed" THEN 1 ELSE 0
  BY TotalBump DEF Counters
<1>2. /\ pc' \in [Runners -> {"idle", "popped", "body", "count", "retire"}]
      /\ pc'[w] = "retire" /\ \A r \in Runners \ {w} : pc'[r] = pc[r]
      /\ Cardinality(Busy)' = Cardinality(Busy)
      /\ Cardinality(Popped)' = Cardinality(Popped)
  <2>1. w \in Runners /\ pc[w] = "count" /\ Goto(w, "retire")
    BY DEF Runners
  <2> QED  BY <2>1, Goes DEF InBusy, InPopped
<1>3. phase \in {"submit", "get", "wait"}
  BY BusyPending DEF Runners
<1>4. StatsTypeOK'
  BY <1>1, <1>2 DEF StatsTypeOK, queueVars
<1>5. PendingOK'
  BY <1>2, <1>3 DEF PendingOK, StatsTypeOK, queueVars
<1>6. RoundOK'
  <2>1. /\ Total("global")' = Total("global")
        /\ Total("local")' = Total("local") /\ Total("steal")' = Total("steal")
    BY <1>1 DEF Counters
  <2> QED  BY <1>2, <2>1 DEF RoundOK, StatsTypeOK, queueVars
<1>7. WorkersOK'
  <2> SUFFICES ASSUME phase # "reset", NEW v \in Workers
               PROVE  stats'[v]["local"] + stats'[v]["global"] + stats'[v]["steal"]
                        = stats'[v]["processed"] + Behind(v)'
    BY DEF WorkersOK
  <2>1. stats[v]["local"] + stats[v]["global"] + stats[v]["steal"] = stats[v]["processed"] + Behind(v)
    BY DEF WorkersOK
  <2>2. \A c \in Counters : stats[v][c] \in Nat
    BY DEF StatsTypeOK
  <2>3. Behind(v)' = Behind(v) - IF v = w THEN 1 ELSE 0
    BY <1>2 DEF Behind, Runners
  <2>4. Behind(v) \in Int
    BY DEF Behind
  <2>5. /\ stats'[v]["processed"] = stats[v]["processed"] + IF v = w THEN 1 ELSE 0
        /\ stats'[v]["global"] = stats[v]["global"]
        /\ stats'[v]["local"] = stats[v]["local"] /\ stats'[v]["steal"] = stats[v]["steal"]
    BY <1>1, <2>2 DEF Counters
  <2>6. \A c \in {"local", "global", "steal", "processed"} : stats[v][c] \in Int
    BY <2>2 DEF Counters
  <2> HIDE DEF StatsInv, CountProcessed, client
  <2> QED  BY <2>1, <2>3, <2>4, <2>5, <2>6
<1>8. ResetOK' /\ ReaderOK'
  <2>1. \A v \in Workers, c \in Counters : stats'[v][c] >= stats[v][c]
    <3> SUFFICES ASSUME NEW v \in Workers, NEW c \in Counters PROVE stats'[v][c] >= stats[v][c]
      OBVIOUS
    <3>1. stats[v][c] \in Nat
      BY DEF StatsTypeOK
    <3>2. stats'[v][c] = stats[v][c] \/ stats'[v][c] = stats[v][c] + 1
      BY <1>1, <3>1
    <3> HIDE DEF StatsInv
    <3> QED  BY <3>1, <3>2
  <2> QED  BY <1>1, <1>3, <2>1, ReaderKeeps
<1> QED  BY <1>4, <1>5, <1>6, <1>7, <1>8

LEMMA RetireKeeps ==
  ASSUME StatsInv, NEW r \in Runners, Retire(r)
  PROVE  StatsInv'
<1> USE TotalTypes, TotalSame, BusyFinite DEF StatsInv, Retire, client
<1>1. /\ pc' \in [Runners -> {"idle", "popped", "body", "count", "retire"}]
      /\ pc'[r] = "idle" /\ \A q \in Runners \ {r} : pc'[q] = pc[q]
      /\ Cardinality(Busy)' = Cardinality(Busy) - 1
      /\ Cardinality(Popped)' = Cardinality(Popped)
  <2>1. pc[r] = "retire" /\ Goto(r, "idle")
    OBVIOUS
  <2> QED  BY <2>1, Goes DEF InBusy, InPopped
<1>2. phase \in {"submit", "get", "wait"}
  BY BusyPending
<1>3. StatsTypeOK'
  BY <1>1 DEF StatsTypeOK, queueVars
<1>4. PendingOK' /\ RoundOK'
  BY <1>1, <1>2 DEF PendingOK, RoundOK, StatsTypeOK, queueVars
<1>5. WorkersOK'
  <2>1. \A v \in Workers : Behind(v)' = Behind(v)
    BY <1>1 DEF Behind, Runners
  <2> QED  BY <2>1 DEF WorkersOK
<1>6. ResetOK' /\ ReaderOK'
  BY StatsSame
<1> QED  BY <1>3, <1>4, <1>5, <1>6

LEMMA ClientKeeps ==
  ASSUME StatsInv, BeginWaitAll \/ EndWaitAll \/ BeginGet \/ EndGet \/ BeginReset
  PROVE  StatsInv'
<1>1. /\ UNCHANGED <<queueVars, pendingJobs, stats, helped, round, pc>>
      /\ \/ /\ phase = "submit" /\ phase' \in {"wait", "get"} /\ At(0)
            /\ UNCHANGED <<done, seen>>
         \/ /\ phase = "wait" /\ phase' = "read" /\ pendingJobs = 0 /\ At(0)
            /\ UNCHANGED <<done, seen>>
         \/ /\ phase = "get" /\ phase' = "submit"
            /\ done' = Untouched /\ seen' = NoCounts
         \/ /\ phase = "read" /\ phase' = "reset"
            /\ done' = Untouched /\ seen' = NoCounts
  BY DEF StatsInv, ReaderOK, IdleOK, BeginWaitAll, EndWaitAll, BeginGet, EndGet, BeginReset
<1> USE <1>1, NobodyMoves, TotalSame DEF StatsInv, queueVars
<1>2. StatsTypeOK'
  BY DEF StatsTypeOK, Untouched, NoCounts
<1>3. PendingOK' /\ RoundOK'
  BY DEF PendingOK, RoundOK
<1>4. WorkersOK'
  BY DEF WorkersOK
<1>5. At(0)'
  BY DEF At, Untouched
<1>6. ResetOK' /\ AheadOK' /\ IdleOK'
  BY <1>5 DEF ResetOK, AheadOK, IdleOK, At
<1>7. ReadOK'
  BY <1>5 DEF ReadOK, At, Got
<1> QED  BY <1>2, <1>3, <1>4, <1>6, <1>7 DEF ReaderOK

LEMMA OrderIs ==
  /\ Order[1] = "processed" /\ Order[2] = "local" /\ Order[3] = "global" /\ Order[4] = "steal"
  /\ \A i \in 1..4 : Order[i] \in Counters
  /\ \A k \in Counters : \E i \in 1..4 : k = Order[i]
  /\ \A i, j \in 1..4 : Order[i] = Order[j] => i = j
<1>1. Order[1] = "processed" /\ Order[2] = "local" /\ Order[3] = "global" /\ Order[4] = "steal"
  BY DEF Order
<1>2. \A i \in 1..4 : i = 1 \/ i = 2 \/ i = 3 \/ i = 4
  OBVIOUS
<1> HIDE DEF Order
<1> QED  BY <1>1, <1>2 DEF Counters

LEMMA GetQueueStatsKeeps ==
  ASSUME StatsInv, NEW w \in Workers, GetQueueStats(w)
  PROVE  StatsInv'
<1> DEFINE i == done[w] + 1
<1>1. /\ UNCHANGED <<queueVars, pendingJobs, stats, helped, pc, round, phase>>
      /\ phase \in {"get", "read"}
      /\ i \in 1..4 /\ done' = [done EXCEPT ![w] = i]
      /\ seen' = [seen EXCEPT ![w][Order[i]] = stats[w][Order[i]]]
  <2>1. /\ UNCHANGED <<queueVars, pendingJobs, stats, helped, pc, round, phase>>
        /\ phase \in {"get", "read"} /\ done[w] < 4
        /\ done' = [done EXCEPT ![w] = @ + 1]
        /\ seen' = [seen EXCEPT ![w][Order[i]] = stats[w][Order[i]]]
    BY DEF GetQueueStats, Turn
  <2>2. done \in [Workers -> 0..4]
    BY DEF StatsInv, StatsTypeOK
  <2>3. i \in 1..4 /\ done' = [done EXCEPT ![w] = i]
    BY <2>1, <2>2
  <2> QED  BY <2>1, <2>3
<1>2. /\ done[w] = i - 1 /\ done'[w] = i
      /\ \A v \in Workers \ {w} : done'[v] = done[v] /\ seen'[v] = seen[v]
      /\ \A j \in 1..4 : seen'[w][Order[j]] = IF j = i THEN stats[w][Order[i]] ELSE seen[w][Order[j]]
  <2>1. seen \in [Workers -> [Counters -> Nat]] /\ done \in [Workers -> 0..4]
    BY DEF StatsInv, StatsTypeOK
  <2>2. done[w] = i - 1 /\ done'[w] = i
    BY <1>1, <2>1
  <2>3. \A v \in Workers \ {w} : done'[v] = done[v] /\ seen'[v] = seen[v]
    BY <1>1, <2>1
  <2>4. seen'[w] = [seen[w] EXCEPT ![Order[i]] = stats[w][Order[i]]]
    BY <1>1, <2>1
  <2>5. \A j \in 1..4 : seen'[w][Order[j]] = IF j = i THEN stats[w][Order[i]] ELSE seen[w][Order[j]]
    <3> HIDE DEF i
    <3>1. DOMAIN seen[w] = Counters
      BY <2>1
    <3> QED  BY <1>1, <2>4, <3>1, OrderIs
  <2> QED  BY <2>2, <2>3, <2>5
<1> USE <1>1, NobodyMoves, TotalSame DEF StatsInv, queueVars
<1>3. StatsTypeOK'
  BY OrderIs DEF StatsTypeOK
<1>4. PendingOK' /\ RoundOK' /\ WorkersOK' /\ ResetOK' /\ IdleOK'
  BY DEF PendingOK, RoundOK, WorkersOK, ResetOK, IdleOK
<1> HIDE DEF i
<1>5. \A v \in Workers, j \in 1..4 : Got(v, j)' = Got(v, j)
  <2> SUFFICES ASSUME NEW v \in Workers, NEW j \in 1..4 PROVE Got(v, j)' = Got(v, j)
    OBVIOUS
  <2>1. CASE v # w
    BY <1>2, <2>1 DEF Got
  <2>2. CASE v = w /\ j = i
    BY <1>2, <2>2 DEF Got
  <2>3. CASE v = w /\ j # i
    <3>1. (j <= i) <=> (j <= i - 1)
      BY <2>3
    <3> QED  BY <1>2, <2>3, <3>1 DEF Got
  <2> QED  BY <2>1, <2>2, <2>3
<1>6. ReadOK'
  BY <1>5 DEF ReaderOK, ReadOK
<1>7. AheadOK'
  <2> SUFFICES ASSUME phase = "get", NEW v \in Workers, done'[v] >= 1
               PROVE  seen'[v]["processed"] <= Got(v, 2) + Got(v, 3) + Got(v, 4)
    BY <1>5 DEF AheadOK
  <2>1. CASE v = w /\ i = 1
    <3>1. stats[w]["local"] + stats[w]["global"] + stats[w]["steal"] = stats[w]["processed"] + Behind(w)
      BY <2>1 DEF WorkersOK
    <3>2. Got(w, 2) = stats[w]["local"] /\ Got(w, 3) = stats[w]["global"] /\ Got(w, 4) = stats[w]["steal"]
      BY <1>2, <2>1, OrderIs DEF Got
    <3>3. seen'[w]["processed"] = stats[w]["processed"]
      BY <1>2, <2>1, OrderIs
    <3>4. \A k \in Counters : stats[w][k] \in Nat
      BY DEF StatsTypeOK
    <3>5. \A a, b, c, p \in Nat : a + b + c = p + Behind(w) => p <= b + a + c
      BY DEF Behind
    <3> HIDE DEF Got, Behind
    <3>6. stats[w]["processed"] <= stats[w]["local"] + stats[w]["global"] + stats[w]["steal"]
      BY <3>1, <3>4 DEF Counters, Behind
    <3> QED  BY <2>1, <3>2, <3>3, <3>6
  <2>2. CASE ~ (v = w /\ i = 1)
    <3>1. seen'[v]["processed"] = seen[v]["processed"] /\ done[v] >= 1
      BY <1>2, <2>2, OrderIs DEF StatsTypeOK
    <3> QED  BY <3>1 DEF ReaderOK, AheadOK
  <2> QED  BY <2>1, <2>2
<1> QED  BY <1>3, <1>4, <1>6, <1>7 DEF ReaderOK

LEMMA ResetStatsKeeps ==
  ASSUME StatsInv, NEW w \in Workers, ResetStats(w)
  PROVE  StatsInv'
<1> DEFINE i == done[w] + 1
<1>1. /\ UNCHANGED <<queueVars, pendingJobs, helped, pc, round, phase, seen>>
      /\ phase = "reset"
      /\ i \in 1..4 /\ done' = [done EXCEPT ![w] = i]
      /\ stats' = [stats EXCEPT ![w][Order[i]] = 0]
  BY DEF StatsInv, StatsTypeOK, ResetStats, Turn
<1>2. /\ done[w] = i - 1 /\ done'[w] = i
      /\ \A v \in Workers \ {w} : done'[v] = done[v] /\ stats'[v] = stats[v]
      /\ \A j \in 1..4 : stats'[w][Order[j]] = IF j = i THEN 0 ELSE stats[w][Order[j]]
  BY <1>1, OrderIs DEF StatsInv, StatsTypeOK
<1> USE <1>1, NobodyMoves DEF StatsInv, queueVars
<1>3. StatsTypeOK'
  BY OrderIs DEF StatsTypeOK
<1>4. PendingOK' /\ RoundOK' /\ WorkersOK' /\ ReaderOK'
  BY DEF PendingOK, RoundOK, WorkersOK, ReaderOK, AheadOK, ReadOK, IdleOK
<1>5. ResetOK'
  <2> HIDE DEF i
  <2> SUFFICES ASSUME NEW v \in Workers, NEW j \in 1..done'[v] PROVE stats'[v][Order[j]] = 0
    BY DEF ResetOK
  <2>1. j \in 1..4
    BY <1>3 DEF StatsTypeOK
  <2>2. CASE v = w /\ j = i
    BY <1>2, <2>1, <2>2
  <2>3. CASE v = w /\ j # i
    <3>1. j \in 1..done[w]
      BY <1>2, <2>3
    <3>2. stats[w][Order[j]] = 0
      BY <3>1 DEF ResetOK
    <3> QED  BY <1>2, <2>1, <2>3, <3>2
  <2>4. CASE v # w
    BY <1>2, <2>4 DEF ResetOK
  <2> QED  BY <2>2, <2>3, <2>4
<1> QED  BY <1>3, <1>4, <1>5

LEMMA EndResetKeeps ==
  ASSUME StatsInv, EndReset
  PROVE  StatsInv'
<1> USE NobodyMoves DEF StatsInv, EndReset
<1>1. StatsTypeOK'
  BY DEF StatsTypeOK, Untouched
<1>2. /\ globalJobs = 0 /\ localJobs = 0 /\ Cardinality(Popped) = 0
      /\ \A w \in Workers : Behind(w) = 0
  BY NobodyBusy DEF PendingOK, Behind, Runners
<1>3. \A w \in Workers, k \in Counters : stats[w][k] = 0
  <2> SUFFICES ASSUME NEW w \in Workers, NEW k \in Counters PROVE stats[w][k] = 0
    OBVIOUS
  <2>1. PICK j \in 1..4 : k = Order[j]
    BY OrderIs
  <2>2. j \in 1..done[w]
    BY DEF At
  <2> QED  BY <2>1, <2>2 DEF ResetOK
<1>4. \A k \in Counters : Total(k)' = 0
  BY <1>3, TotalZero, TotalSame
<1>5. RoundOK'
  BY <1>2, <1>4 DEF RoundOK, Counters
<1>6. WorkersOK'
  BY <1>2, <1>3 DEF WorkersOK, Counters
<1>7. PendingOK' /\ ResetOK' /\ ReaderOK'
  BY DEF PendingOK, ResetOK, ReaderOK, AheadOK, ReadOK, IdleOK, At, Untouched
<1> QED  BY <1>1, <1>5, <1>6, <1>7

LEMMA InitStatsInv == Init => StatsInv
<1> SUFFICES ASSUME Init PROVE StatsInv
  OBVIOUS
<1> USE DEF Init
<1>1. StatsTypeOK
  BY DEF StatsTypeOK, NoCounts, Untouched
<1>2. Cardinality(Busy) = 0 /\ Cardinality(Popped) = 0
  <2>1. Busy = {} /\ Popped = {}
    BY DEF Busy, Popped, Runners
  <2> QED  BY <2>1, FS_EmptySet
<1>3. \A k \in Counters : Total(k) = 0
  BY TotalZero DEF NoCounts
<1>4. PendingOK /\ RoundOK
  BY <1>2, <1>3 DEF PendingOK, RoundOK, Counters
<1>5. WorkersOK /\ ResetOK /\ ReaderOK
  BY DEF WorkersOK, ResetOK, ReaderOK, AheadOK, ReadOK, IdleOK, At, Behind, Counters, Runners,
         NoCounts, Untouched
<1> QED  BY <1>1, <1>4, <1>5 DEF StatsInv

LEMMA NextStatsInv == StatsInv /\ [Next]_vars => StatsInv'
<1> SUFFICES ASSUME StatsInv, [Next]_vars PROVE StatsInv'
  OBVIOUS
<1>1. CASE SubmitExternal
  BY <1>1, SubmitExternalKeeps
<1>2. ASSUME NEW w \in Workers,
             \/ PopLocal(w) \/ Steal(w) \/ PopGlobal(w) \/ CountGlobalPop(w)
             \/ SubmitNested(w) \/ CountProcessed(w)
             \/ GetQueueStats(w) \/ ResetStats(w)
      PROVE  StatsInv'
  BY <1>2, PopLocalKeeps, PopGlobalKeeps, CountGlobalPopKeeps, SubmitNestedKeeps,
     CountProcessedKeeps, GetQueueStatsKeeps, ResetStatsKeeps
<1>3. ASSUME NEW h \in Helpers, HelperPop(h) PROVE StatsInv'
  BY <1>3, HelperPopKeeps
<1>4. ASSUME NEW r \in Runners, BodyEnds(r) \/ Retire(r) PROVE StatsInv'
  BY <1>4, BodyEndsKeeps, RetireKeeps
<1>5. CASE BeginWaitAll \/ EndWaitAll \/ BeginGet \/ EndGet \/ BeginReset
  BY <1>5, ClientKeeps
<1>6. CASE EndReset
  BY <1>6, EndResetKeeps
<1>7. CASE UNCHANGED vars
  <2>1. UNCHANGED <<queueVars, pendingJobs, stats, helped, pc, round, phase, done, seen>>
    BY <1>7 DEF vars, client
  <2> USE <2>1, NobodyMoves, TotalSame DEF StatsInv, queueVars
  <2>2. StatsTypeOK'
    BY DEF StatsTypeOK
  <2>3. PendingOK' /\ RoundOK'
    BY DEF PendingOK, RoundOK
  <2>4. WorkersOK' /\ ResetOK' /\ ReaderOK'
    BY StatsSame DEF WorkersOK, client
  <2> QED  BY <2>2, <2>3, <2>4
<1> QED  BY <1>1, <1>2, <1>3, <1>4, <1>5, <1>6, <1>7 DEF Next

-----------------------------------------------------------------------------
(* Theorems.                                                               *)

(* However many jobs start and end while GetQueueStats is loading a        *)
(* worker's counters, it does not return more processed than popped.       *)
THEOREM ReaderNotAhead == Spec => []NoReaderSeesAhead
<1>1. StatsInv => NoReaderSeesAhead
  <2> SUFFICES ASSUME StatsInv, phase = "get", NEW w \in Workers, done[w] = 4
               PROVE  seen[w]["processed"] <= seen[w]["local"] + seen[w]["global"] + seen[w]["steal"]
    BY DEF NoReaderSeesAhead
  <2>1. seen[w]["processed"] <= Got(w, 2) + Got(w, 3) + Got(w, 4)
    BY DEF StatsInv, ReaderOK, AheadOK
  <2>2. Got(w, 2) = seen[w]["local"] /\ Got(w, 3) = seen[w]["global"] /\ Got(w, 4) = seen[w]["steal"]
    BY OrderIs DEF Got
  <2> QED  BY <2>1, <2>2
<1> QED  BY <1>1, InitStatsInv, NextStatsInv, PTL DEF Spec

(* What is read after WaitAll adds up to what was submitted in the round,  *)
(* however jobs were popped, stolen or helped with.                        *)
THEOREM StatsExact == Spec => []StatsExactAfterWaitAll
<1>1. StatsInv => StatsExactAfterWaitAll
  <2> SUFFICES ASSUME StatsInv, phase = "read", At(4) PROVE StatsExactAfterWaitAll!2
    BY DEF StatsExactAfterWaitAll
  <2>0. \A k \in Counters : TotalOf(seen, k) = Total(k)
    <3> SUFFICES ASSUME NEW k \in Counters PROVE TotalOf(seen, k) = TotalOf(stats, k)
      BY DEF Total
    <3>1. PICK j \in 1..4 : k = Order[j]
      BY OrderIs
    <3>2. \A w \in Workers : seen[w][k] = stats[w][k]
      <4> SUFFICES ASSUME NEW w \in Workers PROVE seen[w][k] = stats[w][k]
        OBVIOUS
      <4>1. Got(w, j) = stats[w][k] /\ j <= done[w]
        BY <3>1 DEF StatsInv, ReaderOK, ReadOK, At
      <4> QED  BY <3>1, <4>1 DEF Got
    <3>3. Column(seen, k) = Column(stats, k)
      BY <3>2 DEF Column
    <3> QED  BY <3>3, TotalIsSum
  <2>1. /\ globalJobs = 0 /\ localJobs = 0 /\ Cardinality(Popped) = 0
        /\ \A r \in Runners : pc[r] = "idle"
    BY NobodyBusy DEF StatsInv, PendingOK
  <2>2. /\ Total("global") + helped["global"] = external
        /\ Total("local") + Total("steal") + helped["local"] = nested
    BY <2>1, TotalTypes DEF StatsInv, RoundOK, StatsTypeOK
  <2>3. Total("processed") = Total("global") + Total("local") + Total("steal")
    <3> DEFINE taken == [w \in Workers |-> stats[w]["global"] + stats[w]["local"]]
    <3>1. \A w \in Workers, k \in Counters : Column(stats, k)[w] = stats[w][k] /\ stats[w][k] \in Int
      BY DEF StatsInv, StatsTypeOK, Column
    <3>2. \A w \in Workers : stats[w]["processed"] = stats[w]["global"] + stats[w]["local"] + stats[w]["steal"]
      <4> SUFFICES ASSUME NEW w \in Workers
                   PROVE  stats[w]["processed"] = stats[w]["global"] + stats[w]["local"] + stats[w]["steal"]
        OBVIOUS
      <4>1. Behind(w) = 0
        BY <2>1 DEF Behind, Runners
      <4>2. stats[w]["local"] + stats[w]["global"] + stats[w]["steal"] = stats[w]["processed"] + Behind(w)
        BY DEF StatsInv, WorkersOK
      <4> QED  BY <3>1, <4>1, <4>2 DEF Counters
    <3>3. SumOf(taken, Workers) = Total("global") + Total("local")
      <4>1. \A w \in Workers : /\ Column(stats, "global")[w] \in Int /\ Column(stats, "local")[w] \in Int
                               /\ taken[w] = Column(stats, "global")[w] + Column(stats, "local")[w]
        BY <3>1 DEF Counters
      <4> HIDE DEF taken
      <4> QED  BY <4>1, StatsAssumption, SumAdds, TotalIs
    <3>4. SumOf(Column(stats, "processed"), Workers) = SumOf(taken, Workers) + SumOf(Column(stats, "steal"), Workers)
      <4>1. \A w \in Workers : /\ taken[w] \in Int /\ Column(stats, "steal")[w] \in Int
                               /\ Column(stats, "processed")[w] = taken[w] + Column(stats, "steal")[w]
        BY <3>1, <3>2 DEF Counters
      <4> HIDE DEF taken
      <4> QED  BY <4>1, StatsAssumption, SumAdds
    <3> QED  BY <3>3, <3>4, TotalIs
  <2> QED  BY <2>0, <2>2, <2>3 DEF Counters
<1> QED  BY <1>1, InitStatsInv, NextStatsInv, PTL DEF Spec

=============================================================================
