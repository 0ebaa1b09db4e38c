---------------------------- MODULE BufferProofs ----------------------------
(***************************************************************************)
(* Theorems about the buffers that two experiments put between threads:    *)
(* TraceRingBuffer, for every capacity and every set of jobs, and the      *)
(* queue of SpuriousWakeup, for any number of jobs.                        *)
(*                                                                         *)
(* The slots of the ring hold the most recent events of the history, each  *)
(* where its sequence number puts it; the history has one begin and one    *)
(* end for a job that has come so far, in this order.                      *)
(***************************************************************************)
EXTENDS TraceRingBuffer, SpuriousWakeup, DataLemmas, TLAPS

-----------------------------------------------------------------------------
(* The invariant.                                                          *)

Event == [sequence : Nat, name : Jobs, phase : {"B", "E"}]

RingTypeOK ==
  /\ nextSequence \in Nat
  /\ history \in Seq(Event) /\ Len(history) = nextSequence
  /\ \A i \in 1 .. nextSequence : history[i].sequence = i - 1
  /\ DOMAIN events = 0 .. Capacity - 1
  /\ jobState \in [Jobs -> {"queued", "running", "finished"}]

(* The slot of each of the most recent sequence numbers.                   *)
SlotsOK ==
  \A i \in 1 .. nextSequence : i > nextSequence - Capacity => events[(i - 1) % Capacity] = history[i]

IsAt(i, j, phase) == i \in 1 .. nextSequence /\ history[i].name = j /\ history[i].phase = phase

(* What has been recorded of a job is what its state says.                 *)
RecordedOK ==
  \A j \in Jobs :
    /\ jobState[j] = "queued" => \A i \in 1 .. nextSequence : history[i].name # j
    /\ jobState[j] = "running" =>
         \E b \in Nat : /\ \A i : IsAt(i, j, "B") <=> i = b
                        /\ \A i : ~IsAt(i, j, "E")
    /\ jobState[j] = "finished" =>
         \E b, e \in Nat : /\ \A i : IsAt(i, j, "B") <=> i = b
                           /\ \A i : IsAt(i, j, "E") <=> i = e
                           /\ b < e

RingInv == RingTypeOK /\ SlotsOK /\ RecordedOK

-----------------------------------------------------------------------------
(* Two sequence numbers less than the capacity apart share no slot.        *)

LEMMA Modulo ==
  ASSUME NEW a \in Nat, NEW m \in Nat \ {0}
  PROVE  a % m \in 0 .. m - 1 /\ a \div m \in Nat /\ a = m * (a \div m) + (a % m)
  OBVIOUS

LEMMA MultipleIsLarge ==
  ASSUME NEW m \in Nat \ {0}, NEW q \in Int, q > 0
  PROVE  m * q >= m
  OBVIOUS

LEMMA DistinctSlots ==
  ASSUME NEW m \in Nat \ {0}, NEW a \in Nat, NEW b \in Nat, a < b, b - a < m
  PROVE  a % m # b % m
<1> SUFFICES ASSUME a % m = b % m PROVE FALSE
  OBVIOUS
<1> DEFINE q == (b \div m) - (a \div m)
<1>1. /\ a \div m \in Nat /\ a = m * (a \div m) + (a % m) /\ a % m \in 0 .. m - 1
      /\ b \div m \in Nat /\ b = m * (b \div m) + (b % m) /\ b % m \in 0 .. m - 1
  BY Modulo
<1>2. q \in Int /\ b - a = m * q
  BY <1>1
<1>3. q > 0
  BY <1>2
<1> HIDE DEF q
<1> QED  BY <1>2, <1>3, MultipleIsLarge

-----------------------------------------------------------------------------
(* Every action keeps the invariant.                                       *)

(* An event is recorded of job j.                                          *)
LEMMA RecordKeeps ==
  ASSUME RingInv, NEW j \in Jobs, NEW phase \in {"B", "E"}, Record(j, phase),
         jobState' \in [Jobs -> {"queued", "running", "finished"}]
  PROVE  /\ RingTypeOK' /\ SlotsOK'
         /\ \A i, k : \A p \in {"B", "E"} :
              IsAt(i, k, p)' <=> IsAt(i, k, p) \/ (i = nextSequence + 1 /\ k = j /\ p = phase)
         /\ \A i \in 1 .. nextSequence' :
              history'[i].name = IF i = nextSequence + 1 THEN j ELSE history[i].name
<1> DEFINE event == [sequence |-> nextSequence, name |-> j, phase |-> phase]
<1> USE RingAssumption DEF RingInv
<1>1. /\ nextSequence \in Nat /\ nextSequence' = nextSequence + 1
      /\ events' = [events EXCEPT ![nextSequence % Capacity] = event]
      /\ history' = Append(history, event)
      /\ event \in Event
  BY DEF RingTypeOK, Record, Event
<1>2. /\ history' \in Seq(Event) /\ Len(history') = nextSequence + 1
      /\ \A i \in 1 .. nextSequence : history'[i] = history[i]
      /\ history'[nextSequence + 1] = event
  <2> HIDE DEF event
  <2> QED  BY <1>1 DEF RingTypeOK
<1>3. nextSequence % Capacity \in 0 .. Capacity - 1
  BY <1>1, Modulo
<1>4. RingTypeOK'
  <2>1. \A i \in 1 .. nextSequence' : history'[i].sequence = i - 1
    BY <1>1, <1>2 DEF RingTypeOK
  <2> QED  BY <1>1, <1>2, <2>1 DEF RingTypeOK
<1>5. ASSUME NEW i \in 1 .. nextSequence + 1, i > nextSequence + 1 - Capacity
      PROVE  events'[(i - 1) % Capacity] = history'[i]
  <2> USE <1>5
  <2>1. CASE i = nextSequence + 1
    BY <1>1, <1>2, <1>3, <2>1 DEF RingTypeOK
  <2>2. CASE i \in 1 .. nextSequence
    <3>1. (i - 1) % Capacity # nextSequence % Capacity
      <4>1. i - 1 \in Nat /\ i - 1 < nextSequence /\ nextSequence - (i - 1) < Capacity
        BY <1>1, <2>2
      <4> QED  BY <1>1, <4>1, DistinctSlots
    <3>2. (i - 1) % Capacity \in 0 .. Capacity - 1
      <4>1. i - 1 \in Nat
        BY <2>2
      <4> QED  BY <4>1, Modulo
    <3>3. events'[(i - 1) % Capacity] = events[(i - 1) % Capacity]
      BY <1>1, <3>1, <3>2 DEF RingTypeOK
    <3>4. events[(i - 1) % Capacity] = history[i]
      BY <1>1, <2>2 DEF SlotsOK
    <3> QED  BY <1>2, <2>2, <3>3, <3>4
  <2>3. i = nextSequence + 1 \/ i \in 1 .. nextSequence
    BY DEF RingTypeOK
  <2> QED  BY <2>1, <2>2, <2>3
<1>6. \A i, k : \A p \in {"B", "E"} :
        IsAt(i, k, p)' <=> IsAt(i, k, p) \/ (i = nextSequence + 1 /\ k = j /\ p = phase)
  BY <1>1, <1>2 DEF IsAt
<1>7. \A i \in 1 .. nextSequence' :
        history'[i].name = IF i = nextSequence + 1 THEN j ELSE history[i].name
  BY <1>1, <1>2
<1>8. SlotsOK'
  <2>1. nextSequence \in Nat /\ nextSequence' = nextSequence + 1
    BY <1>1
  <2>2. ASSUME NEW i \in 1 .. nextSequence', i > nextSequence' - Capacity
        PROVE  events'[(i - 1) % Capacity] = history'[i]
    <3>1. i \in 1 .. nextSequence + 1 /\ i > nextSequence + 1 - Capacity
      BY <2>1, <2>2
    <3> QED  BY <1>5, <3>1
  <2> QED  BY <2>2 DEF SlotsOK
<1> QED  BY <1>4, <1>6, <1>7, <1>8

LEMMA BeginKeeps ==
  ASSUME RingInv, NEW j \in Jobs, Begin(j)
  PROVE  RingInv'
<1>1. /\ jobState' \in [Jobs -> {"queued", "running", "finished"}]
      /\ jobState[j] = "queued" /\ jobState'[j] = "running"
      /\ \A k \in Jobs \ {j} : jobState'[k] = jobState[k]
  BY DEF RingInv, RingTypeOK, Begin
<1>2. /\ RingTypeOK' /\ SlotsOK'
      /\ \A i, k : \A p \in {"B", "E"} :
           IsAt(i, k, p)' <=> IsAt(i, k, p) \/ (i = nextSequence + 1 /\ k = j /\ p = "B")
      /\ \A i \in 1 .. nextSequence' :
           history'[i].name = IF i = nextSequence + 1 THEN j ELSE history[i].name
  BY <1>1, RecordKeeps DEF Begin
<1>3. nextSequence \in Nat /\ nextSequence' = nextSequence + 1
  BY DEF RingInv, RingTypeOK, Begin, Record
<1>4. ASSUME NEW k \in Jobs
      PROVE  /\ jobState'[k] = "queued" => \A i \in 1 .. nextSequence' : history'[i].name # k
             /\ jobState'[k] = "running" =>
                  \E b \in Nat : /\ \A i : IsAt(i, k, "B")' <=> i = b
                                 /\ \A i : ~IsAt(i, k, "E")'
             /\ jobState'[k] = "finished" =>
                  \E b, e \in Nat : /\ \A i : IsAt(i, k, "B")' <=> i = b
                                    /\ \A i : IsAt(i, k, "E")' <=> i = e
                                    /\ b < e
  <2>1. CASE k = j
    <3>1. \A i \in 1 .. nextSequence : history[i].name # j
      BY <1>1 DEF RingInv, RecordedOK
    <3>2. \A i : ~IsAt(i, j, "B") /\ ~IsAt(i, j, "E")
      BY <3>1 DEF IsAt
    <3> QED  BY <1>1, <1>2, <1>3, <2>1, <3>2
  <2>2. CASE k # j
    <3>1. \A i : (IsAt(i, k, "B")' <=> IsAt(i, k, "B")) /\ (IsAt(i, k, "E")' <=> IsAt(i, k, "E"))
      BY <1>2, <2>2
    <3>2. jobState'[k] = jobState[k]
      BY <1>1, <2>2
    <3> QED  BY <1>2, <1>3, <2>2, <3>1, <3>2 DEF RingInv, RecordedOK
  <2> QED  BY <2>1, <2>2
<1>5. RecordedOK'
  BY <1>4 DEF RecordedOK
<1> QED  BY <1>2, <1>5 DEF RingInv

LEMMA EndKeeps ==
  ASSUME RingInv, NEW j \in Jobs, End(j)
  PROVE  RingInv'
<1>1. /\ jobState' \in [Jobs -> {"queued", "running", "finished"}]
      /\ jobState[j] = "running" /\ jobState'[j] = "finished"
      /\ \A k \in Jobs \ {j} : jobState'[k] = jobState[k]
  BY DEF RingInv, RingTypeOK, End
<1>2. /\ RingTypeOK' /\ SlotsOK'
      /\ \A i, k : \A p \in {"B", "E"} :
           IsAt(i, k, p)' <=> IsAt(i, k, p) \/ (i = nextSequence + 1 /\ k = j /\ p = "E")
      /\ \A i \in 1 .. nextSequence' :
           history'[i].name = IF i = nextSequence + 1 THEN j ELSE history[i].name
  BY <1>1, RecordKeeps DEF End
<1>3. nextSequence \in Nat /\ nextSequence' = nextSequence + 1
  BY DEF RingInv, RingTypeOK, End, Record
<1>4. ASSUME NEW k \in Jobs
      PROVE  /\ jobState'[k] = "queued" => \A i \in 1 .. nextSequence' : history'[i].name # k
             /\ jobState'[k] = "running" =>
                  \E b \in Nat : /\ \A i : IsAt(i, k, "B")' <=> i = b
                                 /\ \A i : ~IsAt(i, k, "E")'
             /\ jobState'[k] = "finished" =>
                  \E b, e \in Nat : /\ \A i : IsAt(i, k, "B")' <=> i = b
                                    /\ \A i : IsAt(i, k, "E")' <=> i = e
                                    /\ b < e
  <2>1. CASE k = j
    <3>1. PICK b \in Nat : /\ \A i : IsAt(i, j, "B") <=> i = b
                           /\ \A i : ~IsAt(i, j, "E")
      BY <1>1 DEF RingInv, RecordedOK
    <3>2. b < nextSequence + 1
      BY <1>3, <3>1 DEF IsAt
    <3>3. /\ \A i : IsAt(i, j, "B")' <=> i = b
          /\ \A i : IsAt(i, j, "E")' <=> i = nextSequence + 1
      BY <1>2, <3>1
    <3> QED  BY <1>1, <1>3, <2>1, <3>2, <3>3
  <2>2. CASE k # j
    <3>1. \A i : (IsAt(i, k, "B")' <=> IsAt(i, k, "B")) /\ (IsAt(i, k, "E")' <=> IsAt(i, k, "E"))
      BY <1>2, <2>2
    <3>2. jobState'[k] = jobState[k]
      BY <1>1, <2>2
    <3> QED  BY <1>2, <1>3, <2>2, <3>1, <3>2 DEF RingInv, RecordedOK
  <2> QED  BY <2>1, <2>2
<1>5. RecordedOK'
  BY <1>4 DEF RecordedOK
<1> QED  BY <1>2, <1>5 DEF RingInv

LEMMA InitRingInv == RingInit => RingInv
<1> SUFFICES ASSUME RingInit PROVE RingInv
  OBVIOUS
<1> USE DEF RingInit
<1>1. RingTypeOK
  BY DEF RingTypeOK
<1>2. SlotsOK /\ RecordedOK
  BY DEF SlotsOK, RecordedOK
<1> QED  BY <1>1, <1>2 DEF RingInv

LEMMA NextRingInv == RingInv /\ [RingNext]_ringVars => RingInv'
<1> SUFFICES ASSUME RingInv, [RingNext]_ringVars PROVE RingInv'
  OBVIOUS
<1>1. CASE \E j \in Jobs : Begin(j) \/ End(j)
  BY <1>1, BeginKeeps, EndKeeps
<1>2. CASE UNCHANGED ringVars
  BY <1>2 DEF ringVars, RingInv, RingTypeOK, SlotsOK, RecordedOK, IsAt
<1> QED  BY <1>1, <1>2 DEF RingNext

-----------------------------------------------------------------------------
(* The snapshot.                                                           *)

First == nextSequence - Retained

LEMMA Window ==
  ASSUME RingInv
  PROVE  /\ nextSequence \in Nat /\ Retained \in Nat /\ First \in Nat
         /\ Retained <= nextSequence
         /\ First > 0 => nextSequence > Capacity
         /\ \A k \in 1 .. Retained : /\ First + k \in 1 .. nextSequence
                                     /\ events[(First + k - 1) % Capacity] = history[First + k]
                                     /\ history[First + k].sequence = First + k - 1
<1>1. nextSequence \in Nat /\ Capacity \in Nat
  BY RingAssumption DEF RingInv, RingTypeOK
<1>2. /\ Retained \in Nat /\ First \in Nat /\ Retained <= nextSequence
      /\ First > 0 => nextSequence > Capacity
      /\ First >= nextSequence - Capacity
      /\ First + Retained = nextSequence
  BY <1>1 DEF Retained, LeastOf, First
<1>3. ASSUME NEW k \in 1 .. Retained
      PROVE  /\ First + k \in 1 .. nextSequence
             /\ events[(First + k - 1) % Capacity] = history[First + k]
             /\ history[First + k].sequence = First + k - 1
  <2>1. First + k \in 1 .. nextSequence /\ First + k > nextSequence - Capacity
    BY <1>1, <1>2
  <2>2. \A i \in 1 .. nextSequence : i > nextSequence - Capacity =>
          events[(i - 1) % Capacity] = history[i] /\ history[i].sequence = i - 1
    BY DEF RingInv, RingTypeOK, SlotsOK
  <2> QED  BY <1>1, <1>2, <2>1, <2>2
<1> QED  BY <1>1, <1>2, <1>3

(* The loop of Snapshot finds the event it looks for in every slot.        *)
LEMMA SnapshotIs ==
  ASSUME RingInv
  PROVE  Snapshot = SubSeq(history, First + 1, nextSequence)
<1> DEFINE W == [k \in 0 .. Retained |-> SubSeq(history, First + 1, First + k)]
           Is(K) == K = [k \in 0 .. Retained |->
                           IF k = 0 THEN <<>>
                           ELSE LET event == events[(First + k - 1) % Capacity]
                                IN  IF event.sequence = First + k - 1
                                    THEN Append(K[k - 1], event) ELSE K[k - 1]]
<1>1. nextSequence \in Nat /\ Retained \in Nat /\ First \in Nat /\ First + Retained = nextSequence
  BY Window DEF First
<1>2. history \in Seq(Event) /\ Len(history) = nextSequence
  BY DEF RingInv, RingTypeOK
<1>3. W[0] = <<>>
  BY <1>1, <1>2
<1>4. ASSUME NEW k \in 1 .. Retained
      PROVE  W[k] = Append(W[k - 1], history[First + k])
  <2>1. First + k \in 1 .. Len(history)
    BY <1>1, <1>2
  <2>2. SubSeq(history, First + 1, First + k) = Append(SubSeq(history, First + 1, First + k - 1), history[First + k])
    BY <1>1, <1>2, <2>1
  <2>3. k \in 0 .. Retained /\ k - 1 \in 0 .. Retained /\ First + (k - 1) = First + k - 1
    BY <1>1
  <2>4. W[k] = SubSeq(history, First + 1, First + k) /\ W[k - 1] = SubSeq(history, First + 1, First + (k - 1))
    BY <2>3
  <2> HIDE DEF W
  <2> QED  BY <2>2, <2>3, <2>4
<1>5. Is(W)
  <2>1. ASSUME NEW k \in 0 .. Retained
        PROVE  W[k] = IF k = 0 THEN <<>>
                      ELSE LET event == events[(First + k - 1) % Capacity]
                           IN  IF event.sequence = First + k - 1
                               THEN Append(W[k - 1], event) ELSE W[k - 1]
    <3> HIDE DEF W
    <3>1. CASE k = 0
      BY <1>3, <3>1
    <3>2. CASE k # 0
      <4>1. k \in 1 .. Retained
        BY <1>1, <3>2
      <4> QED  BY <1>4, <3>2, <4>1, Window
    <3> QED  BY <3>1, <3>2
  <2>2. W = [k \in 0 .. Retained |-> W[k]]
    OBVIOUS
  <2> HIDE DEF W
  <2> QED  BY <2>1, <2>2
<1> DEFINE K == CHOOSE g : Is(g)
<1>6. Is(K)
  <2> HIDE DEF Is, W
  <2> QED  BY <1>5
<1>7. ASSUME NEW k \in Nat, k <= Retained => K[k] = W[k]
      PROVE  k + 1 <= Retained => K[k + 1] = W[k + 1]
  <2> SUFFICES ASSUME k + 1 <= Retained PROVE K[k + 1] = W[k + 1]
    OBVIOUS
  <2>1. k + 1 \in 1 .. Retained /\ k + 1 \in 0 .. Retained /\ k <= Retained /\ (k + 1) - 1 = k /\ k + 1 # 0
    BY <1>1
  <2>2. W[k + 1] = Append(W[k], history[First + (k + 1)])
    BY <1>4, <2>1
  <2>3. /\ events[(First + (k + 1) - 1) % Capacity] = history[First + (k + 1)]
        /\ history[First + (k + 1)].sequence = First + (k + 1) - 1
    BY <2>1, Window
  <2> HIDE DEF K, W
  <2>4. K[k + 1] = LET event == events[(First + (k + 1) - 1) % Capacity]
                   IN  IF event.sequence = First + (k + 1) - 1 THEN Append(K[k], event) ELSE K[k]
    BY <1>6, <2>1
  <2> QED  BY <1>7, <2>1, <2>2, <2>3, <2>4
<1>8. K[0] = W[0]
  <2> HIDE DEF K, W
  <2> QED  BY <1>1, <1>3, <1>6
<1>9. K[Retained] = W[Retained]
  <2> DEFINE S == {k \in Nat : k <= Retained => K[k] = W[k]}
  <2>1. 0 \in S /\ \A k \in Nat : k \in S => k + 1 \in S
    <3> HIDE DEF K, W
    <3> QED  BY <1>7, <1>8
  <2>2. Nat \subseteq S
    <3> HIDE DEF S
    <3> QED  BY <2>1, NatInduct
  <2> HIDE DEF K, W
  <2> QED  BY <2>2, <1>1
<1>10. Snapshot = K[Retained]
  BY DEF Snapshot, First
<1>11. W[Retained] = SubSeq(history, First + 1, nextSequence)
  BY <1>1
<1> HIDE DEF K, W
<1> QED  BY <1>9, <1>10, <1>11


-----------------------------------------------------------------------------
(* Theorems.                                                               *)

LEMMA SnapshotElems ==
  ASSUME RingInv
  PROVE  /\ Len(Snapshot) = Retained
         /\ DOMAIN Snapshot = 1 .. Retained
         /\ \A k \in 1 .. Retained : Snapshot[k] = history[First + k]
<1>1. /\ nextSequence \in Nat /\ Retained \in Nat /\ First \in Nat /\ First + Retained = nextSequence
      /\ history \in Seq(Event) /\ Len(history) = nextSequence
  BY Window DEF First, RingInv, RingTypeOK
<1> QED  BY <1>1, SnapshotIs

LEMMA WindowProperty == RingInv => SnapshotIsRecentWindow
<1> SUFFICES ASSUME RingInv PROVE SnapshotIsRecentWindow
  OBVIOUS
<1>1. /\ nextSequence \in Nat /\ Retained \in Nat /\ Capacity \in Nat
      /\ First = nextSequence - Retained
      /\ Len(history) = nextSequence
  BY Window, RingAssumption DEF First, RingInv, RingTypeOK
<1>2. Retained + OverwrittenCount = nextSequence
  BY <1>1 DEF Retained, LeastOf, OverwrittenCount
<1> QED  BY <1>1, <1>2, SnapshotIs, SnapshotElems DEF SnapshotIsRecentWindow

(* A snapshot taken at any time is the most recent part of the history,    *)
(* whole and in order, whatever the capacity and however often it wraps.   *)
THEOREM SnapshotIsWindow == RingSpec => []SnapshotIsRecentWindow
BY InitRingInv, NextRingInv, WindowProperty, PTL DEF RingSpec

(* What the invariant says of the positions of a job's events.             *)
LEMMA BeginsAndEnds ==
  ASSUME RingInv, NEW j \in Jobs
  PROVE  /\ \A i, k : IsAt(i, j, "B") /\ IsAt(k, j, "B") => i = k
         /\ \A i, k : IsAt(i, j, "E") /\ IsAt(k, j, "E") => i = k
         /\ \A i, k : IsAt(i, j, "B") /\ IsAt(k, j, "E") => i < k
         /\ \A k : IsAt(k, j, "E") => \E i : IsAt(i, j, "B")
         /\ \A i : IsAt(i, j, "B") => jobState[j] = "running" \/ \E k : IsAt(k, j, "E")
<1>1. CASE jobState[j] = "queued"
  <2>1. \A i : ~IsAt(i, j, "B") /\ ~IsAt(i, j, "E")
    BY <1>1 DEF RingInv, RecordedOK, IsAt
  <2> QED  BY <2>1
<1>2. CASE jobState[j] = "running"
  <2>1. PICK b \in Nat : /\ \A i : IsAt(i, j, "B") <=> i = b
                         /\ \A i : ~IsAt(i, j, "E")
    BY <1>2 DEF RingInv, RecordedOK
  <2> QED  BY <1>2, <2>1
<1>3. CASE jobState[j] = "finished"
  <2>1. PICK b \in Nat, e \in Nat : /\ \A i : IsAt(i, j, "B") <=> i = b
                                    /\ \A i : IsAt(i, j, "E") <=> i = e
                                    /\ b < e
    BY <1>3 DEF RingInv, RecordedOK
  <2> QED  BY <2>1
<1> QED  BY <1>1, <1>2, <1>3 DEF RingInv, RingTypeOK

LEMMA AtMostOne ==
  ASSUME NEW S, \A x, y \in S : x = y
  PROVE  Cardinality(S) <= 1
<1>1. CASE S = {}
  BY <1>1, FS_EmptySet
<1>2. CASE S # {}
  <2>1. PICK x : S = {x}
    BY <1>2
  <2> QED  BY <2>1, FS_Singleton
<1> QED  BY <1>1, <1>2

LEMMA PositionsAre ==
  ASSUME RingInv, NEW j \in Jobs, NEW phase
  PROVE  Positions(j, phase) = {k \in 1 .. Retained : IsAt(First + k, j, phase)}
<1>1. \A k \in 1 .. Retained : Snapshot[k] = history[First + k] /\ First + k \in 1 .. nextSequence
  BY SnapshotElems, Window
<1>2. DOMAIN Snapshot = 1 .. Retained
  BY SnapshotElems
<1> QED  BY <1>1, <1>2 DEF Positions, IsAt

LEMMA SpansProperty == RingInv => SpansAreWhole
<1> SUFFICES ASSUME RingInv, NEW j \in Jobs
             PROVE  LET begins == Positions(j, "B")
                        ends   == Positions(j, "E")
                    IN  /\ Cardinality(begins) <= 1 /\ Cardinality(ends) <= 1
                        /\ \A i \in begins, k \in ends : i < k
                        /\ ends # {} /\ begins = {} => OverwrittenCount > 0
                        /\ begins # {} /\ ends = {} => jobState[j] = "running"
  BY DEF SpansAreWhole
<1> DEFINE begins == Positions(j, "B")
           ends   == Positions(j, "E")
<1>1. /\ begins = {k \in 1 .. Retained : IsAt(First + k, j, "B")}
      /\ ends = {k \in 1 .. Retained : IsAt(First + k, j, "E")}
  BY PositionsAre
<1>2. /\ nextSequence \in Nat /\ Retained \in Nat /\ First \in Nat /\ First + Retained = nextSequence
      /\ Capacity \in Nat
  BY Window, RingAssumption DEF First
<1> HIDE DEF begins, ends
<1>3. /\ \A i, k \in begins : i = k
      /\ \A i, k \in ends : i = k
      /\ \A i \in begins, k \in ends : i < k
  <2>1. \A i, k \in 1 .. Retained : /\ First + i = First + k => i = k
                                    /\ First + i < First + k => i < k
    BY <1>2
  <2> QED  BY <1>1, <2>1, BeginsAndEnds
<1>4. Cardinality(begins) <= 1 /\ Cardinality(ends) <= 1
  BY <1>3, AtMostOne
<1>5. ASSUME ends # {}, begins = {} PROVE OverwrittenCount > 0
  <2>1. PICK k \in 1 .. Retained : IsAt(First + k, j, "E")
    BY <1>1, <1>5
  <2>2. PICK i : IsAt(i, j, "B")
    BY <2>1, BeginsAndEnds
  <2>3. i \in 1 .. nextSequence
    BY <2>2 DEF IsAt
  <2>4. i <= First
    <3> SUFFICES ASSUME i > First PROVE FALSE
      BY <1>2, <2>3
    <3>1. i - First \in 1 .. Retained /\ First + (i - First) = i
      BY <1>2, <2>3
    <3> QED  BY <1>1, <1>5, <2>2, <3>1
  <2>5. nextSequence > Capacity
    BY <1>2, <2>3, <2>4, Window
  <2> QED  BY <1>2, <2>5 DEF OverwrittenCount
<1>6. ASSUME begins # {}, ends = {} PROVE jobState[j] = "running"
  <2> SUFFICES ASSUME jobState[j] # "running" PROVE FALSE
    OBVIOUS
  <2>1. PICK i \in 1 .. Retained : IsAt(First + i, j, "B")
    BY <1>1, <1>6
  <2>2. PICK k : IsAt(k, j, "E")
    BY <2>1, BeginsAndEnds
  <2>3. k \in 1 .. nextSequence /\ First + i < k
    BY <2>1, <2>2, BeginsAndEnds DEF IsAt
  <2>4. k - First \in 1 .. Retained /\ First + (k - First) = k
    BY <1>2, <2>3
  <2> QED  BY <1>1, <1>6, <2>2, <2>4
<1> QED  BY <1>3, <1>4, <1>5, <1>6 DEF begins, ends

(* In a window a job has its begin before its end, an end without a begin  *)
(* only behind overwritten events, a begin without an end only if it runs. *)
THEOREM SpansWhole == RingSpec => []SpansAreWhole
BY InitRingInv, NextRingInv, SpansProperty, PTL DEF RingSpec

-----------------------------------------------------------------------------
(* Day 1: the queue between a producer and a consumer, for any number of   *)
(* jobs.  The consumer has processed the jobs up to some p, holds the next *)
(* or none, and the queue has the rest of those that were pushed, in order.*)

InHand == IF job = None THEN 0 ELSE 1
Waiting(p) == next - 1 - p - InHand

QueueOK(p) ==
  /\ next \in Nat /\ next - 1 <= JobCount /\ Waiting(p) \in Nat
  /\ processed = 1 .. p
  /\ consumer = "run" <=> job # None
  /\ job # None => job = p + 1
  /\ queue = [i \in 1 .. Waiting(p) |-> p + InHand + i]

QueueInv == \E p \in Nat : QueueOK(p)

(* Taking the front of a run of numbers leaves a run.                      *)
LEMMA RunTail ==
  ASSUME NEW n \in Nat \ {0}, NEW q \in Nat, NEW s, s = [i \in 1 .. n |-> q + i]
  PROVE  s # <<>> /\ Head(s) = q + 1 /\ Tail(s) = [i \in 1 .. n - 1 |-> (q + 1) + i]
<1>1. s \in Seq(Nat) /\ Len(s) = n /\ s[1] = q + 1
  OBVIOUS
<1>2. Tail(s) = [i \in 1 .. n - 1 |-> s[i + 1]]
  BY <1>1
<1>3. \A i \in 1 .. n - 1 : s[i + 1] = (q + 1) + i
  OBVIOUS
<1> QED  BY <1>1, <1>2, <1>3

LEMMA RunAppend ==
  ASSUME NEW n \in Nat, NEW q \in Nat, NEW s, s = [i \in 1 .. n |-> q + i], NEW x, x = q + n + 1
  PROVE  Append(s, x) = [i \in 1 .. n + 1 |-> q + i]
<1>1. s \in Seq(Nat) /\ Len(s) = n /\ x \in Nat
  OBVIOUS
<1>2. Append(s, x) \in Seq(Nat) /\ Len(Append(s, x)) = n + 1
  BY <1>1
<1>3. \A i \in 1 .. n + 1 : Append(s, x)[i] = q + i
  BY <1>1
<1> QED  BY <1>2, <1>3

LEMMA RunCons ==
  ASSUME NEW n \in Nat, NEW q \in Nat, NEW s, s = [i \in 1 .. n |-> q + 1 + i], NEW one, one = <<q + 1>>
  PROVE  one \o s = [i \in 1 .. n + 1 |-> q + i]
<1>1. s \in Seq(Nat) /\ Len(s) = n /\ \A i \in 1 .. n : s[i] = q + 1 + i
  OBVIOUS
<1>2. one \in Seq(Nat) /\ Len(one) = 1 /\ one[1] = q + 1
  OBVIOUS
<1>3. PICK t : t = one \o s
  OBVIOUS
<1>4. t \in Seq(Nat) /\ Len(t) = n + 1
  BY <1>1, <1>2, <1>3
<1>5. ASSUME NEW i \in 1 .. n + 1 PROVE t[i] = q + i
  <2>1. CASE i = 1
    <3>1. t[1] = one[1]
      BY <1>1, <1>2, <1>3
    <3> QED  BY <1>2, <2>1, <3>1
  <2>2. CASE i # 1
    <3>1. i \in 1 .. Len(one) + Len(s) /\ i > Len(one) /\ i - Len(one) = i - 1 /\ i - 1 \in 1 .. n
      BY <1>1, <1>2, <2>2
    <3>2. t[i] = s[i - 1]
      BY <1>1, <1>2, <1>3, <3>1
    <3>3. s[i - 1] = q + 1 + (i - 1)
      BY <1>1, <3>1
    <3> QED  BY <3>2, <3>3
  <2> QED  BY <2>1, <2>2
<1>6. t = [i \in 1 .. n + 1 |-> q + i]
  BY <1>4, <1>5
<1> QED  BY <1>3, <1>6

LEMMA RunEmpty ==
  ASSUME NEW n \in Nat, NEW q \in Nat, NEW s, s = [i \in 1 .. n |-> q + i]
  PROVE  s = <<>> <=> n = 0
  OBVIOUS

LEMMA QueueInit ==
  ASSUME JobCount \in Nat, Init
  PROVE  QueueInv
<1>1. 0 \in Nat /\ QueueOK(0)
  BY DEF Init, QueueOK, Waiting, InHand
<1> QED  BY <1>1 DEF QueueInv

(* Whatever the consumer does that leaves jobs and queue alone.            *)
LEMMA QueueSame ==
  ASSUME NEW p \in Nat, QueueOK(p), UNCHANGED <<queue, processed, job, next>>,
         (consumer # "run" /\ consumer' # "run") \/ consumer' = consumer
  PROVE  QueueOK(p)'
  BY DEF QueueOK, Waiting, InHand

LEMMA QueueTaken ==
  ASSUME JobCount \in Nat, None \notin 1 .. JobCount, NEW p \in Nat, QueueOK(p),
         consumer # "run", queue # <<>>, TakeJob, UNCHANGED <<processed, next>>
  PROVE  QueueOK(p)'
<1>1. /\ job = None /\ InHand = 0 /\ next \in Nat /\ Waiting(p) = next - 1 - p /\ Waiting(p) \in Nat
      /\ next - 1 <= JobCount /\ processed = 1 .. p
      /\ queue = [i \in 1 .. Waiting(p) |-> p + i]
  BY DEF QueueOK, Waiting, InHand
<1>2. PICK n \in Nat : n = Waiting(p) /\ queue = [i \in 1 .. n |-> p + i]
  BY <1>1
<1>3. n # 0
  BY <1>2, RunEmpty
<1>4. job' = p + 1 /\ queue' = [i \in 1 .. n - 1 |-> (p + 1) + i] /\ consumer' = "run"
  BY <1>2, <1>3, RunTail DEF TakeJob
<1>5. job' # None
  BY <1>1, <1>2, <1>3, <1>4
<1>6. InHand' = 1 /\ Waiting(p)' = n - 1
  BY <1>1, <1>2, <1>5 DEF InHand, Waiting
<1>7. n - 1 \in Nat /\ queue' = [i \in 1 .. n - 1 |-> p + 1 + i]
  BY <1>2, <1>3, <1>4
<1> QED  BY <1>1, <1>4, <1>5, <1>6, <1>7 DEF QueueOK

LEMMA QueueNext ==
  ASSUME JobCount \in Nat, None \notin 1 .. JobCount, QueueInv, [Next]_vars
  PROVE  QueueInv'
<1>1. PICK p \in Nat : QueueOK(p)
  BY DEF QueueInv
<1>2. ASSUME QueueOK(p)' PROVE QueueInv'
  BY <1>2 DEF QueueInv
<1>3. CASE UNCHANGED vars
  BY <1>1, <1>2, <1>3, QueueSame DEF vars
<1>4. CASE LoopTest
  BY <1>1, <1>2, <1>4, QueueSame DEF LoopTest
<1>5. CASE Sleep
  BY <1>1, <1>2, <1>5, QueueSame DEF Sleep
<1>6. CASE WaitWithPredicate \/ WaitWithoutPredicate
  <2>1. consumer # "run" /\ UNCHANGED <<processed, next>>
    BY <1>6 DEF WaitWithPredicate, WaitWithoutPredicate
  <2>2. \/ queue # <<>> /\ TakeJob
        \/ UNCHANGED <<queue, job>> /\ consumer' # "run"
    BY <1>6 DEF WaitWithPredicate, WaitWithoutPredicate, Block
  <2> QED  BY <1>1, <1>2, <2>1, <2>2, QueueTaken, QueueSame
<1>7. CASE Run
  <2>1. /\ job = p + 1 /\ job # None /\ InHand = 1 /\ processed = 1 .. p /\ next \in Nat /\ next - 1 <= JobCount
        /\ Waiting(p) = next - 1 - p - 1 /\ Waiting(p) \in Nat
        /\ queue = [i \in 1 .. Waiting(p) |-> p + 1 + i]
    BY <1>1, <1>7 DEF Run, QueueOK, Waiting, InHand
  <2>2. /\ processed' = 1 .. p + 1 /\ job' = None /\ consumer' = "test"
        /\ queue' = queue /\ next' = next
    BY <2>1, <1>7 DEF Run
  <2>3. InHand' = 0 /\ Waiting(p + 1)' = Waiting(p)
    BY <2>1, <2>2 DEF InHand, Waiting
  <2>4. queue' = [i \in 1 .. Waiting(p) |-> (p + 1) + 0 + i]
    BY <2>1, <2>2
  <2>5. QueueOK(p + 1)'
    BY <2>1, <2>2, <2>3, <2>4 DEF QueueOK
  <2> QED  BY <2>5 DEF QueueInv
<1>8. CASE Push
  <2>1. /\ UNCHANGED <<processed, job, consumer>> /\ next' = next + 1 /\ next <= JobCount
        /\ queue' = Append(queue, next)
    BY <1>8 DEF Push
  <2>2. InHand' = InHand /\ InHand \in {0, 1}
    BY <2>1 DEF InHand
  <2>3. next \in Nat /\ Waiting(p) \in Nat /\ queue = [i \in 1 .. Waiting(p) |-> p + InHand + i]
    BY <1>1 DEF QueueOK
  <2>4. Waiting(p)' = Waiting(p) + 1 /\ next = (p + InHand) + Waiting(p) + 1 /\ p + InHand \in Nat
    BY <2>1, <2>2, <2>3 DEF Waiting
  <2>5. PICK n \in Nat, q \in Nat : n = Waiting(p) /\ q = p + InHand
    BY <2>3, <2>4
  <2>6. queue' = [i \in 1 .. n + 1 |-> q + i]
    <3>1. queue = [i \in 1 .. n |-> q + i] /\ next = q + n + 1
      BY <2>3, <2>4, <2>5
    <3>2. Append(queue, next) = [i \in 1 .. n + 1 |-> q + i]
      BY <3>1, RunAppend
    <3> QED  BY <2>1, <3>2
  <2>7. queue' = [i \in 1 .. Waiting(p)' |-> p + InHand' + i]
    BY <2>2, <2>4, <2>5, <2>6
  <2>8. Waiting(p)' \in Nat /\ next' \in Nat /\ next' - 1 <= JobCount
    BY <2>1, <2>3, <2>4
  <2>9. processed' = 1 .. p /\ (consumer' = "run" <=> job' # None) /\ (job' # None => job' = p + 1)
    BY <1>1, <2>1 DEF QueueOK
  <2> QED  BY <1>2, <2>7, <2>8, <2>9 DEF QueueOK
<1>9. CASE NotifyOne \/ NotifyAll
  <2>1. UNCHANGED <<queue, processed, job, next>>
    BY <1>9 DEF NotifyOne, NotifyAll
  <2>2. (consumer # "run" /\ consumer' # "run") \/ consumer' = consumer
    BY <1>9 DEF NotifyOne, NotifyAll, Notify
  <2> QED  BY <1>1, <1>2, <2>1, <2>2, QueueSame
<1>10. CASE Stop \/ Join
  BY <1>1, <1>2, <1>10, QueueSame DEF Stop, Join
<1>11. CASE SpuriousWake
  BY <1>1, <1>2, <1>11, QueueSame DEF SpuriousWake
<1> QED  BY <1>3, <1>4, <1>5, <1>6, <1>7, <1>8, <1>9, <1>10, <1>11
         DEF Next, ConsumerStep, ProducerStep, Spurious, Finished

(* The instance counts like the library.                                   *)
LEMMA CountIs == \A S : Cardinality(S) = Cardinality(S)
  BY DEF Cardinality, Cardinality

LEMMA QueueAccounted ==
  ASSUME QueueInv
  PROVE  JobsAccounted
<1>1. PICK p \in Nat : QueueOK(p)
  BY DEF QueueInv
<1>2. processed = 1 .. p /\ Cardinality(processed) = p
  <2>1. processed = 1 .. p
    BY <1>1 DEF QueueOK
  <2>2. Cardinality(1 .. p) = p
    BY FS_Interval
  <2> QED  BY <2>1, <2>2
<1> DEFINE inHand == IF job = None THEN <<>> ELSE <<job>>
<1>3. inHand \o queue = [i \in 1 .. next - 1 - p |-> p + i]
  <2>1. next \in Nat /\ Waiting(p) \in Nat /\ queue = [i \in 1 .. Waiting(p) |-> p + InHand + i]
    BY <1>1 DEF QueueOK
  <2>2. queue \in Seq(Nat) /\ Len(queue) = Waiting(p) /\ InHand \in {0, 1}
    BY <2>1 DEF InHand
  <2>3. CASE job = None
    <3>1. InHand = 0 /\ Waiting(p) = next - 1 - p /\ inHand = <<>>
      BY <2>1, <2>3 DEF InHand, Waiting
    <3>2. inHand \o queue = queue
      BY <2>2, <3>1
    <3> QED  BY <2>1, <3>1, <3>2
  <2>4. CASE job # None
    <3>1. InHand = 1 /\ Waiting(p) = next - 1 - p - 1 /\ inHand = <<p + 1>>
      BY <1>1, <2>1, <2>4 DEF InHand, Waiting, QueueOK
    <3>2. PICK n \in Nat : n = Waiting(p) /\ queue = [i \in 1 .. n |-> p + 1 + i] /\ n + 1 = next - 1 - p
      BY <2>1, <3>1
    <3>3. PICK one : one = <<p + 1>>
      OBVIOUS
    <3>4. one \o queue = [i \in 1 .. n + 1 |-> p + i]
      BY <3>2, <3>3, RunCons
    <3> QED  BY <3>1, <3>2, <3>3, <3>4
  <2> QED  BY <2>3, <2>4
<1>4. PICK d : d = Cardinality(processed) /\ d = Cardinality(processed)
  BY CountIs
<1>5. d = p
  BY <1>2, <1>4
<1>6. inHand \o queue = [i \in 1 .. next - 1 - d |-> d + i]
  <2> HIDE DEF inHand
  <2> QED  BY <1>3, <1>5
<1>7. processed = 1 .. d
  BY <1>2, <1>5
<1> QED  BY <1>4, <1>6, <1>7 DEF JobsAccounted

(* For any number of jobs, with the predicate or without it and however    *)
(* the consumer is woken, it takes no job from an empty queue, loses none  *)
(* and keeps their order.                                                  *)
THEOREM JobsAreAccounted == Spec => []JobsAccounted
<1>1. JobCount \in Nat /\ None \notin 1 .. JobCount
  BY SpuriousAssumption
<1>2. Init => QueueInv
  BY <1>1, QueueInit
<1>3. QueueInv /\ [Next]_vars => QueueInv'
  BY <1>1, QueueNext
<1>4. QueueInv => JobsAccounted
  BY QueueAccounted
<1> QED  BY <1>2, <1>3, <1>4, PTL DEF Spec

=============================================================================
