-------------------------- MODULE TraceRingBuffer --------------------------
(***************************************************************************)
(* experiments/Day23_TraceRingBuffer.cpp: jobs record when they begin and  *)
(* end, on several threads, into a buffer that keeps the most recent       *)
(* events; anybody may take a snapshot.  Every operation holds _mutex.     *)
(***************************************************************************)
EXTENDS Integers, Sequences, FiniteSets, SequencesExt

CONSTANTS
  Capacity, \* size of _events
  Jobs,     \* traced jobs
  NoJob     \* name of a slot nothing was written to

ASSUME RingAssumption == Capacity \in Nat \ {0} /\ NoJob \notin Jobs

VARIABLES
  events,       \* _events
  nextSequence, \* _nextSequence
  jobState,     \* how far each TracedJob is
  history       \* every event ever recorded

ringVars == <<events, nextSequence, jobState, history>>

RingInit ==
  /\ events = [i \in 0 .. Capacity - 1 |-> [sequence |-> 0, name |-> NoJob, phase |-> "i"]]
  /\ nextSequence = 0
  /\ jobState = [j \in Jobs |-> "queued"]
  /\ history = <<>>

RecordBehind(j, phase) ==   \* bug: the slot is that of the sequence after the event's
  LET event == [sequence |-> nextSequence, name |-> j, phase |-> phase]
  IN  /\ nextSequence' = nextSequence + 1
      /\ events' = [events EXCEPT ![nextSequence' % Capacity] = event]
      /\ history' = Append(history, event)

Record(j, phase) ==
  LET event == [sequence |-> nextSequence, name |-> j, phase |-> phase]
  IN  /\ nextSequence' = nextSequence + 1
      /\ events' = [events EXCEPT ![nextSequence % Capacity] = event]
      /\ history' = Append(history, event)

(* TracedJob: "E" is recorded whether the body returns or throws.          *)
Begin(j) ==
  /\ jobState[j] = "queued"
  /\ Record(j, "B")
  /\ jobState' = [jobState EXCEPT ![j] = "running"]

EndTwice(j) ==   \* bug: "E" after the try block as well as in the catch block
  /\ jobState[j] \in {"running", "finished"}
  /\ nextSequence < 2 * Cardinality(Jobs) + 2
  /\ Record(j, "E")
  /\ jobState' = [jobState EXCEPT ![j] = "finished"]

End(j) ==
  /\ jobState[j] = "running"
  /\ Record(j, "E")
  /\ jobState' = [jobState EXCEPT ![j] = "finished"]

AllFinished == \A j \in Jobs : jobState[j] = "finished"

RingNext == (\E j \in Jobs : Begin(j) \/ End(j)) \/ (AllFinished /\ UNCHANGED ringVars)

RingSpec == RingInit /\ [][RingNext]_ringVars

-----------------------------------------------------------------------------
(* Readers.                                                                *)

LeastOf(m, n) == IF m < n THEN m ELSE n

Retained == LeastOf(nextSequence, Capacity)

(* A slot is taken when its event is the one that the sequence number asks *)
(* for.                                                                    *)
Snapshot ==
  LET first == nextSequence - Retained
      Kept[k \in 0 .. Retained] ==
        IF k = 0 THEN <<>>
        ELSE LET event == events[(first + k - 1) % Capacity]
             IN  IF event.sequence = first + k - 1 THEN Append(Kept[k - 1], event) ELSE Kept[k - 1]
  IN  Kept[Retained]

OverwrittenCount == IF nextSequence <= Capacity THEN 0 ELSE nextSequence - Capacity

-----------------------------------------------------------------------------
(* Properties.                                                             *)

(* A snapshot is the most recent window of the history, whole and in       *)
(* order, before, at and after the wrap; the rest counts as overwritten.   *)
SnapshotIsRecentWindow ==
  /\ Snapshot = SubSeq(history, Len(history) - Retained + 1, Len(history))
  /\ Len(Snapshot) + OverwrittenCount = Len(history)

Positions(j, phase) ==
  {i \in DOMAIN Snapshot : Snapshot[i].name = j /\ Snapshot[i].phase = phase}

(* In an exported window a job has one begin and one end at most, in this  *)
(* order; an end without its begin is seen only where events were          *)
(* overwritten, a begin without its end only while the job runs.           *)
SpansAreWhole ==
  \A j \in Jobs :
    LET begins == Positions(j, "B")
        ends   == Positions(j, "E")
    IN  /\ Cardinality(begins) <= 1 /\ Cardinality(ends) <= 1
        /\ \A i \in begins, k \in ends : i < k
        /\ ends # {} /\ begins = {} => OverwrittenCount > 0
        /\ begins # {} /\ ends = {} => jobState[j] = "running"

=============================================================================
