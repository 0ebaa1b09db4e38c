---------------------------- MODULE JobStatePool ----------------------------
(***************************************************************************)
(* experiments/Day21_JobStatePool.cpp: states that are reused once the     *)
(* last handle to them is gone.  The free list is under a mutex; a state   *)
(* is reset before it is handed out and cleared before it is put back,     *)
(* both outside that mutex.                                                *)
(***************************************************************************)
EXTENDS Integers, Sequences, FiniteSets, SequencesExt

CONSTANTS
  Threads,  \* threads that acquire, pass on and drop handles
  States,   \* the objects the allocator can return; bounds what is live at once
  MaxLives, \* bound: acquisitions
  None      \* no object

ASSUME PoolingAssumption == None \notin States /\ MaxLives \in Nat

VARIABLES
  freeList,   \* _freeList
  created,    \* objects that exist
  reused,     \* _reused
  acquired,   \* _acquired
  owners,     \* threads that hold a handle to a state
  dirty,      \* states with done, exception or continuations set
  generation, \* PooledJobState::generation
  inHand,     \* the state a thread is acquiring or releasing
  pc

counters == <<created, reused, acquired>>
vars == <<freeList, counters, owners, dirty, generation, inHand, pc>>

Init ==
  /\ freeList = <<>>
  /\ created = {} /\ reused = 0 /\ acquired = 0
  /\ owners = [s \in States |-> {}]
  /\ dirty = {}
  /\ generation = [s \in States |-> 0]
  /\ inHand = [t \in Threads |-> None]
  /\ pc = [t \in Threads |-> "idle"]

Goto(t, to) == pc' = [pc EXCEPT ![t] = to]
Hold(t, s)  == inHand' = [inHand EXCEPT ![t] = s]

-----------------------------------------------------------------------------
(* Acquire, under the mutex: the last free state, or a new one.            *)
Acquire(t) ==
  /\ pc[t] = "idle"
  /\ acquired < MaxLives
  /\ acquired' = acquired + 1
  /\ \/ /\ freeList = <<>>
        /\ \E s \in States \ created : Hold(t, s) /\ created' = created \cup {s}
        /\ UNCHANGED <<freeList, reused>>
     \/ /\ freeList # <<>>
        /\ Hold(t, Last(freeList))
        /\ freeList' = Front(freeList)
        /\ reused' = reused + 1
        /\ UNCHANGED created
  /\ Goto(t, "reset")
  /\ UNCHANGED <<owners, dirty, generation>>

ResetForReuse(t) ==
  /\ pc[t] = "reset"
  /\ dirty' = dirty \ {inHand[t]}
  /\ generation' = [generation EXCEPT ![inHand[t]] = @ + 1]
  /\ owners' = [owners EXCEPT ![inHand[t]] = {t}]
  /\ Hold(t, None)
  /\ Goto(t, "idle")
  /\ UNCHANGED <<freeList, counters>>

-----------------------------------------------------------------------------
(* Handles: whoever has one may write the state, copy the handle, drop it. *)

Use(t, s) ==
  /\ pc[t] = "idle" /\ t \in owners[s]
  /\ dirty' = dirty \cup {s}
  /\ UNCHANGED <<freeList, counters, owners, generation, inHand, pc>>

Copy(t, u, s) ==
  /\ pc[t] = "idle" /\ t \in owners[s]
  /\ owners' = [owners EXCEPT ![s] = @ \cup {u}]
  /\ UNCHANGED <<freeList, counters, dirty, generation, inHand, pc>>

(* Bug: every handle that goes releases the state.                         *)
DropReleases(t, s) ==
  /\ pc[t] = "idle" /\ t \in owners[s]
  /\ owners' = [owners EXCEPT ![s] = @ \ {t}]
  /\ Hold(t, s) /\ Goto(t, "clear")
  /\ UNCHANGED <<freeList, counters, dirty, generation>>

(* The last handle runs the deleter.                                       *)
Drop(t, s) ==
  /\ pc[t] = "idle" /\ t \in owners[s]
  /\ owners' = [owners EXCEPT ![s] = @ \ {t}]
  /\ \/ /\ owners[s] = {t}
        /\ Hold(t, s) /\ Goto(t, "clear")
     \/ /\ owners[s] # {t}
        /\ UNCHANGED <<inHand, pc>>
  /\ UNCHANGED <<freeList, counters, dirty, generation>>

-----------------------------------------------------------------------------
(* Release: clear, then put on the free list under the mutex.              *)

(* Bug: the state is on the free list before it is cleared.                *)
ClearStateLate(t) ==
  /\ \/ /\ pc[t] = "clear"
        /\ freeList' = Append(freeList, inHand[t])
        /\ Goto(t, "late")
        /\ UNCHANGED <<dirty, inHand>>
     \/ /\ pc[t] = "late"
        /\ dirty' = dirty \ {inHand[t]}
        /\ Hold(t, None) /\ Goto(t, "idle")
        /\ UNCHANGED freeList
  /\ UNCHANGED <<counters, owners, generation>>

ClearState(t) ==
  /\ pc[t] = "clear"
  /\ dirty' = dirty \ {inHand[t]}
  /\ Goto(t, "release")
  /\ UNCHANGED <<freeList, counters, owners, generation, inHand>>

Release(t) ==
  /\ pc[t] = "release"
  /\ freeList' = Append(freeList, inHand[t])
  /\ Hold(t, None)
  /\ Goto(t, "idle")
  /\ UNCHANGED <<counters, owners, dirty, generation>>

-----------------------------------------------------------------------------
(* All is dropped and the bound on acquisitions is reached.                *)
Finished ==
  /\ acquired = MaxLives
  /\ \A t \in Threads : pc[t] = "idle"
  /\ \A s \in States : owners[s] = {}
  /\ UNCHANGED vars

Next ==
  \/ \E t \in Threads :
       \/ Acquire(t) \/ ResetForReuse(t) \/ ClearState(t) \/ Release(t)
       \/ \E s \in States : Use(t, s) \/ Drop(t, s) \/ \E u \in Threads : Copy(t, u, s)
  \/ Finished

Spec == Init /\ [][Next]_vars

-----------------------------------------------------------------------------
(* Properties.                                                             *)

Owned == {s \in States : owners[s] # {}}
Moving(s) == {t \in Threads : inHand[t] = s}

(* A state is in one place: on the free list once, in the hand of one      *)
(* thread that acquires or releases it, or behind handles; while a handle  *)
(* lives the state does not go back, and what waits for reuse holds        *)
(* nothing of its last job (output at lines 319 and 320).                  *)
OnePlace ==
  /\ IsInjective(freeList)
  /\ \A s \in States :
       LET places == {p \in {"free", "moving", "owned"} :
                        \/ p = "free" /\ s \in ToSet(freeList)
                        \/ p = "moving" /\ Moving(s) # {}
                        \/ p = "owned" /\ s \in Owned}
       IN  /\ Cardinality(places) = IF s \in created THEN 1 ELSE 0
           /\ Cardinality(Moving(s)) <= 1
           /\ "free" \in places => s \notin dirty

(* Nobody clears or renumbers a state under a live handle, and a state     *)
(* that comes back is a new generation of it.                              *)
LivesAreSeparate ==
  [][\A s \in States :
       /\ s \in Owned /\ s \in Owned' =>
            generation'[s] = generation[s] /\ (s \in dirty => s \in dirty')
       /\ s \notin Owned /\ s \in Owned' => generation'[s] > generation[s]]_vars

=============================================================================
