------------------------- MODULE JobStatePoolProofs -------------------------
(***************************************************************************)
(* Theorems about JobStatePool, for every set of threads and states.       *)
(*                                                                         *)
(* A state is on the free list, in the hand of the one thread that         *)
(* acquires or releases it, or behind handles.  It changes place in one    *)
(* step, so what a thread does to the state in its hand outside the mutex  *)
(* is seen by nobody.                                                      *)
(***************************************************************************)
EXTENDS JobStatePool, DataLemmas, TLAPS

TypeOK ==
  /\ freeList \in Seq(States) /\ IsInjective(freeList)
  /\ created \subseteq States
  /\ owners \in [States -> SUBSET Threads]
  /\ dirty \subseteq States
  /\ generation \in [States -> Nat]
  /\ inHand \in [Threads -> States \cup {None}]
  /\ pc \in [Threads -> {"idle", "reset", "clear", "release"}]

(* A thread has a state in its hand while it acquires or releases one.     *)
HandOK == \A t \in Threads : pc[t] = "idle" <=> inHand[t] = None

FreeOK(s) == s \in ToSet(freeList) => /\ s \in created \ dirty
                                      /\ owners[s] = {}
                                      /\ \A t \in Threads : inHand[t] # s

MovingOK(s) == \A t \in Threads : inHand[t] = s => /\ s \in created
                                                   /\ owners[s] = {}
                                                   /\ pc[t] = "release" => s \notin dirty
                                                   /\ \A u \in Threads : inHand[u] = s => u = t

(* No state is lost.                                                       *)
SomewhereOK(s) == s \in created <=> \/ s \in ToSet(freeList)
                                    \/ owners[s] # {}
                                    \/ \E t \in Threads : inHand[t] = s

Inv == TypeOK /\ HandOK /\ \A s \in States : FreeOK(s) /\ MovingOK(s) /\ SomewhereOK(s)

LEMMA InvInit == Init => Inv
<1> SUFFICES ASSUME Init PROVE Inv
  OBVIOUS
<1> USE PoolingAssumption
<1>1. freeList \in Seq(States) /\ IsInjective(freeList) /\ ToSet(freeList) = {}
  BY DEF Init, IsInjective, ToSet
<1>2. TypeOK
  BY <1>1 DEF Init, TypeOK
<1>3. HandOK
  BY DEF Init, HandOK
<1>4. ASSUME NEW s \in States PROVE FreeOK(s) /\ MovingOK(s) /\ SomewhereOK(s)
  BY <1>1 DEF Init, FreeOK, MovingOK, SomewhereOK
<1> QED  BY <1>2, <1>3, <1>4 DEF Inv

(* The state in the hand of a thread that is not idle.                     *)
LEMMA InHand ==
  ASSUME Inv, NEW t \in Threads, pc[t] # "idle"
  PROVE  /\ inHand[t] \in States /\ inHand[t] \in created
         /\ inHand[t] \notin ToSet(freeList)
         /\ owners[inHand[t]] = {}
         /\ \A u \in Threads : inHand[u] = inHand[t] => u = t
<1>1. inHand[t] \in States
  BY DEF Inv, TypeOK, HandOK
<1>2. FreeOK(inHand[t]) /\ MovingOK(inHand[t])
  BY <1>1 DEF Inv
<1> QED  BY <1>1, <1>2 DEF FreeOK, MovingOK

LEMMA AcquireInv ==
  ASSUME Inv, NEW t \in Threads, Acquire(t)
  PROVE  Inv'
<1> USE PoolingAssumption
<1>0. TypeOK /\ HandOK /\ \A s \in States : FreeOK(s) /\ MovingOK(s) /\ SomewhereOK(s)
  BY DEF Inv
<1>1. pc[t] = "idle" /\ inHand[t] = None /\ UNCHANGED <<owners, dirty, generation>>
  BY <1>0 DEF Acquire, HandOK
<1>2. pc' = [pc EXCEPT ![t] = "reset"]
  BY DEF Acquire, Goto
(* The state that is handed out, new or reused.                            *)
<1>3. ASSUME NEW x \in States, inHand' = [inHand EXCEPT ![t] = x],
             freeList' \in Seq(States), IsInjective(freeList'),
             ToSet(freeList') = ToSet(freeList) \ {x},
             created' = created \cup {x},
             x \in ToSet(freeList) \/ x \notin created
      PROVE  Inv'
  <2>1. /\ pc'[t] = "reset" /\ \A u \in Threads \ {t} : pc'[u] = pc[u]
        /\ inHand'[t] = x /\ \A u \in Threads \ {t} : inHand'[u] = inHand[u]
    BY <1>0, <1>2, <1>3 DEF TypeOK
  <2>2. owners[x] = {} /\ \A u \in Threads : inHand[u] # x
    <3>1. FreeOK(x) /\ SomewhereOK(x)
      BY <1>0
    <3> QED  BY <1>3, <3>1 DEF FreeOK, SomewhereOK
  <2>3. TypeOK'
    BY <1>0, <1>1, <1>2, <1>3 DEF TypeOK
  <2>4. HandOK'
    BY <1>0, <1>3, <2>1 DEF HandOK
  <2>5. ASSUME NEW s \in States PROVE FreeOK(s)' /\ MovingOK(s)' /\ SomewhereOK(s)'
    <3>1. FreeOK(s) /\ MovingOK(s) /\ SomewhereOK(s)
      BY <1>0
    <3>2. FreeOK(s)'
      BY <1>1, <1>3, <2>1, <3>1 DEF FreeOK
    <3>3. MovingOK(s)'
      BY <1>1, <1>3, <2>1, <2>2, <3>1 DEF MovingOK
    <3>4. SomewhereOK(s)'
      BY <1>1, <1>3, <2>1, <3>1 DEF SomewhereOK
    <3> QED  BY <3>2, <3>3, <3>4
  <2> QED  BY <2>3, <2>4, <2>5 DEF Inv
<1>4. CASE freeList = <<>> /\ UNCHANGED <<freeList, reused>>
  <2>1. PICK x \in States \ created : inHand' = [inHand EXCEPT ![t] = x] /\ created' = created \cup {x}
    BY <1>4 DEF Acquire, Hold
  <2>2. ToSet(freeList') = ToSet(freeList) \ {x}
    <3>1. x \notin ToSet(freeList)
      BY <1>0, <2>1 DEF SomewhereOK
    <3>2. freeList' = freeList
      BY <1>4
    <3> QED  BY <3>1, <3>2
  <2> QED  BY <1>0, <1>3, <1>4, <2>1, <2>2 DEF TypeOK
<1>5. CASE freeList # <<>>
  <2>1. PICK x : x = Last(freeList)
    OBVIOUS
  <2>2. inHand' = [inHand EXCEPT ![t] = x] /\ freeList' = Front(freeList) /\ created' = created
    BY <1>5, <2>1 DEF Acquire, Hold
  <2>3. /\ IsInjective(freeList') /\ freeList' \in Seq(States)
        /\ ToSet(freeList') = ToSet(freeList) \ {x} /\ x \in ToSet(freeList) /\ x \in States
    BY <1>0, <1>5, <2>1, <2>2, FrontElems, PopBack DEF TypeOK
  <2>4. created' = created \cup {x}
    <3>1. x \in created
      BY <1>0, <2>3 DEF FreeOK
    <3> QED  BY <2>2, <3>1
  <2> QED  BY <1>3, <2>2, <2>3, <2>4
<1> QED  BY <1>4, <1>5 DEF Acquire

LEMMA ResetInv ==
  ASSUME Inv, NEW t \in Threads, ResetForReuse(t)
  PROVE  Inv'
<1> USE PoolingAssumption
<1>0. TypeOK /\ HandOK /\ \A s \in States : FreeOK(s) /\ MovingOK(s) /\ SomewhereOK(s)
  BY DEF Inv
<1>1. PICK x : x = inHand[t]
  OBVIOUS
<1>2. /\ x \in States /\ x \in created /\ x \notin ToSet(freeList) /\ owners[x] = {}
      /\ \A u \in Threads : inHand[u] = x => u = t
  BY <1>1, InHand DEF ResetForReuse
<1>3. /\ pc[t] = "reset" /\ dirty' = dirty \ {x}
      /\ generation' = [generation EXCEPT ![x] = @ + 1]
      /\ owners' = [owners EXCEPT ![x] = {t}]
      /\ UNCHANGED <<freeList, created>>
  BY <1>1 DEF ResetForReuse, counters
<1>4. /\ inHand' = [inHand EXCEPT ![t] = None] /\ pc' = [pc EXCEPT ![t] = "idle"]
      /\ pc'[t] = "idle" /\ \A u \in Threads \ {t} : pc'[u] = pc[u]
      /\ inHand'[t] = None /\ \A u \in Threads \ {t} : inHand'[u] = inHand[u]
      /\ owners'[x] = {t} /\ \A s \in States \ {x} : owners'[s] = owners[s]
  BY <1>0, <1>2, <1>3 DEF ResetForReuse, Hold, Goto, TypeOK
<1>5. TypeOK'
  BY <1>0, <1>2, <1>3, <1>4 DEF TypeOK
<1>6. HandOK'
  BY <1>0, <1>4 DEF HandOK
<1>7. ASSUME NEW s \in States PROVE FreeOK(s)' /\ MovingOK(s)' /\ SomewhereOK(s)'
  <2>1. FreeOK(s) /\ MovingOK(s) /\ SomewhereOK(s)
    BY <1>0
  <2>2. CASE s = x
    BY <1>1, <1>2, <1>3, <1>4, <2>2 DEF FreeOK, MovingOK, SomewhereOK
  <2>3. CASE s # x
    BY <1>1, <1>3, <1>4, <2>1, <2>3 DEF FreeOK, MovingOK, SomewhereOK
  <2> QED  BY <2>2, <2>3
<1> QED  BY <1>5, <1>6, <1>7 DEF Inv

(* A thread that has a handle writes the state or copies the handle.       *)
LEMMA UseInv ==
  ASSUME Inv, NEW t \in Threads, NEW x \in States, t \in owners[x],
         UNCHANGED <<freeList, created, generation, inHand, pc>>,
         \/ dirty' = dirty \cup {x} /\ owners' = owners
         \/ \E u \in Threads : dirty' = dirty /\ owners' = [owners EXCEPT ![x] = @ \cup {u}]
  PROVE  Inv'
<1>0. TypeOK /\ HandOK /\ \A s \in States : FreeOK(s) /\ MovingOK(s) /\ SomewhereOK(s)
  BY DEF Inv
<1>1. x \notin ToSet(freeList) /\ x \in created /\ \A u \in Threads : inHand[u] # x
  BY <1>0 DEF FreeOK, MovingOK, SomewhereOK
<1>2. owners'[x] # {} /\ \A s \in States \ {x} : owners'[s] = owners[s]
  BY <1>0 DEF TypeOK
<1>3. TypeOK' /\ HandOK'
  BY <1>0 DEF TypeOK, HandOK
<1>4. ASSUME NEW s \in States PROVE FreeOK(s)' /\ MovingOK(s)' /\ SomewhereOK(s)'
  <2>1. FreeOK(s) /\ MovingOK(s) /\ SomewhereOK(s)
    BY <1>0
  <2>2. CASE s = x
    BY <1>1, <1>2, <2>2 DEF FreeOK, MovingOK, SomewhereOK
  <2>3. CASE s # x
    BY <1>2, <2>1, <2>3 DEF FreeOK, MovingOK, SomewhereOK
  <2> QED  BY <2>2, <2>3
<1> QED  BY <1>3, <1>4 DEF Inv

LEMMA DropInv ==
  ASSUME Inv, NEW t \in Threads, NEW x \in States, Drop(t, x)
  PROVE  Inv'
<1> USE PoolingAssumption
<1>0. TypeOK /\ HandOK /\ \A s \in States : FreeOK(s) /\ MovingOK(s) /\ SomewhereOK(s)
  BY DEF Inv
<1>1. /\ pc[t] = "idle" /\ t \in owners[x] /\ owners' = [owners EXCEPT ![x] = @ \ {t}]
      /\ UNCHANGED <<freeList, created, dirty, generation>>
  BY DEF Drop, counters
<1>2. x \notin ToSet(freeList) /\ x \in created /\ \A u \in Threads : inHand[u] # x
  BY <1>0, <1>1 DEF FreeOK, MovingOK, SomewhereOK
<1>3. owners'[x] = owners[x] \ {t} /\ \A s \in States \ {x} : owners'[s] = owners[s]
  BY <1>0, <1>1 DEF TypeOK
<1>4. CASE owners[x] = {t} /\ Hold(t, x) /\ Goto(t, "clear")
  <2>1. /\ inHand' = [inHand EXCEPT ![t] = x] /\ pc' = [pc EXCEPT ![t] = "clear"]
        /\ pc'[t] = "clear" /\ \A u \in Threads \ {t} : pc'[u] = pc[u]
        /\ inHand'[t] = x /\ \A u \in Threads \ {t} : inHand'[u] = inHand[u]
    BY <1>0, <1>4 DEF Hold, Goto, TypeOK
  <2>2. TypeOK' /\ HandOK'
    BY <1>0, <1>1, <2>1 DEF TypeOK, HandOK
  <2>3. inHand[t] = None /\ owners'[x] = {}
    BY <1>0, <1>1, <1>3, <1>4 DEF HandOK
  <2>4. ASSUME NEW s \in States PROVE FreeOK(s)' /\ MovingOK(s)' /\ SomewhereOK(s)'
    <3>1. FreeOK(s) /\ MovingOK(s) /\ SomewhereOK(s)
      BY <1>0
    <3>2. CASE s = x
      BY <1>1, <1>2, <2>1, <2>3, <3>2 DEF FreeOK, MovingOK, SomewhereOK
    <3>3. CASE s # x
      BY <1>1, <1>3, <2>1, <2>3, <3>1, <3>3 DEF FreeOK, MovingOK, SomewhereOK
    <3> QED  BY <3>2, <3>3
  <2> QED  BY <2>2, <2>4 DEF Inv
<1>5. CASE owners[x] # {t} /\ UNCHANGED <<inHand, pc>>
  <2>1. TypeOK' /\ HandOK'
    BY <1>0, <1>1, <1>5 DEF TypeOK, HandOK
  <2>2. owners'[x] # {}
    BY <1>1, <1>3, <1>5
  <2>3. ASSUME NEW s \in States PROVE FreeOK(s)' /\ MovingOK(s)' /\ SomewhereOK(s)'
    <3>1. FreeOK(s) /\ MovingOK(s) /\ SomewhereOK(s)
      BY <1>0
    <3>2. CASE s = x
      BY <1>1, <1>2, <1>5, <2>2, <3>2 DEF FreeOK, MovingOK, SomewhereOK
    <3>3. CASE s # x
      BY <1>1, <1>3, <1>5, <3>1, <3>3 DEF FreeOK, MovingOK, SomewhereOK
    <3> QED  BY <3>2, <3>3
  <2> QED  BY <2>1, <2>3 DEF Inv
<1> QED  BY <1>4, <1>5 DEF Drop

LEMMA ClearInv ==
  ASSUME Inv, NEW t \in Threads, ClearState(t)
  PROVE  Inv'
<1>0. TypeOK /\ HandOK /\ \A s \in States : FreeOK(s) /\ MovingOK(s) /\ SomewhereOK(s)
  BY DEF Inv
<1>1. PICK x : x = inHand[t]
  OBVIOUS
<1>2. x \in States /\ \A u \in Threads : inHand[u] = x => u = t
  BY <1>1, InHand DEF ClearState
<1>3. /\ pc[t] = "clear" /\ dirty' = dirty \ {x} /\ pc' = [pc EXCEPT ![t] = "release"]
      /\ UNCHANGED <<freeList, created, owners, generation, inHand>>
  BY <1>1 DEF ClearState, Goto, counters
<1>4. pc'[t] = "release" /\ \A u \in Threads \ {t} : pc'[u] = pc[u]
  BY <1>0, <1>3 DEF TypeOK
<1>5. TypeOK' /\ HandOK'
  BY <1>0, <1>3, <1>4 DEF TypeOK, HandOK
<1>6. ASSUME NEW s \in States PROVE FreeOK(s)' /\ MovingOK(s)' /\ SomewhereOK(s)'
  <2>1. FreeOK(s) /\ MovingOK(s) /\ SomewhereOK(s)
    BY <1>0
  <2>2. FreeOK(s)' /\ SomewhereOK(s)'
    BY <1>3, <2>1 DEF FreeOK, SomewhereOK
  <2>3. \A u \in Threads : inHand[u] = s /\ u # t => pc'[u] = pc[u]
    BY <1>4
  <2>4. MovingOK(s)'
    BY <1>1, <1>3, <2>1, <2>3 DEF MovingOK
  <2> QED  BY <2>2, <2>4
<1> QED  BY <1>5, <1>6 DEF Inv

LEMMA ReleaseInv ==
  ASSUME Inv, NEW t \in Threads, Release(t)
  PROVE  Inv'
<1> USE PoolingAssumption
<1>0. TypeOK /\ HandOK /\ \A s \in States : FreeOK(s) /\ MovingOK(s) /\ SomewhereOK(s)
  BY DEF Inv
<1>1. PICK x : x = inHand[t]
  OBVIOUS
<1>2. /\ x \in States /\ x \in created /\ x \notin ToSet(freeList) /\ owners[x] = {}
      /\ \A u \in Threads : inHand[u] = x => u = t
  BY <1>1, InHand DEF Release
<1>3. /\ pc[t] = "release" /\ freeList' = Append(freeList, x)
      /\ inHand' = [inHand EXCEPT ![t] = None] /\ pc' = [pc EXCEPT ![t] = "idle"]
      /\ UNCHANGED <<created, owners, dirty, generation>>
  BY <1>1 DEF Release, Hold, Goto, counters
<1>4. /\ freeList' \in Seq(States) /\ IsInjective(freeList')
      /\ ToSet(freeList') = ToSet(freeList) \cup {x}
  BY <1>0, <1>2, <1>3, AppendElems DEF TypeOK
<1>5. /\ pc'[t] = "idle" /\ \A u \in Threads \ {t} : pc'[u] = pc[u]
      /\ inHand'[t] = None /\ \A u \in Threads \ {t} : inHand'[u] = inHand[u]
  BY <1>0, <1>3 DEF TypeOK
<1>6. TypeOK' /\ HandOK'
  BY <1>0, <1>3, <1>4, <1>5 DEF TypeOK, HandOK
<1>7. ASSUME NEW s \in States PROVE FreeOK(s)' /\ MovingOK(s)' /\ SomewhereOK(s)'
  <2>1. FreeOK(s) /\ MovingOK(s) /\ SomewhereOK(s)
    BY <1>0
  <2>2. CASE s = x
    <3>1. x \notin dirty
      BY <1>1, <1>3, <2>1, <2>2 DEF MovingOK
    <3>2. \A u \in Threads : inHand'[u] # x
      BY <1>2, <1>5
    <3> QED  BY <1>2, <1>3, <1>4, <2>2, <3>1, <3>2 DEF FreeOK, MovingOK, SomewhereOK
  <2>3. CASE s # x
    BY <1>1, <1>3, <1>4, <1>5, <2>1, <2>3 DEF FreeOK, MovingOK, SomewhereOK
  <2> QED  BY <2>2, <2>3
<1> QED  BY <1>6, <1>7 DEF Inv

LEMMA InvNext == Inv /\ [Next]_vars => Inv'
<1> SUFFICES ASSUME Inv, [Next]_vars PROVE Inv'
  OBVIOUS
<1>1. ASSUME NEW t \in Threads, NEW s \in States, Use(t, s) PROVE Inv'
  BY <1>1, UseInv DEF Use, counters
<1>2. ASSUME NEW t \in Threads, NEW s \in States, NEW u \in Threads, Copy(t, u, s) PROVE Inv'
  BY <1>2, UseInv DEF Copy, counters
<1>3. CASE UNCHANGED vars
  BY <1>3 DEF vars, counters, Inv, TypeOK, HandOK, FreeOK, MovingOK, SomewhereOK
<1> QED  BY <1>1, <1>2, <1>3, AcquireInv, ResetInv, DropInv, ClearInv, ReleaseInv DEF Next, Finished

LEMMA Invariance == Spec => []Inv
<1>1. Init => Inv
  BY InvInit
<1>2. Inv /\ [Next]_vars => Inv'
  BY InvNext
<1> QED  BY <1>1, <1>2, PTL DEF Spec

-----------------------------------------------------------------------------
(* A state that exists is in one place, with one thread at most moving it, *)
(* and one that is free holds nothing of its last job: Acquire and Release *)
(* of experiments/Day21_JobStatePool.cpp neither leak a state nor hand one *)
(* out twice.                                                              *)
THEOREM StatesHaveOnePlace == Spec => []OnePlace
<1>1. Inv => OnePlace
  <2> SUFFICES ASSUME Inv PROVE OnePlace
    OBVIOUS
  <2>1. IsInjective(freeList)
    BY DEF Inv, TypeOK
  <2>2. ASSUME NEW s \in States PROVE Cardinality(Moving(s)) <= 1
    <3>1. MovingOK(s)
      BY DEF Inv
    <3>2. Moving(s) = {} \/ \E t \in Threads : Moving(s) = {t}
      BY <3>1 DEF MovingOK, Moving
    <3> QED  BY <3>2, FS_EmptySet, FS_Singleton
  <2>3. ASSUME NEW s \in States,
               NEW P, P = {p \in {"free", "moving", "owned"} :
                             \/ p = "free" /\ s \in ToSet(freeList)
                             \/ p = "moving" /\ Moving(s) # {}
                             \/ p = "owned" /\ s \in Owned}
        PROVE  /\ Cardinality(P) = IF s \in created THEN 1 ELSE 0
               /\ "free" \in P => s \notin dirty
    <3>1. FreeOK(s) /\ MovingOK(s) /\ SomewhereOK(s)
      BY DEF Inv
    <3>2. (Moving(s) # {} <=> \E t \in Threads : inHand[t] = s) /\ (s \in Owned <=> owners[s] # {})
      BY DEF Moving, Owned
    <3>3. IF s \in created THEN P = {"free"} \/ P = {"moving"} \/ P = {"owned"} ELSE P = {}
      BY <2>3, <3>1, <3>2 DEF FreeOK, MovingOK, SomewhereOK
    <3>4. Cardinality(P) = IF s \in created THEN 1 ELSE 0
      BY <3>3, FS_EmptySet, FS_Singleton
    <3>5. "free" \in P => s \in ToSet(freeList)
      BY <2>3
    <3> QED  BY <3>1, <3>4, <3>5 DEF FreeOK
  <2> QED  BY <2>1, <2>2, <2>3 DEF OnePlace
<1> QED  BY <1>1, Invariance, PTL

(* While handles to a state live it is not cleared and keeps its           *)
(* generation; when it is handed out again the generation has grown, which *)
(* is what tells a stale observer apart.                                   *)
THEOREM LivesSeparate == Spec => LivesAreSeparate
<1> DEFINE Separate(s) ==
      /\ s \in Owned /\ s \in Owned' =>
           generation'[s] = generation[s] /\ (s \in dirty => s \in dirty')
      /\ s \notin Owned /\ s \in Owned' => generation'[s] > generation[s]
<1>1. Inv /\ [Next]_vars => [\A s \in States : Separate(s)]_vars
  <2> SUFFICES ASSUME Inv, [Next]_vars, NEW s \in States PROVE Separate(s)
    OBVIOUS
  <2>0. TypeOK /\ HandOK
    BY DEF Inv
  <2>1. CASE generation' = generation /\ dirty \subseteq dirty' /\ (owners'[s] # {} => owners[s] # {})
    BY <2>1 DEF Owned
  <2>2. ASSUME NEW t \in Threads, Acquire(t) PROVE Separate(s)
    BY <2>1, <2>2 DEF Acquire
  <2>3. ASSUME NEW t \in Threads, ResetForReuse(t) PROVE Separate(s)
    <3>1. PICK x : x = inHand[t]
      OBVIOUS
    <3>2. x \in States /\ owners[x] = {}
      BY <2>3, <3>1, InHand DEF ResetForReuse
    <3>3. /\ dirty' = dirty \ {x} /\ generation' = [generation EXCEPT ![x] = @ + 1]
          /\ owners' = [owners EXCEPT ![x] = {t}]
      BY <2>3, <3>1 DEF ResetForReuse
    <3>4. /\ generation'[x] = generation[x] + 1 /\ generation[x] \in Nat
          /\ s # x => generation'[s] = generation[s] /\ owners'[s] = owners[s]
      BY <2>0, <3>2, <3>3 DEF TypeOK
    <3> QED  BY <3>2, <3>3, <3>4 DEF Owned
  <2>4. ASSUME NEW t \in Threads, NEW x \in States, Drop(t, x) PROVE Separate(s)
    BY <2>0, <2>1, <2>4 DEF Drop, TypeOK
  <2>5. ASSUME NEW t \in Threads, NEW x \in States, Use(t, x) PROVE Separate(s)
    BY <2>1, <2>5 DEF Use
  <2>6. ASSUME NEW t \in Threads, NEW x \in States, NEW u \in Threads, Copy(t, u, x) PROVE Separate(s)
    BY <2>0, <2>1, <2>6 DEF Copy, TypeOK
  <2>7. ASSUME NEW t \in Threads, ClearState(t) PROVE Separate(s)
    <3>1. PICK x : x = inHand[t]
      OBVIOUS
    <3>2. x \in States /\ owners[x] = {}
      BY <2>7, <3>1, InHand DEF ClearState
    <3>3. dirty' = dirty \ {x} /\ UNCHANGED <<generation, owners>>
      BY <2>7, <3>1 DEF ClearState
    <3> QED  BY <3>2, <3>3 DEF Owned
  <2>8. ASSUME NEW t \in Threads, Release(t) PROVE Separate(s)
    BY <2>1, <2>8 DEF Release
  <2>9. CASE UNCHANGED vars
    BY <2>1, <2>9 DEF vars
  <2> QED  BY <2>2, <2>3, <2>4, <2>5, <2>6, <2>7, <2>8, <2>9 DEF Next, Finished
<1> QED  BY <1>1, Invariance, PTL DEF Spec, LivesAreSeparate

=============================================================================
