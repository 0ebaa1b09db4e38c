----------------------------- MODULE DataLemmas -----------------------------
(***************************************************************************)
(* Lemmas about the data of the models: what a push or a pop at either end *)
(* of a sequence does to its length, its elements and their positions (the *)
(* queues, free lists, call stacks and continuation lists are such         *)
(* sequences); induction over numbers and finite sets; least and greatest  *)
(* elements; functions defined by recursion; sums.                         *)
(***************************************************************************)
EXTENDS Integers, Sequences, FiniteSets, SequencesExt, FiniteSetTheorems, TLAPS

-----------------------------------------------------------------------------
(* The four operations on a queue or a call stack.                         *)

LEMMA PushFront ==
  ASSUME NEW S, NEW s \in Seq(S), NEW x \in S
  PROVE  /\ <<x>> \o s \in Seq(S)
         /\ <<x>> \o s # <<>>
         /\ Head(<<x>> \o s) = x
  OBVIOUS

LEMMA PopBack ==
  ASSUME NEW S, NEW s \in Seq(S), s # <<>>
  PROVE  /\ Front(s) \in Seq(S)
         /\ Last(s) \in S
<1>1. Len(s) - 1 \in Nat
  OBVIOUS
<1> QED  BY <1>1 DEF Front, Last

LEMMA PopFront ==
  ASSUME NEW S, NEW s \in Seq(S), s # <<>>
  PROVE  /\ Tail(s) \in Seq(S)
         /\ Head(s) \in S
  OBVIOUS

-----------------------------------------------------------------------------
(* Sequences without repetition.                                           *)
LEMMA TailElems ==
  ASSUME NEW S, NEW s \in Seq(S), s # <<>>, IsInjective(s)
  PROVE  /\ IsInjective(Tail(s))
         /\ ToSet(Tail(s)) = ToSet(s) \ {Head(s)}
         /\ Head(s) \in ToSet(s)
<1>1. Len(s) \in Nat \ {0} /\ Len(Tail(s)) = Len(s) - 1
  OBVIOUS
<1>2. \A i \in 1 .. Len(s) - 1 : Tail(s)[i] = s[i + 1]
  OBVIOUS
<1>3. DOMAIN s = 1 .. Len(s) /\ DOMAIN Tail(s) = 1 .. Len(s) - 1 /\ Head(s) = s[1]
  BY <1>1
<1>4. IsInjective(Tail(s))
  BY <1>1, <1>2, <1>3 DEF IsInjective
<1>5. ASSUME NEW x \in ToSet(s) \ {Head(s)} PROVE x \in ToSet(Tail(s))
  <2>1. PICK i \in 1 .. Len(s) : x = s[i]
    BY <1>3, <1>5 DEF ToSet
  <2>2. i - 1 \in 1 .. Len(s) - 1
    BY <1>1, <1>3, <1>5, <2>1
  <2>3. Tail(s)[i - 1] = x
    BY <1>1, <1>2, <2>1, <2>2
  <2> QED  BY <1>3, <2>2, <2>3 DEF ToSet
<1>6. ASSUME NEW x \in ToSet(Tail(s)) PROVE x \in ToSet(s) \ {Head(s)}
  <2>1. PICK i \in 1 .. Len(s) - 1 : x = s[i + 1]
    BY <1>2, <1>3 DEF ToSet
  <2>2. i + 1 \in 1 .. Len(s) /\ i + 1 # 1
    BY <1>1, <2>1
  <2> QED  BY <1>1, <1>3, <2>1, <2>2 DEF ToSet, IsInjective
<1> QED  BY <1>1, <1>3, <1>4, <1>5, <1>6 DEF ToSet

LEMMA FrontElems ==
  ASSUME NEW S, NEW s \in Seq(S), s # <<>>, IsInjective(s)
  PROVE  /\ IsInjective(Front(s))
         /\ ToSet(Front(s)) = ToSet(s) \ {Last(s)}
         /\ Last(s) \in ToSet(s)
<1>1. Len(s) \in Nat \ {0} /\ DOMAIN s = 1 .. Len(s)
  OBVIOUS
<1>2. /\ DOMAIN Front(s) = 1 .. Len(s) - 1
      /\ \A i \in 1 .. Len(s) - 1 : Front(s)[i] = s[i]
      /\ Last(s) = s[Len(s)]
  BY <1>1 DEF Front, Last
<1>3. IsInjective(Front(s))
  BY <1>1, <1>2 DEF IsInjective
<1>4. ASSUME NEW x \in ToSet(s) \ {Last(s)} PROVE x \in ToSet(Front(s))
  <2>1. PICK i \in 1 .. Len(s) : x = s[i]
    BY <1>1, <1>4 DEF ToSet
  <2>2. i \in 1 .. Len(s) - 1
    BY <1>1, <1>2, <1>4, <2>1
  <2> QED  BY <1>2, <2>1, <2>2 DEF ToSet
<1>5. ASSUME NEW x \in ToSet(Front(s)) PROVE x \in ToSet(s) \ {Last(s)}
  <2>1. PICK i \in 1 .. Len(s) - 1 : x = s[i]
    BY <1>2 DEF ToSet
  <2> QED  BY <1>1, <1>2, <2>1 DEF ToSet, IsInjective
<1>6. Last(s) \in ToSet(s)
  <2>1. Len(s) \in 1 .. Len(s)
    BY <1>1
  <2> QED  BY <1>1, <1>2, <2>1 DEF ToSet
<1> QED  BY <1>3, <1>4, <1>5, <1>6

LEMMA ConsElems ==
  ASSUME NEW S, NEW s \in Seq(S), NEW x \in S, x \notin ToSet(s), IsInjective(s)
  PROVE  /\ IsInjective(<<x>> \o s)
         /\ ToSet(<<x>> \o s) = ToSet(s) \cup {x}
<1> DEFINE r == <<x>> \o s
<1>1. /\ Len(s) \in Nat /\ DOMAIN s = 1 .. Len(s)
      /\ DOMAIN r = 1 .. Len(s) + 1
      /\ r[1] = x
      /\ \A i \in 1 .. Len(s) : r[i + 1] = s[i]
  OBVIOUS
<1> HIDE DEF r
<1>2. \A i \in 1 .. Len(s) + 1 : i = 1 \/ (i - 1 \in 1 .. Len(s) /\ r[i] = s[i - 1])
  <2> TAKE i \in 1 .. Len(s) + 1
  <2>1. CASE i = 1
    BY <2>1
  <2>2. CASE i # 1
    <3>1. i - 1 \in 1 .. Len(s) /\ (i - 1) + 1 = i
      BY <1>1, <2>2
    <3> QED  BY <1>1, <3>1
  <2> QED  BY <2>1, <2>2
<1>3. IsInjective(r)
  <2>1. SUFFICES ASSUME NEW i \in 1 .. Len(s) + 1, NEW k \in 1 .. Len(s) + 1, r[i] = r[k]
                 PROVE  i = k
    BY <1>1 DEF IsInjective
  <2>2. \A m \in 1 .. Len(s) : s[m] # x
    BY <1>1 DEF ToSet
  <2>3. CASE i = 1 \/ k = 1
    BY <1>1, <1>2, <2>1, <2>2, <2>3
  <2>4. CASE i # 1 /\ k # 1
    <3>1. /\ i - 1 \in 1 .. Len(s) /\ k - 1 \in 1 .. Len(s)
          /\ s[i - 1] = s[k - 1]
      BY <1>2, <2>1, <2>4
    <3>2. i - 1 = k - 1
      BY <1>1, <3>1 DEF IsInjective
    <3> QED  BY <3>2
  <2> QED  BY <2>3, <2>4
<1>4. ASSUME NEW y \in ToSet(r) PROVE y \in ToSet(s) \cup {x}
  BY <1>1, <1>2 DEF ToSet
<1>5. ASSUME NEW y \in ToSet(s) \cup {x} PROVE y \in ToSet(r)
  <2>1. CASE y = x
    BY <1>1, <2>1 DEF ToSet
  <2>2. CASE y \in ToSet(s)
    <3>1. PICK i \in 1 .. Len(s) : y = s[i]
      BY <1>1, <2>2 DEF ToSet
    <3> QED  BY <1>1, <3>1 DEF ToSet
  <2> QED  BY <2>1, <2>2
<1> QED  BY <1>3, <1>4, <1>5 DEF r

LEMMA AppendElems ==
  ASSUME NEW S, NEW s \in Seq(S), NEW x \in S, x \notin ToSet(s), IsInjective(s)
  PROVE  /\ IsInjective(Append(s, x))
         /\ ToSet(Append(s, x)) = ToSet(s) \cup {x}
<1> DEFINE r == Append(s, x)
<1>1. /\ Len(s) \in Nat /\ DOMAIN s = 1 .. Len(s)
      /\ DOMAIN r = 1 .. Len(s) + 1
      /\ r[Len(s) + 1] = x
      /\ \A i \in 1 .. Len(s) : r[i] = s[i]
  OBVIOUS
<1> HIDE DEF r
<1>2. IsInjective(r)
  BY <1>1 DEF IsInjective, ToSet
<1>3. ASSUME NEW y \in ToSet(r) PROVE y \in ToSet(s) \cup {x}
  BY <1>1 DEF ToSet
<1>4. ASSUME NEW y \in ToSet(s) \cup {x} PROVE y \in ToSet(r)
  BY <1>1 DEF ToSet
<1> QED  BY <1>2, <1>3, <1>4 DEF r

-----------------------------------------------------------------------------
(* Position i counted from the end, which a push or a pop at the front     *)
(* does not move.                                                          *)
FromEnd(s, i) == s[Len(s) + 1 - i]

LEMMA PushKeeps ==
  ASSUME NEW S, NEW s \in Seq(S), NEW x \in S
  PROVE  /\ <<x>> \o s \in Seq(S)
         /\ Len(<<x>> \o s) = Len(s) + 1
         /\ FromEnd(<<x>> \o s, Len(s) + 1) = x
         /\ \A i \in 1 .. Len(s) : FromEnd(<<x>> \o s, i) = FromEnd(s, i)
<1> DEFINE r == <<x>> \o s
<1>1. /\ r \in Seq(S) /\ Len(s) \in Nat /\ Len(r) = Len(s) + 1
      /\ r[1] = x
      /\ \A i \in 1 .. Len(s) : r[i + 1] = s[i]
  OBVIOUS
<1> HIDE DEF r
<1>2. ASSUME NEW i \in 1 .. Len(s) PROVE r[Len(r) + 1 - i] = s[Len(s) + 1 - i]
  <2>1. Len(s) + 1 - i \in 1 .. Len(s) /\ Len(r) + 1 - i = (Len(s) + 1 - i) + 1
    BY <1>1
  <2> QED  BY <1>1, <2>1
<1> QED  BY <1>1, <1>2 DEF r, FromEnd

LEMMA PopKeeps ==
  ASSUME NEW S, NEW s \in Seq(S), s # <<>>
  PROVE  /\ Tail(s) \in Seq(S) /\ Head(s) \in S
         /\ Len(s) \in Nat \ {0}
         /\ Len(Tail(s)) = Len(s) - 1
         /\ Head(s) = FromEnd(s, Len(s))
         /\ \A i \in 1 .. Len(s) - 1 : FromEnd(Tail(s), i) = FromEnd(s, i)
<1> DEFINE r == Tail(s)
<1>1. /\ r \in Seq(S) /\ Head(s) \in S /\ Head(s) = s[1]
      /\ Len(s) \in Nat \ {0} /\ Len(r) = Len(s) - 1
      /\ \A i \in 1 .. Len(s) - 1 : r[i] = s[i + 1]
  OBVIOUS
<1> HIDE DEF r
<1>2. ASSUME NEW i \in 1 .. Len(s) - 1 PROVE r[Len(r) + 1 - i] = s[Len(s) + 1 - i]
  <2>1. Len(s) - i \in 1 .. Len(s) - 1 /\ Len(r) + 1 - i = Len(s) - i
    BY <1>1
  <2> QED  BY <1>1, <2>1
<1> QED  BY <1>1, <1>2 DEF r, FromEnd

(* The front element of a sequence is replaced.                            *)
LEMMA ReplaceKeeps ==
  ASSUME NEW S, NEW s \in Seq(S), s # <<>>, NEW x \in S
  PROVE  /\ <<x>> \o Tail(s) \in Seq(S)
         /\ Len(<<x>> \o Tail(s)) = Len(s)
         /\ FromEnd(<<x>> \o Tail(s), Len(s)) = x
         /\ \A i \in 1 .. Len(s) - 1 : FromEnd(<<x>> \o Tail(s), i) = FromEnd(s, i)
<1> DEFINE r == Tail(s)
<1>1. /\ r \in Seq(S) /\ Len(s) \in Nat \ {0} /\ Len(r) = Len(s) - 1
      /\ \A i \in 1 .. Len(s) - 1 : FromEnd(r, i) = FromEnd(s, i)
  BY PopKeeps
<1> HIDE DEF r
<1>2. /\ <<x>> \o r \in Seq(S)
      /\ Len(<<x>> \o r) = Len(r) + 1
      /\ FromEnd(<<x>> \o r, Len(r) + 1) = x
      /\ \A i \in 1 .. Len(r) : FromEnd(<<x>> \o r, i) = FromEnd(r, i)
  BY <1>1, PushKeeps
<1>3. Len(r) + 1 = Len(s) /\ 1 .. Len(r) = 1 .. Len(s) - 1
  BY <1>1
<1> QED  BY <1>1, <1>2, <1>3 DEF r

-----------------------------------------------------------------------------
(* Induction over the natural numbers.  If n were the least number missing *)
(* from S, the successor would map the numbers below n to those between 1  *)
(* and n, and there is no room for them.                                   *)
LEMMA NatInduct ==
  ASSUME NEW S, 0 \in S, \A n \in Nat : n \in S => n + 1 \in S
  PROVE  Nat \subseteq S
<1> SUFFICES ASSUME NEW n \in Nat, n \notin S PROVE FALSE
  OBVIOUS
<1> DEFINE A == S \cap (0 .. n)
           f == [i \in A |-> i + 1]
<1>1. IsFiniteSet(0 .. n) /\ IsFiniteSet(A)
  <2>1. IsFiniteSet(0 .. n)
    BY FS_Interval
  <2> QED  BY <2>1, FS_Subset
<1>2. 0 \in A
  OBVIOUS
<1>3. f \in [A -> A \ {0}]
  OBVIOUS
<1>4. /\ Cardinality(A) \in Nat
      /\ IsFiniteSet(A \ {0})
      /\ Cardinality(A \ {0}) = Cardinality(A) - 1
  BY <1>1, <1>2, FS_RemoveElement, FS_CardinalityType
<1>5. \E i, j \in A : i # j /\ f[i] = f[j]
  <2> HIDE DEF f, A
  <2> QED  BY <1>1, <1>3, <1>4, FS_PigeonHole
<1> QED  BY <1>5

(* Induction over the subsets of a finite set: T holds of a set when it    *)
(* holds of its proper subsets.                                            *)
LEMMA SubsetInduct ==
  ASSUME NEW S, IsFiniteSet(S), NEW T,
         \A A \in SUBSET S : (\A B \in SUBSET A : B # A => B \in T) => A \in T
  PROVE  S \in T
<1> DEFINE Sizes == {n \in Nat : \A A \in SUBSET S : Cardinality(A) <= n => A \in T}
<1>1. \A A \in SUBSET S : IsFiniteSet(A) /\ Cardinality(A) \in Nat
  BY FS_Subset, FS_CardinalityType
<1>2. ASSUME NEW A \in SUBSET S, NEW B \in SUBSET A, B # A
      PROVE  Cardinality(B) < Cardinality(A)
  <2>1. B \in SUBSET S
    OBVIOUS
  <2>2. Cardinality(B) <= Cardinality(A) /\ Cardinality(B) # Cardinality(A)
    BY <1>1, <1>2, FS_Subset
  <2> QED  BY <1>1, <2>1, <2>2
<1>3. 0 \in Sizes
  BY <1>1, <1>2
<1>4. ASSUME NEW n \in Nat, n \in Sizes PROVE n + 1 \in Sizes
  <2> SUFFICES ASSUME NEW A \in SUBSET S, Cardinality(A) <= n + 1 PROVE A \in T
    OBVIOUS
  <2>1. \A B \in SUBSET A : B # A => Cardinality(B) <= n
    BY <1>1, <1>2
  <2> QED  BY <2>1, <1>4
<1>5. Cardinality(S) \in Sizes
  <2> HIDE DEF Sizes
  <2> QED  BY <1>1, <1>3, <1>4, NatInduct
<1> QED  BY <1>5, <1>1

-----------------------------------------------------------------------------
(* Sums over a finite set, as FiniteSetsExt defines them.                  *)

Pick(s) == CHOOSE x \in s : TRUE

IsSum(g, f, S) ==
  g = [s \in SUBSET S |-> IF s = {} THEN 0 ELSE f[Pick(s)] + g[s \ {Pick(s)}]]

SumOf(f, S) == MapThenSumSet(LAMBDA x : f[x], S)

LEMMA SumStep ==
  ASSUME NEW f, NEW S, NEW g, IsSum(g, f, S)
  PROVE  /\ g[{}] = 0
         /\ \A s \in SUBSET S : s # {} => g[s] = f[Pick(s)] + g[s \ {Pick(s)}]
  BY DEF IsSum

LEMMA SumUnique ==
  ASSUME NEW f, NEW A, NEW B, NEW g, NEW h, IsSum(g, f, A), IsSum(h, f, B),
         NEW s, s \subseteq A, s \subseteq B, IsFiniteSet(s)
  PROVE  g[s] = h[s]
<1> DEFINE T == {r \in SUBSET s : g[r] = h[r]}
<1>1. ASSUME NEW r \in SUBSET s, \A q \in SUBSET r : q # r => q \in T PROVE r \in T
  <2>1. CASE r = {}
    BY <2>1, SumStep
  <2>2. CASE r # {}
    <3>1. Pick(r) \in r
      BY <2>2 DEF Pick
    <3>2. r \ {Pick(r)} \in T
      BY <3>1, <1>1
    <3>3. /\ g[r] = f[Pick(r)] + g[r \ {Pick(r)}]
          /\ h[r] = f[Pick(r)] + h[r \ {Pick(r)}]
      BY <2>2, SumStep
    <3> QED  BY <3>2, <3>3
  <2> QED  BY <2>1, <2>2
<1>2. s \in T
  <2> HIDE DEF T
  <2> QED  BY <1>1, SubsetInduct
<1> QED  BY <1>2

LEMMA SumExists ==
  ASSUME NEW f, NEW S, IsFiniteSet(S)
  PROVE  \E g : IsSum(g, f, S)
<1> DEFINE T == {A \in SUBSET S : \E g : IsSum(g, f, A)}
<1>1. ASSUME NEW A \in SUBSET S, \A B \in SUBSET A : B # A => B \in T PROVE A \in T
  <2> DEFINE sum(B) == CHOOSE g : IsSum(g, f, B)
             G == [s \in SUBSET A |-> IF s = {} THEN 0
                                      ELSE f[Pick(s)] + sum(s \ {Pick(s)})[s \ {Pick(s)}]]
  <2>1. ASSUME NEW B \in SUBSET A, B # A PROVE IsSum(sum(B), f, B)
    BY <1>1, <2>1
  <2>2. ASSUME NEW s \in SUBSET A, s # {} PROVE Pick(s) \in s /\ s \ {Pick(s)} # A
    BY <2>2 DEF Pick
  <2>3. ASSUME NEW B \in SUBSET A, B # A, B # {}
        PROVE  sum(B)[B] = f[Pick(B)] + sum(B \ {Pick(B)})[B \ {Pick(B)}]
    <3> DEFINE C == B \ {Pick(B)}
    <3>1. C \in SUBSET A /\ C \in SUBSET B /\ C # A
      BY <2>2, <2>3
    <3>2. sum(B)[B] = f[Pick(B)] + sum(B)[C]
      <4>1. IsSum(sum(B), f, B)
        BY <2>1, <2>3
      <4> HIDE DEF sum
      <4> QED  BY <4>1, <2>3, SumStep
    <3>3. IsFiniteSet(C)
      BY <3>1, FS_Subset
    <3>4. sum(B)[C] = sum(C)[C]
      <4>1. IsSum(sum(B), f, B) /\ IsSum(sum(C), f, C)
        BY <2>1, <2>3, <3>1
      <4> HIDE DEF sum, C
      <4> QED  BY <4>1, <3>1, <3>3, SumUnique
    <3> QED  BY <3>2, <3>4
  <2>4. ASSUME NEW s \in SUBSET A, s # {} PROVE G[s \ {Pick(s)}] = sum(s \ {Pick(s)})[s \ {Pick(s)}]
    <3> DEFINE C == s \ {Pick(s)}
    <3>1. C \in SUBSET A /\ C # A
      BY <2>2, <2>4
    <3>2. CASE C = {}
      <4>1. IsSum(sum(C), f, C)
        BY <2>1, <3>1
      <4>2. sum(C)[C] = 0
        BY <4>1, <3>2, SumStep
      <4> QED  BY <4>2, <3>2
    <3>3. CASE C # {}
      BY <3>1, <3>3, <2>3
    <3> QED  BY <3>2, <3>3
  <2>5. IsSum(G, f, A)
    <3>1. ASSUME NEW s \in SUBSET A
          PROVE  G[s] = IF s = {} THEN 0 ELSE f[Pick(s)] + G[s \ {Pick(s)}]
      <4>1. G[s] = IF s = {} THEN 0 ELSE f[Pick(s)] + sum(s \ {Pick(s)})[s \ {Pick(s)}]
        OBVIOUS
      <4> HIDE DEF G, sum
      <4> QED  BY <2>4, <4>1
    <3>2. G = [s \in SUBSET A |-> G[s]]
      OBVIOUS
    <3> HIDE DEF G
    <3> QED  BY <3>1, <3>2 DEF IsSum
  <2> QED  BY <2>5
<1>2. S \in T
  <2> HIDE DEF T
  <2> QED  BY <1>1, SubsetInduct
<1> QED  BY <1>2

LEMMA SumIsSum ==
  ASSUME NEW f, NEW S, IsFiniteSet(S)
  PROVE  \E g : IsSum(g, f, S) /\ SumOf(f, S) = g[S]
<1>1. SumOf(f, S) = (CHOOSE g : IsSum(g, f, S))[S]
  BY DEF SumOf, MapThenSumSet, MapThenFoldSet, IsSum, Pick
<1> QED  BY <1>1, SumExists

LEMMA SumEmpty == \A f : SumOf(f, {}) = 0
<1> SUFFICES ASSUME NEW f PROVE SumOf(f, {}) = 0
  OBVIOUS
<1>1. PICK g : IsSum(g, f, {}) /\ SumOf(f, {}) = g[{}]
  BY FS_EmptySet, SumIsSum
<1> QED  BY <1>1, SumStep

LEMMA SumPick ==
  ASSUME NEW f, NEW S, IsFiniteSet(S), S # {}
  PROVE  SumOf(f, S) = f[Pick(S)] + SumOf(f, S \ {Pick(S)})
<1> DEFINE R == S \ {Pick(S)}
<1>1. IsFiniteSet(R)
  BY FS_RemoveElement
<1>2. PICK g : IsSum(g, f, S) /\ SumOf(f, S) = g[S]
  BY SumIsSum
<1>3. PICK h : IsSum(h, f, R) /\ SumOf(f, R) = h[R]
  <2> HIDE DEF R
  <2> QED  BY <1>1, SumIsSum
<1>4. g[R] = h[R]
  <2>1. R \subseteq S
    OBVIOUS
  <2> HIDE DEF R
  <2> QED  BY <1>1, <1>2, <1>3, <2>1, SumUnique
<1>5. g[S] = f[Pick(S)] + g[R]
  BY <1>2, SumStep
<1> QED  BY <1>2, <1>3, <1>4, <1>5

LEMMA SumType ==
  ASSUME NEW S, IsFiniteSet(S), NEW f, \A x \in S : f[x] \in Int
  PROVE  SumOf(f, S) \in Int
<1> DEFINE T == {A \in SUBSET S : SumOf(f, A) \in Int}
<1>1. ASSUME NEW A \in SUBSET S, \A B \in SUBSET A : B # A => B \in T PROVE A \in T
  <2>1. CASE A = {}
    BY <2>1, SumEmpty
  <2>2. CASE A # {}
    <3>1. Pick(A) \in A
      BY <2>2 DEF Pick
    <3>2. A \ {Pick(A)} \in T
      BY <3>1, <1>1
    <3>3. SumOf(f, A) = f[Pick(A)] + SumOf(f, A \ {Pick(A)})
      BY <2>2, FS_Subset, SumPick
    <3> QED  BY <3>1, <3>2, <3>3
  <2> QED  BY <2>1, <2>2
<1>2. S \in T
  <2> HIDE DEF T
  <2> QED  BY <1>1, SubsetInduct
<1> QED  BY <1>2

(* Any element may be taken first.                                         *)
LEMMA SumTake ==
  ASSUME NEW S, IsFiniteSet(S), NEW f, \A x \in S : f[x] \in Int, NEW x \in S
  PROVE  SumOf(f, S) = f[x] + SumOf(f, S \ {x})
<1> DEFINE T == {A \in SUBSET S : \A a \in A : SumOf(f, A) = f[a] + SumOf(f, A \ {a})}
<1>1. ASSUME NEW A \in SUBSET S, \A B \in SUBSET A : B # A => B \in T PROVE A \in T
  <2> SUFFICES ASSUME NEW a \in A PROVE SumOf(f, A) = f[a] + SumOf(f, A \ {a})
    OBVIOUS
  <2> DEFINE p == Pick(A)
             R == (A \ {a}) \ {p}
  <2>1. p \in A
    BY DEF Pick
  <2>2. /\ IsFiniteSet(A) /\ IsFiniteSet(A \ {a}) /\ IsFiniteSet(A \ {p}) /\ IsFiniteSet(R)
    <3>1. /\ A \in SUBSET S /\ A \ {a} \in SUBSET S /\ A \ {p} \in SUBSET S /\ R \in SUBSET S
      OBVIOUS
    <3> HIDE DEF R, p
    <3> QED  BY <3>1, FS_Subset
  <2>3. SumOf(f, A) = f[p] + SumOf(f, A \ {p})
    BY <2>1, <2>2, SumPick
  <2>4. CASE a = p
    BY <2>3, <2>4
  <2>5. CASE a # p
    <3>1. A \ {a} \in T /\ A \ {p} \in T
      BY <1>1, <2>1
    <3>2. SumOf(f, A \ {p}) = f[a] + SumOf(f, (A \ {p}) \ {a})
      BY <3>1, <2>5
    <3>3. SumOf(f, A \ {a}) = f[p] + SumOf(f, R)
      BY <3>1, <2>1, <2>5
    <3>4. (A \ {p}) \ {a} = R
      OBVIOUS
    <3>5. SumOf(f, R) \in Int
      <4>1. \A y \in R : f[y] \in Int
        OBVIOUS
      <4> HIDE DEF R
      <4> QED  BY <4>1, <2>2, SumType
    <3>6. f[p] \in Int /\ f[a] \in Int
      BY <2>1
    <3>7. SumOf(f, A \ {p}) = f[a] + SumOf(f, R)
      BY <3>2, <3>4
    <3> HIDE DEF R, p
    <3> QED  BY <2>3, <3>3, <3>5, <3>6, <3>7
  <2> QED  BY <2>4, <2>5
<1>2. S \in T
  <2> HIDE DEF T
  <2> QED  BY <1>1, SubsetInduct
<1> QED  BY <1>2

(* A sum is determined by its summands.                                    *)
LEMMA SumSame ==
  ASSUME NEW S, IsFiniteSet(S), NEW f, NEW g, \A x \in S : f[x] = g[x]
  PROVE  SumOf(f, S) = SumOf(g, S)
<1> DEFINE T == {A \in SUBSET S : SumOf(f, A) = SumOf(g, A)}
<1>1. ASSUME NEW A \in SUBSET S, \A B \in SUBSET A : B # A => B \in T PROVE A \in T
  <2>1. CASE A = {}
    BY <2>1, SumEmpty
  <2>2. CASE A # {}
    <3>1. Pick(A) \in A
      BY <2>2 DEF Pick
    <3>2. A \ {Pick(A)} \in T
      BY <3>1, <1>1
    <3>3. /\ SumOf(f, A) = f[Pick(A)] + SumOf(f, A \ {Pick(A)})
          /\ SumOf(g, A) = g[Pick(A)] + SumOf(g, A \ {Pick(A)})
      BY <2>2, FS_Subset, SumPick
    <3> QED  BY <3>1, <3>2, <3>3
  <2> QED  BY <2>1, <2>2
<1>2. S \in T
  <2> HIDE DEF T
  <2> QED  BY <1>1, SubsetInduct
<1> QED  BY <1>2

(* One summand changes.                                                    *)
LEMMA SumChange ==
  ASSUME NEW S, IsFiniteSet(S), NEW x \in S, NEW f, NEW g,
         \A y \in S : f[y] \in Int /\ g[y] \in Int,
         \A y \in S \ {x} : f[y] = g[y]
  PROVE  SumOf(g, S) = SumOf(f, S) + (g[x] - f[x])
<1>1. IsFiniteSet(S \ {x})
  BY FS_RemoveElement
<1>2. SumOf(f, S \ {x}) = SumOf(g, S \ {x}) /\ SumOf(f, S \ {x}) \in Int
  BY <1>1, SumSame, SumType
<1>3. /\ SumOf(f, S) = f[x] + SumOf(f, S \ {x})
      /\ SumOf(g, S) = g[x] + SumOf(g, S \ {x})
  BY SumTake
<1> QED  BY <1>2, <1>3

LEMMA SumZero ==
  ASSUME NEW S, IsFiniteSet(S), NEW f, \A x \in S : f[x] = 0
  PROVE  SumOf(f, S) = 0
<1> DEFINE T == {A \in SUBSET S : SumOf(f, A) = 0}
<1>1. ASSUME NEW A \in SUBSET S, \A B \in SUBSET A : B # A => B \in T PROVE A \in T
  <2>1. CASE A = {}
    BY <2>1, SumEmpty
  <2>2. CASE A # {}
    <3>1. Pick(A) \in A
      BY <2>2 DEF Pick
    <3>2. A \ {Pick(A)} \in T
      BY <3>1, <1>1
    <3>3. SumOf(f, A) = f[Pick(A)] + SumOf(f, A \ {Pick(A)})
      BY <2>2, FS_Subset, SumPick
    <3> QED  BY <3>1, <3>2, <3>3
  <2> QED  BY <2>1, <2>2
<1>2. S \in T
  <2> HIDE DEF T
  <2> QED  BY <1>1, SubsetInduct
<1> QED  BY <1>2

(* Sums add.                                                               *)
LEMMA SumAdds ==
  ASSUME NEW S, IsFiniteSet(S), NEW f, NEW g, NEW h,
         \A x \in S : f[x] \in Int /\ g[x] \in Int /\ h[x] = f[x] + g[x]
  PROVE  SumOf(h, S) = SumOf(f, S) + SumOf(g, S)
<1> DEFINE T == {A \in SUBSET S : SumOf(h, A) = SumOf(f, A) + SumOf(g, A)}
<1>1. ASSUME NEW A \in SUBSET S, \A B \in SUBSET A : B # A => B \in T PROVE A \in T
  <2>1. CASE A = {}
    BY <2>1, SumEmpty
  <2>2. CASE A # {}
    <3> DEFINE p == Pick(A)
               R == A \ {p}
    <3>1. p \in A
      BY <2>2 DEF Pick
    <3>2. R \in T /\ R \in SUBSET S
      BY <3>1, <1>1
    <3>3. /\ SumOf(f, A) = f[p] + SumOf(f, R)
          /\ SumOf(g, A) = g[p] + SumOf(g, R)
          /\ SumOf(h, A) = h[p] + SumOf(h, R)
      BY <2>2, FS_Subset, SumPick
    <3>4. SumOf(f, R) \in Int /\ SumOf(g, R) \in Int
      <4>1. IsFiniteSet(R)
        BY <3>2, FS_Subset
      <4> HIDE DEF p
      <4> QED  BY <4>1, <3>2, SumType
    <3>5. SumOf(h, R) = SumOf(f, R) + SumOf(g, R)
      BY <3>2
    <3>6. f[p] \in Int /\ g[p] \in Int /\ h[p] = f[p] + g[p]
      BY <3>1
    <3> HIDE DEF p, R
    <3> QED  BY <3>3, <3>4, <3>5, <3>6
  <2> QED  BY <2>1, <2>2
<1>2. S \in T
  <2> HIDE DEF T
  <2> QED  BY <1>1, SubsetInduct
<1> QED  BY <1>2

-----------------------------------------------------------------------------
(* The least and the greatest of a set of numbers.                         *)
LEMMA MinIs ==
  ASSUME NEW S \in SUBSET Nat, S # {}
  PROVE  Min(S) \in S /\ \A x \in S : Min(S) <= x
<1>1. \E m \in S : \A x \in S : m <= x
  <2> SUFFICES ASSUME \A m \in S : \E x \in S : ~(m <= x) PROVE FALSE
    OBVIOUS
  <2> DEFINE T == {n \in Nat : \A x \in S : ~(x <= n)}
  <2>1. 0 \in T
    <3>1. 0 \notin S
      OBVIOUS
    <3> QED  BY <3>1
  <2>2. ASSUME NEW n \in Nat, n \in T PROVE n + 1 \in T
    <3>1. n + 1 \notin S
      BY <2>2
    <3> QED  BY <2>2, <3>1
  <2>3. Nat \subseteq T
    <3> HIDE DEF T
    <3> QED  BY <2>1, <2>2, NatInduct
  <2>4. PICK x \in S : x \in Nat
    OBVIOUS
  <2>5. ~(x <= x)
    BY <2>3, <2>4
  <2> QED  BY <2>4, <2>5
<1> QED  BY <1>1 DEF Min

LEMMA MaxIs ==
  ASSUME NEW S \in SUBSET Nat, S # {}, NEW b \in Nat, \A x \in S : x <= b
  PROVE  Max(S) \in S /\ \A x \in S : x <= Max(S)
<1> DEFINE T == {n \in Nat : \A x \in S : x <= n}
<1>1. Min(T) \in T /\ \A n \in T : Min(T) <= n
  <2>1. T \in SUBSET Nat /\ b \in T
    OBVIOUS
  <2> HIDE DEF T
  <2> QED  BY <2>1, MinIs
<1>2. Min(T) \in S
  <2> SUFFICES ASSUME Min(T) \notin S PROVE FALSE
    OBVIOUS
  <2>1. Min(T) \in Nat /\ \A x \in S : x \in Nat /\ x <= Min(T) /\ x # Min(T)
    BY <1>1
  <2>2. PICK m : m = Min(T)
    OBVIOUS
  <2>3. m \in Nat /\ \A x \in S : x \in Nat /\ x <= m - 1
    BY <2>1, <2>2
  <2>4. m - 1 \in T
    <3>1. m - 1 \in Nat
      <4>1. PICK x \in S : x \in Nat /\ x <= m - 1
        BY <2>3
      <4> QED  BY <2>3, <4>1
    <3> QED  BY <2>3, <3>1
  <2>5. m <= m - 1
    BY <1>1, <2>2, <2>4
  <2> QED  BY <2>3, <2>5
<1>3. \E m \in S : \A x \in S : m >= x
  BY <1>1, <1>2
<1> QED  BY <1>3 DEF Max

(* The place of the largest value of a function on a finite set.           *)
LEMMA Greatest ==
  ASSUME NEW S, IsFiniteSet(S), S # {}, NEW f, \A x \in S : f[x] \in Int
  PROVE  \E m \in S : \A x \in S : f[x] <= f[m]
<1> DEFINE T == {A \in SUBSET S : A # {} => \E m \in A : \A x \in A : f[x] <= f[m]}
<1>1. ASSUME NEW A \in SUBSET S, \A B \in SUBSET A : B # A => B \in T PROVE A \in T
  <2> SUFFICES ASSUME A # {} PROVE \E m \in A : \A x \in A : f[x] <= f[m]
    OBVIOUS
  <2>1. PICK p \in A : TRUE
    OBVIOUS
  <2>2. A \ {p} \in T
    BY <1>1
  <2>3. CASE A \ {p} = {}
    BY <2>3
  <2>4. CASE A \ {p} # {}
    <3>1. PICK m \in A \ {p} : \A x \in A \ {p} : f[x] <= f[m]
      BY <2>2, <2>4
    <3>2. f[m] \in Int /\ f[p] \in Int /\ \A x \in A : f[x] \in Int
      OBVIOUS
    <3>3. CASE f[p] <= f[m]
      BY <3>1, <3>3
    <3>4. CASE f[m] <= f[p]
      BY <3>1, <3>2, <3>4
    <3> QED  BY <3>2, <3>3, <3>4
  <2> QED  BY <2>3, <2>4
<1>2. S \in T
  <2> HIDE DEF T
  <2> QED  BY <1>1, SubsetInduct
<1> QED  BY <1>2

-----------------------------------------------------------------------------
(* A recursion over 0 .. n has a solution.                                 *)
RecursionSteps(n, S) == [(1 .. n) \X S -> S]
Solutions(n, S, b, G) ==
  {f \in [0 .. n -> S] : f[0] = b /\ \A k \in 1 .. n : f[k] = G[<<k, f[k - 1]>>]}

LEMMA RecursionExists ==
  ASSUME NEW n \in Nat, NEW S, NEW b \in S, NEW G \in RecursionSteps(n, S)
  PROVE  Solutions(n, S, b, G) # {}
<1> USE DEF RecursionSteps
<1> DEFINE Solves(f, m) == /\ f \in [0 .. m -> S] /\ f[0] = b
                           /\ \A k \in 1 .. m : f[k] = G[<<k, f[k - 1]>>]
           T == {m \in Nat : m <= n => \E f : Solves(f, m)}
<1>1. 0 \in T
  <2>1. Solves([k \in 0 .. 0 |-> b], 0)
    OBVIOUS
  <2> QED  BY <2>1
<1>2. ASSUME NEW m \in Nat, m \in T PROVE m + 1 \in T
  <2> SUFFICES ASSUME m + 1 <= n PROVE \E f : Solves(f, m + 1)
    OBVIOUS
  <2>1. PICK f : Solves(f, m)
    BY <1>2
  <2> DEFINE g == [k \in 0 .. m + 1 |-> IF k = m + 1 THEN G[<<m + 1, f[m]>>] ELSE f[k]]
  <2>2. f[m] \in S /\ m + 1 \in 1 .. n /\ \A k \in 0 .. m : f[k] \in S
    BY <2>1
  <2>3. G[<<m + 1, f[m]>>] \in S
    BY <2>2
  <2>4. g \in [0 .. m + 1 -> S]
    BY <2>2, <2>3
  <2>5. g[0] = b
    BY <2>1
  <2>6. ASSUME NEW k \in 1 .. m + 1 PROVE g[k] = G[<<k, g[k - 1]>>]
    <3>1. /\ g[m + 1] = G[<<m + 1, f[m]>>]
          /\ \A i \in 0 .. m : g[i] = f[i]
      BY <2>2
    <3> HIDE DEF g
    <3>2. CASE k = m + 1
      <4>1. k - 1 = m /\ m \in 0 .. m
        BY <3>2
      <4>2. g[k - 1] = f[m]
        BY <3>1, <4>1
      <4> QED  BY <3>1, <3>2, <4>2
    <3>3. CASE k # m + 1
      <4>1. k \in 1 .. m /\ k \in 0 .. m /\ k - 1 \in 0 .. m
        BY <3>3
      <4>2. g[k] = f[k] /\ g[k - 1] = f[k - 1]
        BY <3>1, <4>1
      <4>3. f[k] = G[<<k, f[k - 1]>>]
        BY <2>1, <4>1
      <4> QED  BY <4>2, <4>3
    <3> QED  BY <3>2, <3>3
  <2> HIDE DEF g
  <2> QED  BY <2>4, <2>5, <2>6
<1>3. Nat \subseteq T
  <2> HIDE DEF T
  <2> QED  BY <1>1, <1>2, NatInduct
<1>4. PICK f : Solves(f, n)
  <2>1. n \in T
    BY <1>3
  <2> HIDE DEF Solves
  <2> QED  BY <2>1
<1>5. f \in Solutions(n, S, b, G)
  BY <1>4 DEF Solutions
<1> QED  BY <1>5

(* A function that follows the recursion stays in its range.               *)
LEMMA RecursionTyped ==
  ASSUME NEW n \in Nat, NEW S, NEW b \in S, NEW G \in RecursionSteps(n, S),
         NEW R, R = [k \in 0 .. n |-> R[k]], R[0] = b,
         \A k \in 1 .. n : R[k - 1] \in S => R[k] = G[<<k, R[k - 1]>>]
  PROVE  R \in Solutions(n, S, b, G)
<1> DEFINE T == {k \in Nat : k <= n => R[k] \in S}
<1>1. 0 \in T
  OBVIOUS
<1>2. ASSUME NEW k \in Nat, k \in T PROVE k + 1 \in T
  <2> SUFFICES ASSUME k + 1 <= n PROVE R[k + 1] \in S
    OBVIOUS
  <2>1. k + 1 \in 1 .. n /\ (k + 1) - 1 = k /\ R[k] \in S
    BY <1>2
  <2>2. R[k + 1] = G[<<k + 1, R[k]>>]
    BY <2>1
  <2> QED  BY <2>1, <2>2 DEF RecursionSteps
<1>3. Nat \subseteq T
  <2> HIDE DEF T
  <2> QED  BY <1>1, <1>2, NatInduct
<1>4. \A k \in 0 .. n : R[k] \in S
  BY <1>3
<1>5. R \in [0 .. n -> S]
  BY <1>4
<1>6. ASSUME NEW k \in 1 .. n PROVE R[k] = G[<<k, R[k - 1]>>]
  <2>1. k - 1 \in 0 .. n
    OBVIOUS
  <2> QED  BY <1>4, <2>1
<1> QED  BY <1>5, <1>6 DEF Solutions

-----------------------------------------------------------------------------
(* A sequence without repetition of numbers up to n.                       *)
LEMMA InjectiveLength ==
  ASSUME NEW n \in Nat, NEW s \in Seq(1 .. n), IsInjective(s)
  PROVE  /\ Len(s) <= n
         /\ ToSet(s) = 1 .. n => Len(s) = n
<1>1. /\ Len(s) \in Nat /\ s \in [1 .. Len(s) -> 1 .. n]
  OBVIOUS
<1>2. s \in Injection(1 .. Len(s), 1 .. n)
  BY <1>1 DEF Injection, IsInjective
<1>3. /\ IsFiniteSet(1 .. n) /\ Cardinality(1 .. n) = n
      /\ IsFiniteSet(1 .. Len(s)) /\ Cardinality(1 .. Len(s)) = Len(s)
  <2>1. \A m \in Nat : IsFiniteSet(1 .. m) /\ Cardinality(1 .. m) = m
    BY FS_Interval
  <2> QED  BY <1>1, <2>1
<1>4. Len(s) <= n /\ (Len(s) = n <=> s \in Surjection(1 .. Len(s), 1 .. n))
  BY <1>2, <1>3, FS_Injection
<1>5. ASSUME ToSet(s) = 1 .. n PROVE s \in Surjection(1 .. Len(s), 1 .. n)
  BY <1>1, <1>5 DEF Surjection, ToSet
<1> QED  BY <1>4, <1>5

(* The elements of a sequence after an append.                             *)
LEMMA AppendSet ==
  ASSUME NEW S, NEW s \in Seq(S), NEW x \in S
  PROVE  ToSet(Append(s, x)) = ToSet(s) \cup {x}
<1> DEFINE r == Append(s, x)
<1>1. /\ Len(s) \in Nat /\ DOMAIN s = 1 .. Len(s)
      /\ DOMAIN r = 1 .. Len(s) + 1
      /\ r[Len(s) + 1] = x
      /\ \A i \in 1 .. Len(s) : r[i] = s[i]
  OBVIOUS
<1> HIDE DEF r
<1>2. ASSUME NEW y \in ToSet(r) PROVE y \in ToSet(s) \cup {x}
  BY <1>1 DEF ToSet
<1>3. ToSet(s) \cup {x} \subseteq ToSet(r)
  BY <1>1 DEF ToSet
<1> QED  BY <1>2, <1>3 DEF r

=============================================================================
