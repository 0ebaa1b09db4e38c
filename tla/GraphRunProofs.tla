--------------------------- MODULE GraphRunProofs ---------------------------
(***************************************************************************)
(* Theorems about GraphRun and the GraphBuild in it, for every program.    *)
(* The search is a verified depth-first search: a node is being visited    *)
(* while it is on the stack, the stack is a path of the graph, and as long *)
(* as no cycle was met every node in the order has its dependencies before *)
(* it.  The run keeps a job as its node declares it, main at a place of    *)
(* its script with the effect of every earlier call, a record in step with *)
(* its job, and the times in the records in the order of the graph.  What  *)
(* is computed from the records is a matter of the order alone.            *)
(***************************************************************************)
EXTENDS GraphRun, DataLemmas, TLAPS

-----------------------------------------------------------------------------
(* The search for an order: the invariant.                                 *)

Listed  == {"search", "ordered", "run", "done", "threw"}
Settled == {"ordered", "run", "done"}
Searching == Class \in {"ValidatedJobGraph", "TimedJobGraph"}

(* The edges the dependency lists are made of.                             *)
Used == IF Class = "ValidatedJobGraph" THEN {i \in DOMAIN Edges : Keeps(i)} ELSE DOMAIN Edges

ControlOK ==
  /\ program \in Programs
  /\ main \in {"declare", "collect", "refused"} \cup Listed
  /\ main \notin {"declare", "refused"} => \A i \in DOMAIN Edges : Accepted(i)
  /\ main = "collect" => Class = "ValidatedJobGraph"
  /\ main = "search" => Searching
  /\ badEdges = IF Class = "ValidatedJobGraph" /\ main \in Listed THEN DOMAIN Edges \ Used ELSE {}
  /\ cycles # {} => Class = "ValidatedJobGraph" /\ main \in Listed

ListsOK ==
  /\ dependencies \in [Nodes -> Seq(Nodes)]
  /\ main \in Listed =>
       \A j, d \in Nodes : d \in ToSet(dependencies[j]) <=> \E i \in Used : Edges[i] = <<j, d>>

Frame == [node : Nodes, next : Nat \ {0}]

SearchTypeOK ==
  /\ visited \in [Nodes -> {"Unvisited", "Visiting", "Visited"}]
  /\ stack \in Seq(Frame)
  /\ order \in Seq(Nodes)
  /\ main \notin Listed => /\ stack = <<>> /\ order = <<>>
                           /\ \A j \in Nodes : visited[j] = "Unvisited"

(* A node is being visited while it is on the stack, once, and each frame  *)
(* was called for the dependency before the caller's next.                 *)
StackOK ==
  main = "search" =>
    /\ \A j \in Nodes : visited[j] = "Visiting" <=> \E k \in 1 .. Len(stack) : stack[k].node = j
    /\ \A k, l \in 1 .. Len(stack) : stack[k].node = stack[l].node => k = l
    /\ \A k \in 1 .. Len(stack) : stack[k].next <= Len(dependencies[stack[k].node]) + 1
    /\ \A k \in 1 .. Len(stack) - 1 :
         /\ stack[k].next > 1
         /\ dependencies[stack[k].node][stack[k].next - 1] = stack[k + 1].node

(* While there is no cycle, the dependencies that a frame has passed are   *)
(* visited, the one it is in apart.                                        *)
SeenOK ==
  main = "search" /\ cycles = {} =>
    \A k \in 1 .. Len(stack) : \A i \in 1 .. stack[k].next - 1 :
      \/ visited[dependencies[stack[k].node][i]] = "Visited"
      \/ k < Len(stack) /\ i = stack[k].next - 1

(* Each element has its dependencies before it.                            *)
Sorted ==
  \A k \in 1 .. Len(order) : \A d \in ToSet(dependencies[order[k]]) : \E l \in 1 .. k - 1 : order[l] = d

OrderOK ==
  main = "search" =>
    /\ IsInjective(order)
    /\ ToSet(order) = {j \in Nodes : visited[j] = "Visited"}
    /\ cycles = {} => Sorted

SettledOK ==
  main \in Settled /\ cycles = {} => IsInjective(order) /\ ToSet(order) = Nodes /\ Sorted

IsCycle(p) ==
  /\ p \in Seq(Nodes) /\ IsInjective(p) /\ Len(p) > 1
  /\ \A k \in 1 .. Len(p) - 1 : <<p[k], p[k + 1]>> \in TrueEdges
  /\ <<p[Len(p)], p[1]>> \in TrueEdges

CycleOK ==
  /\ \A p \in cycles : IsCycle(p)
  /\ Class = "TimedJobGraph" /\ main = "threw" => \E p \in Seq(Nodes) : IsCycle(p)

BuildInv ==
  /\ ControlOK /\ ListsOK /\ SearchTypeOK /\ StackOK /\ SeenOK /\ OrderOK /\ SettledOK /\ CycleOK

-----------------------------------------------------------------------------
(* The dependency lists.                                                   *)

LEMMA ProgramFacts ==
  ASSUME program \in Programs
  PROVE  /\ program.n \in Nat /\ program.n \in 1 .. MaxNodes
         /\ MaxNodes \in Nat
         /\ Edges \in Seq((Nat \ {0}) \X (Nat \ {0}))
         /\ Len(Edges) \in Nat /\ DOMAIN Edges = 1 .. Len(Edges)
         /\ \A i \in 1 .. Len(Edges) : /\ Edges[i] = <<Edges[i][1], Edges[i][2]>>
                                       /\ Edges[i][1] \in Nat \ {0} /\ Edges[i][2] \in Nat \ {0}
<1>1. program.n \in Nat /\ program.n \in 1 .. MaxNodes /\ MaxNodes \in Nat
  BY BuildAssumption, RunAssumption DEF Jobs
<1>2. PICK e \in Seq((Nat \ {0}) \X (Nat \ {0})) : e = Edges
  BY BuildAssumption DEF Edges
<1>3. Len(e) \in Nat /\ DOMAIN e = 1 .. Len(e) /\ \A i \in 1 .. Len(e) : e[i] \in (Nat \ {0}) \X (Nat \ {0})
  BY <1>2
<1>4. \A i \in 1 .. Len(e) : /\ e[i] = <<e[i][1], e[i][2]>>
                            /\ e[i][1] \in Nat \ {0} /\ e[i][2] \in Nat \ {0}
  BY <1>3
<1> QED  BY <1>1, <1>2, <1>3, <1>4

LEMMA UsedEdges ==
  ASSUME program \in Programs, Class # "ValidatedJobGraph" => \A i \in DOMAIN Edges : Accepted(i)
  PROVE  \A i \in Used : i \in 1 .. Len(Edges) /\ Edges[i][1] \in Nodes /\ Edges[i][2] \in Nodes
<1> SUFFICES ASSUME NEW i \in Used PROVE i \in 1 .. Len(Edges) /\ Edges[i][1] \in Nodes /\ Edges[i][2] \in Nodes
  OBVIOUS
<1>1. /\ i \in 1 .. Len(Edges) /\ program.n \in Nat
      /\ Edges[i][1] \in Nat \ {0} /\ Edges[i][2] \in Nat \ {0}
  BY ProgramFacts DEF Used
<1>2. CASE Class = "ValidatedJobGraph"
  BY <1>1, <1>2 DEF Used, Keeps, Exists
<1>3. CASE Class # "ValidatedJobGraph"
  <2>1. Accepted(i)
    BY <1>3 DEF Used
  <2>2. /\ Class \in {"ThreadPool", "JobGraphBuilder", "TimedJobGraph", "TraceJobGraph", "FailureCancelGraph"}
        /\ Class \in {"ThreadPool", "JobGraphBuilder"} => Edges[i][1] <= program.n
        /\ Class = "ThreadPool" => Edges[i][2] < Edges[i][1]
    BY <1>1, <1>3, BuildAssumption, ProgramFacts DEF Class, Edges
  <2>3. Class \in {"ThreadPool", "JobGraphBuilder"} => Edges[i][2] < Edges[i][1]
    BY <2>1, <2>2 DEF Accepted, BuilderAccepts
  <2>4. Class \in {"TimedJobGraph", "TraceJobGraph", "FailureCancelGraph"} => Exists(Edges[i][1]) /\ Exists(Edges[i][2])
    BY <2>1 DEF Accepted, TimedAccepts, TraceAccepts, FailureAccepts
  <2> QED  BY <1>1, <2>2, <2>3, <2>4 DEF Exists, Nodes
<1> QED  BY <1>2, <1>3

LEMMA AdjacencyIs ==
  ASSUME program \in Programs,
         Class # "ValidatedJobGraph" => \A i \in DOMAIN Edges : Accepted(i)
  PROVE  /\ Adjacency(Used) \in [Nodes -> Seq(Nodes)]
         /\ \A j, d \in Nodes : d \in ToSet(Adjacency(Used)[j]) <=> \E i \in Used : Edges[i] = <<j, d>>
<1>0. /\ Len(Edges) \in Nat
      /\ \A i \in Used : i \in 1 .. Len(Edges) /\ Edges[i][1] \in Nodes /\ Edges[i][2] \in Nodes
      /\ \A i \in 1 .. Len(Edges) : Edges[i] = <<Edges[i][1], Edges[i][2]>>
  BY ProgramFacts, UsedEdges
<1>1. ASSUME NEW j \in Nodes
      PROVE  /\ Adjacency(Used)[j] \in Seq(Nodes)
             /\ ToSet(Adjacency(Used)[j]) = {Edges[i][2] : i \in {k \in Used : Edges[k][1] = j}}
  <2> DEFINE n == Len(Edges)
             Mine(k) == k \in Used /\ Edges[k][1] = j
             Is(f) == f = [k \in 0 .. n |->
                            IF k = 0 THEN <<>>
                            ELSE IF k \in Used /\ Edges[k][1] = j THEN Append(f[k - 1], Edges[k][2])
                            ELSE f[k - 1]]
             G == [x \in (1 .. n) \X Seq(Nodes) |-> IF Mine(x[1]) THEN Append(x[2], Edges[x[1]][2]) ELSE x[2]]
             List == CHOOSE f : Is(f)
  <2>1. Adjacency(Used)[j] = List[n]
    BY DEF Adjacency
  <2>2. \E f : Is(f)
    <3>1. G \in [(1 .. n) \X Seq(Nodes) -> Seq(Nodes)]
      BY <1>0
    <3>2. <<>> \in Seq(Nodes) /\ n \in Nat
      BY <1>0
    <3>3. PICK f \in [0 .. n -> Seq(Nodes)] : f[0] = <<>> /\ \A k \in 1 .. n : f[k] = G[<<k, f[k - 1]>>]
      <4>1. G \in RecursionSteps(n, Seq(Nodes))
        BY <3>1 DEF RecursionSteps
      <4>2. Solutions(n, Seq(Nodes), <<>>, G) # {}
        <5> HIDE DEF G, n
        <5> QED  BY <3>2, <4>1, RecursionExists
      <4> HIDE DEF G, n
      <4> QED  BY <4>2 DEF Solutions
    <3>4. ASSUME NEW k \in 1 .. n PROVE f[k] = IF k \in Used /\ Edges[k][1] = j THEN Append(f[k - 1], Edges[k][2]) ELSE f[k - 1]
      <4>1. k - 1 \in 0 .. n /\ f[k - 1] \in Seq(Nodes)
        BY <3>2, <3>3
      <4> QED  BY <3>3, <4>1
    <3>5. Is(f)
      <4>1. \A k \in 0 .. n : k # 0 => k \in 1 .. n
        BY <3>2
      <4>2. DOMAIN f = 0 .. n
        BY <3>3
      <4>3. f = [k \in 0 .. n |-> f[k]]
        BY <3>3
      <4> QED  BY <3>3, <3>4, <4>1, <4>3
    <3> QED  BY <3>5
  <2>3. Is(List)
    <3> HIDE DEF Is
    <3> QED  BY <2>2
  <2>4. /\ List[0] = <<>>
        /\ \A k \in 1 .. n : List[k] = IF Mine(k) THEN Append(List[k - 1], Edges[k][2]) ELSE List[k - 1]
    <3>1. ASSUME NEW k \in 0 .. n
          PROVE  List[k] = IF k = 0 THEN <<>>
                           ELSE IF k \in Used /\ Edges[k][1] = j THEN Append(List[k - 1], Edges[k][2])
                           ELSE List[k - 1]
      <4> HIDE DEF List, n
      <4> QED  BY <2>3
    <3>2. n \in Nat /\ 0 \in 0 .. n /\ \A k \in 1 .. n : k \in 0 .. n /\ k # 0
      BY <1>0
    <3> HIDE DEF List, n
    <3> QED  BY <3>1, <3>2
  <2> HIDE DEF List
  <2> DEFINE Targets(m) == {Edges[i][2] : i \in {k \in Used : k <= m /\ Edges[k][1] = j}}
             T == {m \in Nat : m <= n => List[m] \in Seq(Nodes) /\ ToSet(List[m]) = Targets(m)}
  <2>5. 0 \in T
    <3>1. Targets(0) = {}
      BY <1>0
    <3>2. ToSet(<<>>) = {}
      BY DEF ToSet
    <3>3. List[0] \in Seq(Nodes) /\ ToSet(List[0]) = Targets(0)
      <4>1. List[0] = <<>> /\ <<>> \in Seq(Nodes)
        BY <2>4
      <4> HIDE DEF Targets
      <4> QED  BY <4>1, <3>1, <3>2
    <3> HIDE DEF Targets
    <3> QED  BY <3>3
  <2>6. ASSUME NEW m \in Nat, m \in T PROVE m + 1 \in T
    <3> SUFFICES ASSUME m + 1 <= n PROVE List[m + 1] \in Seq(Nodes) /\ ToSet(List[m + 1]) = Targets(m + 1)
      OBVIOUS
    <3>1. /\ m + 1 \in 1 .. n /\ (m + 1) - 1 = m /\ m <= n
          /\ List[m] \in Seq(Nodes) /\ ToSet(List[m]) = Targets(m)
      BY <1>0, <2>6
    <3>2. CASE Mine(m + 1)
      <4>1. List[m + 1] = Append(List[m], Edges[m + 1][2])
        BY <2>4, <3>1, <3>2
      <4>2. Edges[m + 1][2] \in Nodes
        BY <1>0, <3>2
      <4>3. ToSet(List[m + 1]) = ToSet(List[m]) \cup {Edges[m + 1][2]}
        <5> HIDE DEF Targets, T, Mine
        <5> QED  BY <3>1, <4>1, <4>2, AppendSet
      <4>4. Targets(m + 1) = Targets(m) \cup {Edges[m + 1][2]}
        BY <1>0, <3>2
      <4> QED  BY <3>1, <4>1, <4>2, <4>3, <4>4
    <3>3. CASE ~Mine(m + 1)
      <4>1. List[m + 1] = List[m]
        BY <2>4, <3>1, <3>3
      <4>2. Targets(m + 1) = Targets(m)
        BY <1>0, <3>3
      <4> QED  BY <3>1, <4>1, <4>2
    <3> QED  BY <3>2, <3>3
  <2>7. Nat \subseteq T
    <3> HIDE DEF T
    <3> QED  BY <2>5, <2>6, NatInduct
  <2>8. List[n] \in Seq(Nodes) /\ ToSet(List[n]) = Targets(n)
    <3>1. n \in Nat /\ n <= n
      BY <1>0
    <3>2. n \in T
      <4> HIDE DEF T, n
      <4> QED  BY <2>7, <3>1
    <3> HIDE DEF Targets, n
    <3> QED  BY <3>1, <3>2
  <2>9. Targets(n) = {Edges[i][2] : i \in {k \in Used : Edges[k][1] = j}}
    BY <1>0
  <2> QED  BY <2>1, <2>8, <2>9
<1>2. Adjacency(Used) \in [Nodes -> Seq(Nodes)]
  <2>1. Adjacency(Used) = [j \in Nodes |-> Adjacency(Used)[j]]
    BY DEF Adjacency
  <2> QED  BY <1>1, <2>1
<1>3. ASSUME NEW j \in Nodes, NEW d \in Nodes
      PROVE  d \in ToSet(Adjacency(Used)[j]) <=> \E i \in Used : Edges[i] = <<j, d>>
  <2>1. ASSUME d \in ToSet(Adjacency(Used)[j]) PROVE \E i \in Used : Edges[i] = <<j, d>>
    <3>1. PICK i \in Used : Edges[i][1] = j /\ d = Edges[i][2]
      BY <1>1, <2>1
    <3> QED  BY <1>0, <3>1
  <2>2. ASSUME NEW i \in Used, Edges[i] = <<j, d>> PROVE d \in ToSet(Adjacency(Used)[j])
    <3>1. Edges[i][1] = j /\ Edges[i][2] = d
      BY <2>2
    <3> QED  BY <1>1, <3>1
  <2> QED  BY <2>1, <2>2
<1> QED  BY <1>2, <1>3

-----------------------------------------------------------------------------
(* The invariant holds at first, and every step keeps it.                  *)

LEMMA GraphConstant ==
  ASSUME program' = program
  PROVE  /\ Nodes' = Nodes /\ Edges' = Edges /\ Class' = Class /\ Searching' = Searching
         /\ Used' = Used /\ TrueEdges' = TrueEdges
         /\ \A i : Accepted(i)' <=> Accepted(i)
         /\ \A p : IsCycle(p)' <=> IsCycle(p)
<1>1. /\ Nodes' = Nodes /\ Edges' = Edges /\ Class' = Class
  BY DEF Nodes, Edges, Class
<1>2. \A i : (Exists(i)' <=> Exists(i)) /\ (Repeated(i)' <=> Repeated(i)) /\ (Keeps(i)' <=> Keeps(i))
  BY <1>1 DEF Exists, Repeated, Keeps
<1>3. Used' = Used /\ Searching' = Searching
  BY <1>1, <1>2 DEF Used, Searching
<1>4. TrueEdges' = TrueEdges
  BY <1>1, <1>2 DEF TrueEdges
<1>5. ASSUME NEW i PROVE Accepted(i)' <=> Accepted(i)
  BY <1>1, <1>2 DEF Accepted, BuilderAccepts, TimedAccepts, TraceAccepts, FailureAccepts
<1>6. ASSUME NEW p PROVE IsCycle(p)' <=> IsCycle(p)
  BY <1>1, <1>4 DEF IsCycle
<1> QED  BY <1>1, <1>3, <1>4, <1>5, <1>6

LEMMA BuildInit == RunInit => BuildInv
<1> SUFFICES ASSUME RunInit PROVE BuildInv
  OBVIOUS
<1>1. /\ program \in Programs /\ main = "declare"
      /\ dependencies = [j \in Nodes |-> <<>>] /\ badEdges = {} /\ cycles = {}
      /\ visited = [j \in Nodes |-> "Unvisited"] /\ stack = <<>> /\ order = <<>>
  BY DEF RunInit, Init
<1>2. main \notin Listed
  BY <1>1 DEF Listed
<1>3. ControlOK
  BY <1>1, <1>2 DEF ControlOK
<1>4. ListsOK
  BY <1>1, <1>2 DEF ListsOK
<1>5. SearchTypeOK
  BY <1>1, <1>2 DEF SearchTypeOK
<1>6. CycleOK
  BY <1>1 DEF CycleOK
<1> QED  BY <1>1, <1>3, <1>4, <1>5, <1>6 DEF BuildInv, StackOK, SeenOK, OrderOK, SettledOK, Settled

(* Without a search the nodes are submitted as they were declared.         *)
LEMMA EarlierDependencies ==
  ASSUME program \in Programs, ~Searching, \A i \in DOMAIN Edges : Accepted(i)
  PROVE  \A i \in DOMAIN Edges : Edges[i][2] < Edges[i][1]
<1> SUFFICES ASSUME NEW i \in DOMAIN Edges PROVE Edges[i][2] < Edges[i][1]
  OBVIOUS
<1>1. /\ Class \in {"ThreadPool", "JobGraphBuilder", "TraceJobGraph", "FailureCancelGraph"}
      /\ Class = "ThreadPool" => Edges[i][2] < Edges[i][1]
  BY BuildAssumption DEF Class, Edges, Searching
<1>2. Accepted(i)
  OBVIOUS
<1> QED  BY <1>1, <1>2 DEF Accepted, BuilderAccepts, TraceAccepts, FailureAccepts

LEMMA DeclareKeeps == BuildInv /\ Declare => BuildInv'
<1> SUFFICES ASSUME BuildInv, Declare PROVE BuildInv'
  OBVIOUS
<1>1. /\ program' = program /\ badEdges' = badEdges /\ visited' = visited /\ stack' = stack /\ cycles' = cycles
      /\ main = "declare"
  BY DEF Declare
<1>2. /\ Nodes' = Nodes /\ Edges' = Edges /\ Class' = Class /\ Searching' = Searching /\ Used' = Used
      /\ \A i : Accepted(i)' <=> Accepted(i)
  BY <1>1, GraphConstant
<1>3. /\ program \in Programs /\ badEdges = {} /\ cycles = {}
      /\ dependencies \in [Nodes -> Seq(Nodes)]
      /\ visited \in [Nodes -> {"Unvisited", "Visiting", "Visited"}]
      /\ stack = <<>> /\ order = <<>> /\ \A j \in Nodes : visited[j] = "Unvisited"
  <2>1. main \notin Listed
    BY <1>1 DEF Listed
  <2> QED  BY <1>1, <2>1 DEF BuildInv, ControlOK, ListsOK, SearchTypeOK
<1>4. stack' = <<>> /\ stack' \in Seq(Frame')
  BY <1>1, <1>3
<1>5. CycleOK'
  <2>1. cycles' = {} /\ main' # "threw"
    BY <1>1, <1>3 DEF Declare
  <2> QED  BY <2>1 DEF CycleOK
<1>6. CASE main' \in {"refused", "collect"}
  <2>1. /\ main' \notin Listed' /\ main' \notin Settled' /\ main' # "search"
        /\ dependencies' = dependencies /\ order' = order
    BY <1>6 DEF Listed, Settled, Declare
  <2>2. /\ main' = "collect" => Class' = "ValidatedJobGraph"
        /\ main' # "refused" => \A i \in DOMAIN Edges : Accepted(i)
    BY <1>2, <1>6 DEF Declare
  <2>3. ControlOK'
    BY <1>1, <1>2, <1>3, <1>6, <2>1, <2>2 DEF ControlOK
  <2>4. ListsOK'
    BY <1>2, <1>3, <2>1 DEF ListsOK
  <2>5. SearchTypeOK'
    BY <1>1, <1>2, <1>3, <1>4, <2>1 DEF SearchTypeOK
  <2> QED  BY <1>5, <2>1, <2>3, <2>4, <2>5 DEF BuildInv, StackOK, SeenOK, OrderOK, SettledOK
<1>7. CASE main' \in {"search", "ordered"}
  <2>1. /\ \A i \in DOMAIN Edges : Accepted(i)
        /\ Class # "ValidatedJobGraph"
        /\ dependencies' = Adjacency(DOMAIN Edges)
        /\ main' = "search" => Class = "TimedJobGraph" /\ order' = order
        /\ main' = "ordered" => ~Searching /\ order' = [k \in Nodes |-> k]
    BY <1>7 DEF Declare, Searching
  <2>2. Used = DOMAIN Edges /\ DOMAIN Edges = 1 .. Len(Edges)
    BY <1>3, <2>1, ProgramFacts DEF Used
  <2>3. /\ dependencies' \in [Nodes -> Seq(Nodes)]
        /\ \A j, d \in Nodes : d \in ToSet(dependencies'[j]) <=> \E i \in Used : Edges[i] = <<j, d>>
    BY <1>3, <2>1, <2>2, AdjacencyIs
  <2>4. main' \in Listed' /\ main' # "collect"
    BY <1>7 DEF Listed
  <2>5. ControlOK'
    <3>1. main' = "search" => Searching
      BY <2>1 DEF Searching
    <3> QED  BY <1>1, <1>2, <1>3, <1>7, <2>1, <2>4, <3>1 DEF ControlOK
  <2>6. ListsOK'
    BY <1>2, <2>3 DEF ListsOK
  <2>7. program.n \in Nat
    BY <1>3, ProgramFacts
  <2>8. CASE main' = "search"
    <3>1. order' = <<>> /\ order' \in Seq(Nodes) /\ Len(order') = 0 /\ Len(stack') = 0
      BY <1>3, <1>4, <2>1, <2>8
    <3>2. SearchTypeOK'
      BY <1>1, <1>2, <1>3, <1>4, <2>4, <3>1 DEF SearchTypeOK
    <3>3. StackOK'
      BY <1>1, <1>2, <1>3, <3>1 DEF StackOK
    <3>4. SeenOK'
      BY <3>1 DEF SeenOK
    <3>5. OrderOK'
      <4>1. IsInjective(order') /\ ToSet(order') = {}
        BY <3>1 DEF IsInjective, ToSet
      <4>2. Sorted'
        BY <3>1 DEF Sorted
      <4> QED  BY <1>1, <1>2, <1>3, <4>1, <4>2 DEF OrderOK
    <3>6. SettledOK'
      BY <2>8 DEF SettledOK, Settled
    <3> QED  BY <1>5, <2>5, <2>6, <3>2, <3>3, <3>4, <3>5, <3>6 DEF BuildInv
  <2>9. CASE main' = "ordered"
    <3>1. /\ order' \in Seq(Nodes) /\ Len(order') = program.n /\ DOMAIN order' = Nodes
          /\ \A k \in Nodes : order'[k] = k
      BY <2>1, <2>7, <2>9 DEF Nodes
    <3>2. SearchTypeOK'
      BY <1>1, <1>2, <1>3, <1>4, <2>4, <3>1 DEF SearchTypeOK
    <3>3. IsInjective(order') /\ ToSet(order') = Nodes
      BY <3>1 DEF IsInjective, ToSet
    <3>4. Sorted'
      <4> SUFFICES ASSUME NEW k \in 1 .. Len(order'), NEW d \in ToSet(dependencies'[order'[k]])
                   PROVE  \E l \in 1 .. k - 1 : order'[l] = d
        BY DEF Sorted
      <4>1. k \in Nodes /\ order'[k] = k
        BY <3>1 DEF Nodes
      <4>2. d \in Nodes
        BY <2>3, <4>1 DEF ToSet
      <4>3. PICK i \in Used : Edges[i] = <<k, d>>
        BY <2>3, <4>1, <4>2
      <4>4. Edges[i][2] < Edges[i][1] /\ Edges[i][1] = k /\ Edges[i][2] = d
        BY <1>3, <2>1, <2>2, <2>9, <4>3, EarlierDependencies
      <4>5. d \in 1 .. k - 1
        BY <2>7, <4>1, <4>2, <4>4 DEF Nodes
      <4> QED  BY <3>1, <4>2, <4>5
    <3>5. SettledOK'
      BY <1>2, <3>3, <3>4 DEF SettledOK
    <3> QED  BY <1>5, <2>5, <2>6, <2>9, <3>2, <3>5 DEF BuildInv, StackOK, SeenOK, OrderOK
  <2> QED  BY <1>7, <2>8, <2>9
<1> QED  BY <1>6, <1>7 DEF Declare

LEMMA ValidateKeeps == BuildInv /\ ValidateAndBuildAdjacency => BuildInv'
<1> SUFFICES ASSUME BuildInv, ValidateAndBuildAdjacency PROVE BuildInv'
  OBVIOUS
<1>1. /\ program' = program /\ visited' = visited /\ stack' = stack /\ cycles' = cycles /\ order' = order
      /\ main = "collect" /\ main' = "search"
  BY DEF ValidateAndBuildAdjacency, searchVars
<1>2. /\ Nodes' = Nodes /\ Edges' = Edges /\ Class' = Class /\ Searching' = Searching /\ Used' = Used
      /\ \A i : Accepted(i)' <=> Accepted(i)
  BY <1>1, GraphConstant
<1>3. main \notin Listed /\ main' \in Listed' /\ main' \notin Settled'
  BY <1>1 DEF Listed, Settled
<1>4. /\ program \in Programs /\ cycles = {} /\ Class = "ValidatedJobGraph"
      /\ \A i \in DOMAIN Edges : Accepted(i)
      /\ visited \in [Nodes -> {"Unvisited", "Visiting", "Visited"}]
      /\ stack = <<>> /\ order = <<>> /\ \A j \in Nodes : visited[j] = "Unvisited"
  BY <1>1, <1>3 DEF BuildInv, ControlOK, SearchTypeOK
<1>5. /\ dependencies' = Adjacency(Used) /\ badEdges' = DOMAIN Edges \ Used
  BY <1>4 DEF ValidateAndBuildAdjacency, Used
<1>6. ControlOK'
  BY <1>1, <1>2, <1>3, <1>4, <1>5 DEF ControlOK, Searching
<1>7. ListsOK'
  BY <1>2, <1>4, <1>5, AdjacencyIs DEF ListsOK
<1>8. /\ stack' = <<>> /\ stack' \in Seq(Frame') /\ Len(stack') = 0
      /\ order' = <<>> /\ order' \in Seq(Nodes) /\ Len(order') = 0
  BY <1>1, <1>4
<1>9. SearchTypeOK' /\ StackOK' /\ SeenOK'
  BY <1>1, <1>2, <1>3, <1>4, <1>8 DEF SearchTypeOK, StackOK, SeenOK
<1>10. OrderOK'
  <2>1. IsInjective(order') /\ ToSet(order') = {} /\ Sorted'
    BY <1>8 DEF IsInjective, ToSet, Sorted
  <2> QED  BY <1>1, <1>2, <1>4, <2>1 DEF OrderOK
<1>11. SettledOK' /\ CycleOK'
  BY <1>1, <1>3, <1>4 DEF SettledOK, CycleOK
<1> QED  BY <1>6, <1>7, <1>9, <1>10, <1>11 DEF BuildInv

(* A step of the search leaves the graph alone.                            *)
LEMMA SearchControl ==
  ASSUME BuildInv, main = "search", program' = program, dependencies' = dependencies, badEdges' = badEdges,
         main' \in Listed, main' = "search" => Searching, cycles' = cycles \/ Class = "ValidatedJobGraph"
  PROVE  ControlOK' /\ ListsOK'
<1>1. /\ Nodes' = Nodes /\ Edges' = Edges /\ Class' = Class /\ Searching' = Searching /\ Used' = Used
      /\ \A i : Accepted(i)' <=> Accepted(i)
  BY GraphConstant
<1>2. main \in Listed /\ main # "collect" /\ main' \in Listed' /\ main' # "collect" /\ main' \notin {"declare", "refused"}
  BY DEF Listed
<1>3. ControlOK'
  BY <1>1, <1>2 DEF BuildInv, ControlOK
<1>4. ListsOK'
  BY <1>1, <1>2 DEF BuildInv, ListsOK
<1> QED  BY <1>3, <1>4

(* A call of visit: the new frame is for the dependency the caller is at.  *)
LEMMA EnterKeeps ==
  ASSUME BuildInv, main = "search", NEW id \in Nodes, visited[id] = "Unvisited",
         NEW frames \in Seq(Frame), Len(frames) = Len(stack),
         \A k \in 1 .. Len(stack) : frames[k].node = stack[k].node,
         \A k \in 1 .. Len(stack) - 1 : frames[k].next = stack[k].next,
         Len(stack) > 0 =>
           /\ frames[Len(stack)].next = stack[Len(stack)].next + 1
           /\ stack[Len(stack)].next <= Len(dependencies[stack[Len(stack)].node])
           /\ dependencies[stack[Len(stack)].node][stack[Len(stack)].next] = id,
         Enter(id, frames), program' = program, main' = main, dependencies' = dependencies,
         badEdges' = badEdges, order' = order, cycles' = cycles
  PROVE  BuildInv'
<1> DEFINE n == Len(stack)
           f == [node |-> id, next |-> 1]
<1>1. /\ Nodes' = Nodes /\ Class' = Class /\ Searching' = Searching
      /\ \A p : IsCycle(p)' <=> IsCycle(p)
  BY GraphConstant
<1>2. main' \in Listed /\ main' \in Listed' /\ main' \notin Settled' /\ main' # "threw"
  BY DEF Listed, Settled
<1>3. ControlOK' /\ ListsOK'
  <2>1. Searching
    BY DEF BuildInv, ControlOK
  <2> QED  BY <1>2, <2>1, SearchControl
<1>4. /\ n \in Nat /\ stack \in Seq(Frame)
      /\ \A k \in 1 .. n : stack[k].node \in Nodes /\ stack[k].next \in Nat \ {0}
      /\ visited \in [Nodes -> {"Unvisited", "Visiting", "Visited"}]
      /\ dependencies \in [Nodes -> Seq(Nodes)]
  <2>1. /\ stack \in Seq(Frame) /\ dependencies \in [Nodes -> Seq(Nodes)]
        /\ visited \in [Nodes -> {"Unvisited", "Visiting", "Visited"}]
    BY DEF BuildInv, SearchTypeOK, ListsOK
  <2>2. n \in Nat /\ \A k \in 1 .. n : stack[k] \in Frame
    BY <2>1
  <2> QED  BY <2>1, <2>2 DEF Frame
<1>5. /\ stack' \in Seq(Frame) /\ Len(stack') = n + 1
      /\ stack'[n + 1] = f
      /\ \A k \in 1 .. n : stack'[k] = frames[k]
  BY <1>4 DEF Enter, Frame
<1>6. /\ visited' \in [Nodes -> {"Unvisited", "Visiting", "Visited"}]
      /\ visited'[id] = "Visiting"
      /\ \A j \in Nodes : j # id => visited'[j] = visited[j]
  BY <1>4 DEF Enter
<1>7. SearchTypeOK'
  BY <1>1, <1>2, <1>5, <1>6 DEF BuildInv, SearchTypeOK, Frame
<1>8. /\ \A j \in Nodes : visited[j] = "Visiting" <=> \E k \in 1 .. n : stack[k].node = j
      /\ \A k, l \in 1 .. n : stack[k].node = stack[l].node => k = l
      /\ \A k \in 1 .. n : stack[k].next <= Len(dependencies[stack[k].node]) + 1
      /\ \A k \in 1 .. n - 1 :
           /\ stack[k].next > 1
           /\ dependencies[stack[k].node][stack[k].next - 1] = stack[k + 1].node
  BY DEF BuildInv, StackOK
<1>9. /\ \A k \in 1 .. n : stack'[k].node = stack[k].node
      /\ \A k \in 1 .. n - 1 : stack'[k].next = stack[k].next
      /\ stack'[n + 1].node = id /\ stack'[n + 1].next = 1
      /\ n > 0 => /\ stack'[n].next = stack[n].next + 1
                  /\ stack[n].next <= Len(dependencies[stack[n].node])
                  /\ dependencies[stack[n].node][stack[n].next] = id
  <2>1. \A k \in 1 .. n - 1 : k \in 1 .. n
    BY <1>4
  <2>2. n > 0 => n \in 1 .. n
    BY <1>4
  <2>3. stack'[n + 1].node = id /\ stack'[n + 1].next = 1
    BY <1>5
  <2>4. /\ \A k \in 1 .. n : stack'[k].node = stack[k].node
        /\ \A k \in 1 .. n - 1 : stack'[k].next = stack[k].next
    BY <1>5, <2>1
  <2>5. ASSUME n > 0
        PROVE  /\ stack'[n].next = stack[n].next + 1
               /\ stack[n].next <= Len(dependencies[stack[n].node])
               /\ dependencies[stack[n].node][stack[n].next] = id
    <3>1. stack'[n] = frames[n]
      BY <1>5, <2>2, <2>5
    <3> QED  BY <2>5, <3>1
  <2> QED  BY <2>3, <2>4, <2>5
<1>10. \A k \in 1 .. n : stack[k].node # id
  BY <1>4, <1>8
<1>0. n \in Nat
  BY <1>4
<1> HIDE DEF f, n
<1>11. StackOK'
  <2>1. ASSUME NEW j \in Nodes
        PROVE  visited'[j] = "Visiting" <=> \E k \in 1 .. n + 1 : stack'[k].node = j
    <3>1. CASE j = id
      BY <1>4, <1>6, <1>9, <3>1
    <3>2. CASE j # id
      <4>1. \A k \in 1 .. n + 1 : stack'[k].node = j => k \in 1 .. n /\ stack[k].node = j
        <5>1. \A k \in 1 .. n + 1 : k = n + 1 \/ k \in 1 .. n
          BY <1>0
        <5> QED  BY <1>9, <3>2, <5>1
      <4>2. \A k \in 1 .. n : k \in 1 .. n + 1 /\ stack'[k].node = stack[k].node
        BY <1>4, <1>9
      <4> QED  BY <1>6, <1>8, <3>2, <4>1, <4>2
    <3> QED  BY <3>1, <3>2
  <2>2. ASSUME NEW k \in 1 .. n + 1, NEW l \in 1 .. n + 1, stack'[k].node = stack'[l].node PROVE k = l
    <3>1. \A m \in 1 .. n + 1 : m = n + 1 \/ m \in 1 .. n
      BY <1>4
    <3> QED  BY <1>8, <1>9, <1>10, <2>2, <3>1
  <2>3. ASSUME NEW k \in 1 .. n + 1 PROVE stack'[k].next <= Len(dependencies[stack'[k].node]) + 1
    <3>1. CASE k = n + 1
      <4>1. Len(dependencies[id]) \in Nat
        BY <1>4
      <4> QED  BY <1>9, <3>1, <4>1
    <3>2. CASE k = n /\ n > 0
      <4>1. n \in 1 .. n
        BY <1>4, <3>2
      <4>2. Len(dependencies[stack[n].node]) \in Nat /\ stack[n].next \in Nat
        BY <1>4, <4>1
      <4>3. /\ stack'[n].next = stack[n].next + 1 /\ stack'[n].node = stack[n].node
            /\ stack[n].next <= Len(dependencies[stack[n].node])
        BY <1>9, <3>2, <4>1
      <4> QED  BY <3>2, <4>2, <4>3
    <3>3. CASE k \in 1 .. n - 1
      <4>1. k \in 1 .. n
        BY <1>4, <3>3
      <4> QED  BY <1>8, <1>9, <3>3, <4>1
    <3>4. k = n + 1 \/ (k = n /\ n > 0) \/ k \in 1 .. n - 1
      BY <1>0
    <3> QED  BY <3>1, <3>2, <3>3, <3>4
  <2>4. ASSUME NEW k \in 1 .. n
        PROVE  /\ stack'[k].next > 1
               /\ dependencies[stack'[k].node][stack'[k].next - 1] = stack'[k + 1].node
    <3>1. CASE k = n
      <4>1. stack[n].next \in Nat \ {0} /\ n > 0
        BY <1>4, <3>1
      <4>2. stack'[n].next > 1 /\ stack'[n].next - 1 = stack[n].next
        BY <1>9, <4>1
      <4> QED  BY <1>9, <3>1, <4>1, <4>2
    <3>2. CASE k \in 1 .. n - 1
      <4>1. k + 1 \in 1 .. n
        BY <1>4, <3>2
      <4> QED  BY <1>8, <1>9, <3>2, <4>1
    <3> QED  BY <1>4, <3>1, <3>2
  <2>5. \A k : k \in 1 .. (n + 1) - 1 => k \in 1 .. n
    BY <1>4
  <2> QED  BY <1>1, <1>5, <2>1, <2>2, <2>3, <2>4, <2>5 DEF StackOK
<1>12. SeenOK'
  <2> SUFFICES ASSUME cycles = {}, NEW k \in 1 .. n + 1, NEW i \in 1 .. stack'[k].next - 1
               PROVE  \/ visited'[dependencies[stack'[k].node][i]] = "Visited"
                      \/ k < n + 1 /\ i = stack'[k].next - 1
    BY <1>5 DEF SeenOK
  <2>1. \A m \in 1 .. n : \A h \in 1 .. stack[m].next - 1 :
          \/ visited[dependencies[stack[m].node][h]] = "Visited"
          \/ m < n /\ h = stack[m].next - 1
    BY DEF BuildInv, SeenOK, n
  <2>2. \A m \in 1 .. n : \A h \in 1 .. stack[m].next - 1 : dependencies[stack[m].node][h] \in Nodes
    <3> SUFFICES ASSUME NEW m \in 1 .. n, NEW h \in 1 .. stack[m].next - 1
                 PROVE  dependencies[stack[m].node][h] \in Nodes
      OBVIOUS
    <3>1. stack[m].node \in Nodes /\ stack[m].next \in Nat
      BY <1>4
    <3>2. PICK list \in Seq(Nodes) : list = dependencies[stack[m].node]
      BY <1>4, <3>1
    <3>3. stack[m].next <= Len(list) + 1 /\ Len(list) \in Nat
      BY <1>8, <3>2
    <3>4. h \in 1 .. Len(list)
      BY <3>1, <3>3
    <3> QED  BY <3>2, <3>4
  <2>3. CASE k = n + 1
    BY <1>9, <2>3
  <2>4. CASE k \in 1 .. n - 1
    <3>1. k \in 1 .. n /\ k < n /\ stack'[k].next = stack[k].next /\ stack'[k].node = stack[k].node
      BY <1>4, <1>9, <2>4
    <3>2. i \in 1 .. stack[k].next - 1
      BY <3>1
    <3>3. \/ visited[dependencies[stack[k].node][i]] = "Visited"
          \/ i = stack[k].next - 1
      BY <2>1, <3>1, <3>2
    <3>4. dependencies[stack[k].node][i] \in Nodes
      BY <2>2, <3>1, <3>2
    <3> QED  BY <1>4, <1>6, <3>1, <3>3, <3>4
  <2>5. CASE k = n /\ n > 0
    <3>1. k \in 1 .. n /\ stack'[k].next = stack[k].next + 1 /\ stack'[k].node = stack[k].node /\ stack[k].next \in Nat
      BY <1>4, <1>9, <2>5
    <3>2. CASE i \in 1 .. stack[k].next - 1
      <4>1. visited[dependencies[stack[k].node][i]] = "Visited"
        BY <1>4, <2>1, <2>5, <3>1, <3>2
      <4>2. dependencies[stack[k].node][i] \in Nodes
        BY <2>2, <3>1, <3>2
      <4> QED  BY <1>6, <3>1, <4>1, <4>2
    <3>3. CASE i = stack[k].next
      BY <1>4, <2>5, <3>1, <3>3
    <3> QED  BY <3>1, <3>2, <3>3
  <2> QED  BY <1>4, <2>3, <2>4, <2>5
<1>13. OrderOK'
  <2>1. {j \in Nodes : visited'[j] = "Visited"} = {j \in Nodes : visited[j] = "Visited"}
    BY <1>6
  <2>2. Sorted' <=> Sorted
    BY DEF Sorted
  <2> QED  BY <1>1, <2>1, <2>2 DEF BuildInv, OrderOK
<1>14. SettledOK' /\ CycleOK'
  BY <1>1, <1>2 DEF BuildInv, CycleOK, SettledOK
<1> QED  BY <1>3, <1>7, <1>11, <1>12, <1>13, <1>14 DEF BuildInv

LEMMA VisitRootKeeps == BuildInv /\ VisitRoot => BuildInv'
<1> SUFFICES ASSUME BuildInv, VisitRoot PROVE BuildInv'
  OBVIOUS
<1> DEFINE unvisited == {id \in Nodes : visited[id] = "Unvisited"}
           first == Min(unvisited)
<1>1. /\ main = "search" /\ stack = <<>> /\ unvisited # {} /\ Enter(first, <<>>)
      /\ program' = program /\ main' = main /\ dependencies' = dependencies
      /\ badEdges' = badEdges /\ order' = order /\ cycles' = cycles
  BY DEF VisitRoot
<1>2. first \in unvisited
  <2>1. unvisited \in SUBSET Nat
    <3>1. program \in Programs
      BY DEF BuildInv, ControlOK
    <3>2. program.n \in Nat
      BY <3>1, ProgramFacts
    <3> QED  BY <3>2 DEF Nodes
  <2> HIDE DEF unvisited
  <2> QED  BY <1>1, <2>1, MinIs
<1>3. first \in Nodes /\ visited[first] = "Unvisited"
  BY <1>2
<1>4. PICK frames \in Seq(Frame) : frames = <<>>
  <2>1. <<>> \in Seq(Frame)
    OBVIOUS
  <2> QED  BY <2>1, Zenon
<1>5. /\ Len(frames) = Len(stack) /\ ~(Len(stack) > 0)
      /\ \A k \in 1 .. Len(stack) : frames[k].node = stack[k].node
      /\ \A k \in 1 .. Len(stack) - 1 : frames[k].next = stack[k].next
  BY <1>1, <1>4
<1>6. Enter(first, frames)
  BY <1>1, <1>4
<1> HIDE DEF first
<1> QED  BY <1>1, <1>3, <1>5, <1>6, EnterKeeps

(* The top of the stack and the dependency it is at.                       *)
Top     == stack[Len(stack)]
TopList == dependencies[Top.node]

LEMMA TopFacts ==
  ASSUME BuildInv, main = "search", stack # <<>>
  PROVE  /\ Len(stack) \in Nat \ {0} /\ Last(stack) = Top
         /\ \A k \in 1 .. Len(stack) : /\ stack[k] \in Frame
                                       /\ stack[k].node \in Nodes /\ stack[k].next \in Nat \ {0}
         /\ Top.node \in Nodes /\ Top.next \in Nat \ {0} /\ Top.next <= Len(TopList) + 1
         /\ TopList \in Seq(Nodes) /\ Len(TopList) \in Nat
         /\ visited[Top.node] = "Visiting"
<1>1. /\ stack \in Seq(Frame) /\ dependencies \in [Nodes -> Seq(Nodes)]
  BY DEF BuildInv, SearchTypeOK, ListsOK
<1>2. Len(stack) \in Nat \ {0} /\ Len(stack) \in 1 .. Len(stack) /\ \A k \in 1 .. Len(stack) : stack[k] \in Frame
  BY <1>1
<1>3. Top \in Frame
  BY <1>2 DEF Top
<1>4. visited[Top.node] = "Visiting" /\ Top.next <= Len(TopList) + 1
  BY <1>2, <1>3 DEF BuildInv, StackOK, Top, TopList, Frame
<1>5. TopList \in Seq(Nodes)
  BY <1>1, <1>3 DEF TopList, Frame
<1>6. Len(TopList) \in Nat
  BY <1>5
<1> QED  BY <1>2, <1>3, <1>4, <1>5, <1>6 DEF Frame, Last, Top

Advanced == [stack EXCEPT ![Len(stack)].next = @ + 1]

LEMMA AdvancedIs ==
  ASSUME BuildInv, main = "search", stack # <<>>
  PROVE  /\ Advanced \in Seq(Frame) /\ Len(Advanced) = Len(stack)
         /\ \A k \in 1 .. Len(stack) : Advanced[k].node = stack[k].node
         /\ \A k \in 1 .. Len(stack) - 1 : Advanced[k].next = stack[k].next
         /\ Advanced[Len(stack)].next = Top.next + 1
<1> DEFINE n == Len(stack)
           f == [node |-> Top.node, next |-> Top.next + 1]
<1>1. /\ n \in Nat \ {0} /\ \A k \in 1 .. n : stack[k] \in Frame
      /\ Top = stack[n] /\ Top \in Frame /\ Top.next \in Nat \ {0} /\ Top.node \in Nodes
      /\ stack \in Seq(Frame)
  BY TopFacts DEF Top, BuildInv, SearchTypeOK
<1>2. f \in Frame
  BY <1>1 DEF Frame
<1>3. [stack[n] EXCEPT !.next = @ + 1] = f
  BY <1>1 DEF Frame
<1>4. Advanced = [stack EXCEPT ![n] = f]
  BY <1>1, <1>3 DEF Advanced
<1>5. /\ Advanced \in Seq(Frame) /\ Len(Advanced) = n
      /\ Advanced[n] = f
      /\ \A k \in 1 .. n - 1 : Advanced[k] = stack[k]
  BY <1>1, <1>2, <1>4
<1>6. f.node = Top.node /\ f.next = Top.next + 1
  OBVIOUS
<1>7. \A k \in 1 .. n : k = n \/ k \in 1 .. n - 1
  BY <1>1
<1> HIDE DEF f
<1> QED  BY <1>1, <1>5, <1>6, <1>7

(* What the lists have is an edge of the graph.                            *)
LEMMA ListedEdges ==
  ASSUME BuildInv, main \in Listed, NEW j \in Nodes, NEW d \in ToSet(dependencies[j])
  PROVE  d \in Nodes /\ <<j, d>> \in TrueEdges /\ (Searching => d # j)
<1>1. dependencies[j] \in Seq(Nodes) /\ program \in Programs
  BY DEF BuildInv, ListsOK, ControlOK
<1>2. d \in Nodes
  BY <1>1 DEF ToSet
<1>3. PICK i \in Used : Edges[i] = <<j, d>>
  BY <1>2 DEF BuildInv, ListsOK
<1>4. \A k \in DOMAIN Edges : Accepted(k)
  BY DEF BuildInv, ControlOK, Listed
<1>5. i \in DOMAIN Edges /\ Edges[i][1] = j /\ Edges[i][2] = d
  BY <1>1, <1>3, <1>4, UsedEdges, ProgramFacts
<1>6. <<j, d>> \in TrueEdges
  BY <1>2, <1>5 DEF TrueEdges, Exists
<1>7. Searching => d # j
  BY <1>3, <1>4, <1>5 DEF Searching, Used, Keeps, Accepted, TimedAccepts
<1> QED  BY <1>2, <1>6, <1>7

(* The frame goes on to its next dependency.                               *)
LEMMA AdvanceKeeps ==
  ASSUME BuildInv, main = "search", stack # <<>>, Top.next <= Len(TopList),
         cycles' = {} => visited[TopList[Top.next]] = "Visited",
         cycles' = cycles \/ cycles' # {}, cycles' = cycles \/ Class = "ValidatedJobGraph",
         \A p \in cycles' : IsCycle(p),
         stack' = Advanced, visited' = visited, program' = program, main' = main,
         dependencies' = dependencies, badEdges' = badEdges, order' = order
  PROVE  BuildInv'
<1> DEFINE n == Len(stack)
<1>1. /\ Nodes' = Nodes /\ Class' = Class /\ Searching' = Searching
      /\ \A p : IsCycle(p)' <=> IsCycle(p)
  BY GraphConstant
<1>2. main' \in Listed /\ main' \in Listed' /\ main' \notin Settled' /\ main' # "threw"
  BY DEF Listed, Settled
<1>3. ControlOK' /\ ListsOK'
  <2>1. Searching
    BY DEF BuildInv, ControlOK
  <2> QED  BY <1>2, <2>1, SearchControl
<1>4. /\ n \in Nat \ {0} /\ Top = stack[n] /\ TopList = dependencies[stack[n].node]
      /\ Top.next \in Nat \ {0} /\ Len(TopList) \in Nat
  BY TopFacts DEF Top, TopList
<1>5. /\ stack' \in Seq(Frame) /\ Len(stack') = n
      /\ \A k \in 1 .. n : stack'[k].node = stack[k].node
      /\ \A k \in 1 .. n - 1 : stack'[k].next = stack[k].next
      /\ stack'[n].next = Top.next + 1
  BY AdvancedIs
<1>6. \A k \in 1 .. n : k = n \/ k \in 1 .. n - 1
  BY <1>4
<1>7. SearchTypeOK'
  BY <1>1, <1>2, <1>5 DEF BuildInv, SearchTypeOK, Frame
<1>8. StackOK'
  <2>1. /\ \A j \in Nodes : visited[j] = "Visiting" <=> \E k \in 1 .. n : stack[k].node = j
        /\ \A k, l \in 1 .. n : stack[k].node = stack[l].node => k = l
        /\ \A k \in 1 .. n : stack[k].next <= Len(dependencies[stack[k].node]) + 1
        /\ \A k \in 1 .. n - 1 :
             /\ stack[k].next > 1
             /\ dependencies[stack[k].node][stack[k].next - 1] = stack[k + 1].node
    BY DEF BuildInv, StackOK
  <2> HIDE DEF n
  <2>2. ASSUME NEW j \in Nodes PROVE visited'[j] = "Visiting" <=> \E k \in 1 .. n : stack'[k].node = j
    <3>1. \A k \in 1 .. n : stack'[k].node = stack[k].node
      BY <1>5
    <3>2. visited[j] = "Visiting" <=> \E k \in 1 .. n : stack[k].node = j
      BY <2>1
    <3> QED  BY <3>1, <3>2
  <2>3. ASSUME NEW k \in 1 .. n, NEW l \in 1 .. n, stack'[k].node = stack'[l].node PROVE k = l
    BY <1>5, <2>1, <2>3
  <2>4. ASSUME NEW k \in 1 .. n PROVE stack'[k].next <= Len(dependencies[stack'[k].node]) + 1
    <3>1. CASE k = n
      BY <1>4, <1>5, <3>1
    <3>2. CASE k \in 1 .. n - 1
      BY <1>5, <2>1, <3>2
    <3> QED  BY <1>6, <3>1, <3>2
  <2>5. ASSUME NEW k \in 1 .. n - 1
        PROVE  /\ stack'[k].next > 1
               /\ dependencies[stack'[k].node][stack'[k].next - 1] = stack'[k + 1].node
    <3>1. k \in 1 .. n /\ k + 1 \in 1 .. n
      BY <1>4
    <3> QED  BY <1>5, <2>1, <3>1
  <2> QED  BY <1>1, <1>5, <2>2, <2>3, <2>4, <2>5 DEF StackOK
<1>9. SeenOK'
  <2> SUFFICES ASSUME cycles' = {}, NEW k \in 1 .. n, NEW i \in 1 .. stack'[k].next - 1
               PROVE  \/ visited[dependencies[stack[k].node][i]] = "Visited"
                      \/ k < n /\ i = stack'[k].next - 1
    BY <1>5 DEF SeenOK
  <2>1. cycles' = cycles /\ cycles = {}
    OBVIOUS
  <2>2. \A m \in 1 .. n : \A h \in 1 .. stack[m].next - 1 :
          \/ visited[dependencies[stack[m].node][h]] = "Visited"
          \/ m < n /\ h = stack[m].next - 1
    BY <2>1 DEF BuildInv, SeenOK
  <2> HIDE DEF n
  <2>3. CASE k = n
    <3>1. i \in 1 .. Top.next - 1 \/ i = Top.next
      BY <1>4, <1>5, <2>3
    <3>2. CASE i = Top.next
      BY <1>4, <2>1, <2>3, <3>2
    <3>3. CASE i \in 1 .. Top.next - 1
      BY <1>4, <2>2, <2>3, <3>3
    <3> QED  BY <3>1, <3>2, <3>3
  <2>4. CASE k \in 1 .. n - 1
    <3>1. k \in 1 .. n /\ stack'[k].next = stack[k].next
      BY <1>4, <1>5, <2>4
    <3> QED  BY <2>2, <3>1
  <2> QED  BY <1>6, <2>3, <2>4
<1>10. OrderOK'
  <2>1. Sorted' <=> Sorted
    BY DEF Sorted
  <2>2. cycles' = {} => cycles = {}
    OBVIOUS
  <2> QED  BY <1>1, <2>1, <2>2 DEF BuildInv, OrderOK
<1>11. SettledOK' /\ CycleOK'
  BY <1>1, <1>2 DEF CycleOK, SettledOK
<1> QED  BY <1>3, <1>7, <1>8, <1>9, <1>10, <1>11 DEF BuildInv

(* The stack from a node on it to the top closes a cycle when the top      *)
(* depends on the node.                                                    *)
LEMMA CyclePathIs ==
  ASSUME BuildInv, main = "search", stack # <<>>, Top.next <= Len(TopList),
         NEW d, d = TopList[Top.next], visited[d] = "Visiting"
  PROVE  IsCycle(CyclePath(d))
<1> DEFINE n == Len(stack)
           At == {i \in 1 .. Len(Path) : Path[i] = d}
           s == Min(At)
           p == CyclePath(d)
<1>1. /\ n \in Nat \ {0} /\ Top = stack[n] /\ TopList = dependencies[Top.node]
      /\ Top.node \in Nodes /\ Top.next \in Nat \ {0}
      /\ TopList \in Seq(Nodes) /\ Len(TopList) \in Nat
      /\ \A k \in 1 .. n : stack[k].node \in Nodes /\ stack[k].next \in Nat \ {0}
      /\ stack \in Seq(Frame)
  BY TopFacts DEF Top, TopList, BuildInv, SearchTypeOK
<1>2. Path = [k \in 1 .. n |-> stack[k].node]
  BY <1>1 DEF Path
<1>3. Path \in Seq(Nodes) /\ Len(Path) = n /\ \A k \in 1 .. n : Path[k] = stack[k].node
  BY <1>1, <1>2
<1>4. d \in ToSet(TopList) /\ d \in Nodes /\ <<Path[n], d>> \in TrueEdges /\ d # Path[n]
  <2>1. Top.next \in 1 .. Len(TopList)
    BY <1>1
  <2>2. d \in ToSet(TopList)
    BY <1>1, <2>1 DEF ToSet
  <2>3. main \in Listed /\ Searching
    BY DEF Listed, BuildInv, ControlOK
  <2>4. d \in Nodes /\ <<Top.node, d>> \in TrueEdges /\ d # Top.node
    BY <1>1, <2>2, <2>3, ListedEdges
  <2>5. Path[n] = Top.node
    BY <1>1, <1>3
  <2> QED  BY <2>2, <2>4, <2>5
<1>5. \A k, l \in 1 .. n : Path[k] = Path[l] => k = l
  BY <1>3 DEF BuildInv, StackOK
<1>6. ASSUME NEW k \in 1 .. n - 1 PROVE <<Path[k], Path[k + 1]>> \in TrueEdges
  <2>1. k \in 1 .. n /\ k + 1 \in 1 .. n
    BY <1>1
  <2>2. /\ stack[k].next > 1 /\ stack[k].next <= Len(dependencies[stack[k].node]) + 1
        /\ dependencies[stack[k].node][stack[k].next - 1] = stack[k + 1].node
    BY <2>1 DEF BuildInv, StackOK
  <2>3. dependencies[stack[k].node] \in Seq(Nodes) /\ stack[k].node \in Nodes /\ stack[k].next \in Nat
    BY <1>1, <2>1 DEF BuildInv, ListsOK
  <2>4. stack[k + 1].node \in ToSet(dependencies[stack[k].node])
    <3>1. PICK list, i : list = dependencies[stack[k].node] /\ i = stack[k].next
      OBVIOUS
    <3>2. /\ list \in Seq(Nodes) /\ Len(list) \in Nat
          /\ i \in Nat /\ i > 1 /\ i <= Len(list) + 1
          /\ list[i - 1] = stack[k + 1].node
      BY <2>2, <2>3, <3>1
    <3>3. i - 1 \in 1 .. Len(list)
      BY <3>2
    <3>4. stack[k + 1].node \in ToSet(list)
      BY <3>2, <3>3 DEF ToSet
    <3> QED  BY <3>1, <3>4
  <2>5. main \in Listed
    BY DEF Listed
  <2>6. <<stack[k].node, stack[k + 1].node>> \in TrueEdges
    BY <2>3, <2>4, <2>5, ListedEdges
  <2> QED  BY <1>3, <2>1, <2>6
<1>7. s \in 1 .. n /\ Path[s] = d
  <2>1. \E k \in 1 .. n : stack[k].node = d
    BY <1>4 DEF BuildInv, StackOK
  <2>2. At \in SUBSET Nat /\ At # {}
    BY <1>1, <1>3, <2>1
  <2>3. s \in At
    <3> HIDE DEF At
    <3> QED  BY <2>2, MinIs
  <2> QED  BY <1>3, <2>3
<1>8. s # n
  BY <1>4, <1>7
<1>9. p = SubSeq(Path, s, n)
  <2>1. At # {}
    BY <1>3, <1>7
  <2>2. SelectInSeq(Path, LAMBDA id : id = d) = s
    BY <2>1 DEF SelectInSeq
  <2> QED  BY <1>3, <2>2 DEF CyclePath
<1> HIDE DEF s, At
<1>10. /\ p \in Seq(Nodes) /\ Len(p) = (n - s) + 1
       /\ \A k \in 1 .. (n - s) + 1 : p[k] = Path[(s + k) - 1] /\ (s + k) - 1 \in 1 .. n
  <2> HIDE DEF p, n
  <2>1. n \in Nat /\ s \in 1 .. n /\ Path \in Seq(Nodes) /\ Len(Path) = n
    BY <1>1, <1>3, <1>7
  <2>2. p \in Seq(Nodes) /\ Len(p) = (n - s) + 1
    BY <1>9, <2>1
  <2>3. ASSUME NEW k \in 1 .. (n - s) + 1 PROVE p[k] = Path[(s + k) - 1] /\ (s + k) - 1 \in 1 .. n
    BY <1>9, <2>1
  <2> QED  BY <2>2, <2>3
<1> HIDE DEF p, n
<1>11. /\ n \in Nat /\ s \in Nat /\ s >= 1 /\ s < n
  BY <1>1, <1>7, <1>8
<1>12. Len(p) > 1 /\ DOMAIN p = 1 .. (n - s) + 1 /\ Len(p) \in Nat
  BY <1>10, <1>11
<1>13. IsInjective(p)
  <2> SUFFICES ASSUME NEW k \in 1 .. (n - s) + 1, NEW l \in 1 .. (n - s) + 1, p[k] = p[l] PROVE k = l
    BY <1>12 DEF IsInjective
  <2>1. (s + k) - 1 = (s + l) - 1
    BY <1>5, <1>10
  <2> QED  BY <1>11, <2>1
<1>14. ASSUME NEW k \in 1 .. Len(p) - 1 PROVE <<p[k], p[k + 1]>> \in TrueEdges
  <2>1. k \in 1 .. (n - s) + 1 /\ k + 1 \in 1 .. (n - s) + 1 /\ (s + k) - 1 \in 1 .. n - 1
        /\ (s + (k + 1)) - 1 = ((s + k) - 1) + 1
    BY <1>10, <1>11
  <2>2. p[k] = Path[(s + k) - 1] /\ p[k + 1] = Path[((s + k) - 1) + 1]
    BY <1>10, <2>1
  <2> QED  BY <1>6, <2>1, <2>2
<1>15. p[1] = d /\ p[Len(p)] = Path[n]
  <2>1. 1 \in 1 .. (n - s) + 1 /\ (n - s) + 1 \in 1 .. (n - s) + 1 /\ (s + 1) - 1 = s /\ (s + ((n - s) + 1)) - 1 = n
    BY <1>11
  <2>2. p[1] = Path[(s + 1) - 1] /\ p[(n - s) + 1] = Path[(s + ((n - s) + 1)) - 1]
    BY <1>10, <2>1
  <2> QED  BY <1>7, <1>10, <2>1, <2>2
<1>16. IsCycle(p)
  BY <1>4, <1>10, <1>12, <1>13, <1>14, <1>15 DEF IsCycle
<1> QED  BY <1>16 DEF p

LEMMA VisitDependencyKeeps == BuildInv /\ VisitDependency => BuildInv'
<1> SUFFICES ASSUME BuildInv, VisitDependency PROVE BuildInv'
  OBVIOUS
<1> DEFINE d == TopList[Top.next]
<1>1. main = "search" /\ stack # <<>>
  BY DEF VisitDependency
<1>2. /\ Last(stack) = Top /\ dependencies[Top.node] = TopList
      /\ Top.next \in Nat \ {0} /\ TopList \in Seq(Nodes) /\ Len(TopList) \in Nat
      /\ Len(stack) \in Nat \ {0}
  BY <1>1, TopFacts DEF TopList
<1>3. /\ Top.next <= Len(TopList)
      /\ program' = program /\ dependencies' = dependencies /\ badEdges' = badEdges /\ order' = order
      /\ \/ /\ visited[d] = "Unvisited"
            /\ Enter(d, Advanced)
            /\ main' = main /\ cycles' = cycles
         \/ /\ visited[d] = "Visiting"
            /\ stack' = Advanced
            /\ IF Class = "TimedJobGraph" THEN main' = "threw" /\ cycles' = cycles
               ELSE cycles' = cycles \cup {CyclePath(d)} /\ main' = main
            /\ visited' = visited
         \/ /\ visited[d] = "Visited"
            /\ stack' = Advanced
            /\ main' = main /\ visited' = visited /\ cycles' = cycles
  BY <1>2 DEF VisitDependency, Advanced
<1>4. d \in Nodes
  BY <1>2, <1>3
<1>5. CASE visited[d] = "Unvisited"
  <2>1. Enter(d, Advanced) /\ main' = main /\ cycles' = cycles
    BY <1>3, <1>5
  <2>2. /\ Advanced \in Seq(Frame) /\ Len(Advanced) = Len(stack)
        /\ \A k \in 1 .. Len(stack) : Advanced[k].node = stack[k].node
        /\ \A k \in 1 .. Len(stack) - 1 : Advanced[k].next = stack[k].next
        /\ Advanced[Len(stack)].next = stack[Len(stack)].next + 1
    BY <1>1, AdvancedIs DEF Top
  <2>3. /\ stack[Len(stack)].next <= Len(dependencies[stack[Len(stack)].node])
        /\ dependencies[stack[Len(stack)].node][stack[Len(stack)].next] = d
    BY <1>3 DEF Top, TopList
  <2> HIDE DEF d
  <2> QED  BY <1>1, <1>3, <1>4, <1>5, <2>1, <2>2, <2>3, EnterKeeps
<1>6. CASE visited[d] = "Visited"
  <2>1. stack' = Advanced /\ main' = main /\ visited' = visited /\ cycles' = cycles
    BY <1>3, <1>6
  <2>2. \A p \in cycles' : IsCycle(p)
    BY <2>1 DEF BuildInv, CycleOK
  <2> QED  BY <1>1, <1>3, <1>6, <2>1, <2>2, AdvanceKeeps
<1>7. CASE visited[d] = "Visiting"
  <2>1. IsCycle(CyclePath(d))
    BY <1>1, <1>3, <1>7, CyclePathIs
  <2>2. stack' = Advanced /\ visited' = visited
    BY <1>3, <1>7
  <2>3. CASE Class # "TimedJobGraph"
    <3>1. cycles' = cycles \cup {CyclePath(d)} /\ main' = main
      BY <1>3, <1>7, <2>3
    <3>2. Class = "ValidatedJobGraph"
      BY <1>1, <2>3 DEF BuildInv, ControlOK, Searching
    <3>3. \A p \in cycles' : IsCycle(p)
      BY <2>1, <3>1 DEF BuildInv, CycleOK
    <3>4. cycles' # {}
      BY <3>1
    <3> QED  BY <1>1, <1>3, <2>2, <3>1, <3>2, <3>3, <3>4, AdvanceKeeps
  <2>4. CASE Class = "TimedJobGraph"
    <3>1. main' = "threw" /\ cycles' = cycles
      BY <1>3, <1>7, <2>4
    <3>2. /\ Nodes' = Nodes /\ Class' = Class /\ \A p : IsCycle(p)' <=> IsCycle(p)
      BY <1>3, GraphConstant
    <3>3. main' \in Listed /\ main' \in Listed' /\ main' \notin Settled' /\ main' # "search"
      BY <3>1 DEF Listed, Settled
    <3>4. ControlOK' /\ ListsOK'
      BY <1>1, <1>3, <3>1, <3>3, SearchControl
    <3>5. Advanced \in Seq(Frame)
      BY <1>1, AdvancedIs
    <3>6. SearchTypeOK'
      BY <1>3, <2>2, <3>2, <3>3, <3>5 DEF BuildInv, SearchTypeOK, Frame
    <3>7. CycleOK'
      <4>1. CyclePath(d) \in Seq(Nodes)
        BY <2>1 DEF IsCycle
      <4> QED  BY <2>1, <3>1, <3>2, <4>1 DEF BuildInv, CycleOK
    <3> QED  BY <3>3, <3>4, <3>6, <3>7 DEF BuildInv, StackOK, SeenOK, OrderOK, SettledOK
  <2> QED  BY <2>3, <2>4
<1> QED  BY <1>3, <1>5, <1>6, <1>7

(* visit returns: the node goes to the order behind what it depends on.    *)
LEMMA VisitReturnsKeeps == BuildInv /\ VisitReturns => BuildInv'
<1> SUFFICES ASSUME BuildInv, VisitReturns PROVE BuildInv'
  OBVIOUS
<1> DEFINE n == Len(stack)
           id == Top.node
<1>1. main = "search" /\ stack # <<>>
  BY DEF VisitReturns, Leave
<1>2. /\ n \in Nat \ {0} /\ Last(stack) = Top /\ Top = stack[n]
      /\ \A k \in 1 .. n : stack[k].node \in Nodes /\ stack[k].next \in Nat \ {0}
      /\ id \in Nodes /\ Top.next \in Nat \ {0} /\ Top.next <= Len(TopList) + 1
      /\ TopList \in Seq(Nodes) /\ Len(TopList) \in Nat /\ TopList = dependencies[id]
      /\ visited[id] = "Visiting"
  BY <1>1, TopFacts DEF Top, TopList
<1>3. /\ Top.next > Len(TopList)
      /\ stack' = Front(stack) /\ visited' = [visited EXCEPT ![id] = "Visited"]
      /\ order' = Append(order, id)
      /\ program' = program /\ main' = main /\ dependencies' = dependencies
      /\ badEdges' = badEdges /\ cycles' = cycles
  BY <1>2 DEF VisitReturns, Leave
<1>4. Top.next = Len(TopList) + 1
  BY <1>2, <1>3
<1>5. /\ Nodes' = Nodes /\ Class' = Class /\ Searching' = Searching
      /\ \A p : IsCycle(p)' <=> IsCycle(p)
  BY <1>3, GraphConstant
<1>6. main' \in Listed /\ main' \in Listed' /\ main' \notin Settled' /\ main' # "threw"
  BY <1>1, <1>3 DEF Listed, Settled
<1>7. ControlOK' /\ ListsOK'
  <2>1. Searching
    BY <1>1 DEF BuildInv, ControlOK
  <2> QED  BY <1>1, <1>3, <1>6, <2>1, SearchControl
<1>8. /\ stack' \in Seq(Frame) /\ Len(stack') = n - 1
      /\ \A k \in 1 .. n - 1 : stack'[k] = stack[k]
  <2>1. stack \in Seq(Frame) /\ n \in Nat \ {0}
    BY <1>2 DEF BuildInv, SearchTypeOK
  <2>2. stack' = SubSeq(stack, 1, n - 1)
    BY <1>3 DEF Front
  <2>3. n - 1 \in Nat /\ n - 1 <= n /\ \A k \in 1 .. n - 1 : k \in 1 .. n /\ 1 + k - 1 = k
    BY <2>1
  <2>4. Len(stack') = n - 1 /\ \A k \in 1 .. n - 1 : stack'[k] = stack[k]
    <3>1. n = Len(stack)
      OBVIOUS
    <3> HIDE DEF n
    <3> QED  BY <2>1, <2>2, <2>3, <3>1
  <2>5. SubSeq(stack, 1, n - 1) \in Seq(Frame)
    <3>1. n = Len(stack)
      OBVIOUS
    <3> HIDE DEF n
    <3> QED  BY <2>1, <2>3, <3>1
  <2> QED  BY <2>2, <2>4, <2>5
<1>9. /\ visited \in [Nodes -> {"Unvisited", "Visiting", "Visited"}]
      /\ visited' \in [Nodes -> {"Unvisited", "Visiting", "Visited"}]
      /\ visited'[id] = "Visited"
      /\ \A j \in Nodes : j # id => visited'[j] = visited[j]
  BY <1>2, <1>3 DEF BuildInv, SearchTypeOK
<1>10. order \in Seq(Nodes) /\ order' \in Seq(Nodes) /\ dependencies \in [Nodes -> Seq(Nodes)]
  BY <1>2, <1>3 DEF BuildInv, SearchTypeOK, ListsOK
<1>11. SearchTypeOK'
  BY <1>5, <1>6, <1>8, <1>9, <1>10 DEF SearchTypeOK, Frame
<1>12. /\ \A j \in Nodes : visited[j] = "Visiting" <=> \E k \in 1 .. n : stack[k].node = j
       /\ \A k, l \in 1 .. n : stack[k].node = stack[l].node => k = l
       /\ \A k \in 1 .. n : stack[k].next <= Len(dependencies[stack[k].node]) + 1
       /\ \A k \in 1 .. n - 1 :
            /\ stack[k].next > 1
            /\ dependencies[stack[k].node][stack[k].next - 1] = stack[k + 1].node
  BY <1>1 DEF BuildInv, StackOK
<1>13. \A k \in 1 .. n - 1 : k \in 1 .. n /\ k # n /\ k < n /\ stack[k].node # id
  <2>1. \A k \in 1 .. n - 1 : k \in 1 .. n /\ k # n /\ k < n /\ n \in 1 .. n
    BY <1>2
  <2>2. \A k \in 1 .. n : stack[k].node = stack[n].node => k = n
    BY <1>2, <1>12
  <2>3. id = stack[n].node
    BY <1>2
  <2> QED  BY <2>1, <2>2, <2>3
<1>14. n \in Nat \ {0} /\ \A k \in 1 .. n : k = n \/ k \in 1 .. n - 1
  BY <1>2
<1>15. id = stack[n].node
  BY <1>2
<1> HIDE DEF n, id
<1>16. StackOK'
  <2>1. ASSUME NEW j \in Nodes
        PROVE  visited'[j] = "Visiting" <=> \E k \in 1 .. n - 1 : stack'[k].node = j
    <3>1. CASE j = id
      <4>1. \A k \in 1 .. n - 1 : stack'[k].node # id
        BY <1>8, <1>13
      <4> QED  BY <1>9, <3>1, <4>1
    <3>2. CASE j # id
      <4>1. visited[j] = "Visiting" <=> \E k \in 1 .. n : stack[k].node = j
        BY <1>12
      <4>2. (\E k \in 1 .. n : stack[k].node = j) <=> \E k \in 1 .. n - 1 : stack[k].node = j
        BY <1>13, <1>14, <1>15, <3>2
      <4>3. \A k \in 1 .. n - 1 : stack'[k].node = stack[k].node
        BY <1>8
      <4> QED  BY <1>9, <3>2, <4>1, <4>2, <4>3
    <3> QED  BY <3>1, <3>2
  <2>2. \A k, l \in 1 .. n - 1 : stack'[k].node = stack'[l].node => k = l
    BY <1>8, <1>12, <1>13
  <2>3. \A k \in 1 .. n - 1 : stack'[k].next <= Len(dependencies[stack'[k].node]) + 1
    BY <1>8, <1>12, <1>13
  <2>4. ASSUME NEW k \in 1 .. (n - 1) - 1
        PROVE  /\ stack'[k].next > 1
               /\ dependencies[stack'[k].node][stack'[k].next - 1] = stack'[k + 1].node
    <3>1. k \in 1 .. n - 1 /\ k + 1 \in 1 .. n - 1
      BY <1>14
    <3> QED  BY <1>8, <1>12, <3>1
  <2> QED  BY <1>3, <1>5, <1>8, <2>1, <2>2, <2>3, <2>4 DEF StackOK
<1>17. ASSUME cycles = {}, NEW k \in 1 .. n, NEW i \in 1 .. stack[k].next - 1
       PROVE  /\ dependencies[stack[k].node][i] \in Nodes
              /\ \/ visited[dependencies[stack[k].node][i]] = "Visited"
                 \/ k < n /\ i = stack[k].next - 1
  <2>1. /\ dependencies[stack[k].node] \in Seq(Nodes) /\ Len(dependencies[stack[k].node]) \in Nat
        /\ stack[k].next \in Nat
    BY <1>2, <1>10
  <2>2. i \in 1 .. Len(dependencies[stack[k].node])
    BY <1>12, <2>1
  <2>3. dependencies[stack[k].node][i] \in Nodes
    BY <2>1, <2>2
  <2> QED  BY <1>1, <1>17, <2>3 DEF BuildInv, SeenOK, n
<1>18. SeenOK'
  <2> SUFFICES ASSUME cycles = {}, NEW k \in 1 .. n - 1, NEW i \in 1 .. stack'[k].next - 1
               PROVE  \/ visited'[dependencies[stack'[k].node][i]] = "Visited"
                      \/ k < n - 1 /\ i = stack'[k].next - 1
    BY <1>3, <1>8 DEF SeenOK
  <2>1. k \in 1 .. n /\ stack'[k] = stack[k] /\ i \in 1 .. stack[k].next - 1
    BY <1>8, <1>13
  <2> DEFINE d == dependencies[stack[k].node][i]
  <2>2. d \in Nodes /\ (visited[d] = "Visited" \/ (k < n /\ i = stack[k].next - 1))
    BY <1>17, <2>1
  <2>3. CASE visited[d] = "Visited"
    <3>1. visited'[d] = "Visited"
      BY <1>9, <2>2, <2>3
    <3> QED  BY <2>1, <3>1
  <2>4. CASE i = stack[k].next - 1 /\ k < n - 1
    BY <2>1, <2>4
  <2>5. CASE i = stack[k].next - 1 /\ ~(k < n - 1)
    <3>1. k = n - 1 /\ k + 1 = n
      BY <1>14, <2>5
    <3>2. d = id
      BY <1>12, <1>15, <2>5, <3>1
    <3> QED  BY <1>9, <2>1, <3>2
  <2> QED  BY <2>2, <2>3, <2>4, <2>5
<1>19. OrderOK'
  <2>1. /\ IsInjective(order) /\ ToSet(order) = {j \in Nodes : visited[j] = "Visited"}
        /\ cycles = {} => Sorted
    BY <1>1 DEF BuildInv, OrderOK
  <2>2. id \in Nodes /\ visited[id] = "Visiting"
    BY <1>2 DEF id
  <2>3. id \notin ToSet(order)
    BY <2>1, <2>2
  <2>4. IsInjective(order') /\ ToSet(order') = ToSet(order) \cup {id}
    BY <1>3, <1>10, <2>1, <2>2, <2>3, AppendElems
  <2>5. ToSet(order') = {j \in Nodes : visited'[j] = "Visited"}
    BY <1>9, <2>1, <2>2, <2>4
  <2>6. ASSUME cycles = {} PROVE Sorted'
    <3> DEFINE m == Len(order)
    <3>1. /\ m \in Nat /\ Len(order') = m + 1 /\ order'[m + 1] = id
          /\ \A k \in 1 .. m : order'[k] = order[k]
      BY <1>3, <1>10, <2>2
    <3> SUFFICES ASSUME NEW k \in 1 .. m + 1, NEW d \in ToSet(dependencies[order'[k]])
                 PROVE  \E l \in 1 .. k - 1 : order'[l] = d
      BY <1>3, <3>1 DEF Sorted
    <3>2. CASE k \in 1 .. m
      <4>1. d \in ToSet(dependencies[order[k]])
        BY <3>1, <3>2
      <4>2. PICK l \in 1 .. k - 1 : order[l] = d
        BY <2>1, <2>6, <3>2, <4>1 DEF Sorted
      <4>3. l \in 1 .. m
        BY <3>1, <3>2
      <4> QED  BY <3>1, <4>2, <4>3
    <3>3. CASE k = m + 1
      <4>1. d \in ToSet(TopList)
        BY <1>2, <3>1, <3>3 DEF id
      <4>2. PICK i \in 1 .. Len(TopList) : d = TopList[i]
        BY <1>2, <4>1 DEF ToSet
      <4>3. stack[n] = Top /\ n \in 1 .. n /\ ~(n < n) /\ i \in 1 .. stack[n].next - 1 /\ d = dependencies[stack[n].node][i]
        BY <1>2, <1>4, <1>14, <4>2 DEF n, TopList
      <4>4. visited[d] = "Visited" /\ d \in Nodes
        BY <1>17, <2>6, <4>3
      <4>5. d \in ToSet(order)
        BY <2>1, <4>4
      <4>6. PICK l \in 1 .. m : order[l] = d
        BY <1>10, <4>5 DEF ToSet
      <4>7. l \in 1 .. k - 1
        BY <3>1, <3>3
      <4> QED  BY <3>1, <4>6, <4>7
    <3>4. k = m + 1 \/ k \in 1 .. m
      BY <3>1
    <3> QED  BY <3>2, <3>3, <3>4
  <2> QED  BY <1>3, <1>5, <2>4, <2>5, <2>6 DEF OrderOK
<1>20. SettledOK' /\ CycleOK'
  BY <1>3, <1>5, <1>6 DEF BuildInv, CycleOK, SettledOK
<1> QED  BY <1>7, <1>11, <1>16, <1>18, <1>19, <1>20 DEF BuildInv

LEMMA SearchEndsKeeps == BuildInv /\ SearchEnds => BuildInv'
<1> SUFFICES ASSUME BuildInv, SearchEnds PROVE BuildInv'
  OBVIOUS
<1>1. /\ main = "search" /\ stack = <<>> /\ \A id \in Nodes : visited[id] # "Unvisited"
      /\ main' = "ordered" /\ order' = IF cycles = {} THEN order ELSE <<>>
      /\ program' = program /\ dependencies' = dependencies /\ badEdges' = badEdges
      /\ visited' = visited /\ stack' = stack /\ cycles' = cycles
  BY DEF SearchEnds
<1>2. /\ Nodes' = Nodes /\ Class' = Class /\ \A p : IsCycle(p)' <=> IsCycle(p)
  BY <1>1, GraphConstant
<1>3. main' \in Listed /\ main' \in Listed' /\ main' \notin {"search", "threw"}
  BY <1>1 DEF Listed
<1>4. ControlOK' /\ ListsOK'
  BY <1>1, <1>3, SearchControl
<1>5. order \in Seq(Nodes) /\ order' \in Seq(Nodes)
  <2>1. order \in Seq(Nodes) /\ <<>> \in Seq(Nodes)
    BY DEF BuildInv, SearchTypeOK
  <2> QED  BY <1>1, <2>1
<1>6. SearchTypeOK'
  BY <1>1, <1>2, <1>3, <1>5 DEF BuildInv, SearchTypeOK, Frame
<1>7. SettledOK'
  <2> SUFFICES ASSUME cycles = {} PROVE IsInjective(order) /\ ToSet(order) = Nodes /\ Sorted'
    BY <1>1, <1>2 DEF SettledOK
  <2>1. \A j \in Nodes : visited[j] # "Visiting"
    BY <1>1 DEF BuildInv, StackOK
  <2>2. \A j \in Nodes : visited[j] = "Visited"
    BY <1>1, <2>1 DEF BuildInv, SearchTypeOK
  <2>3. IsInjective(order) /\ ToSet(order) = Nodes /\ Sorted
    BY <1>1, <2>2 DEF BuildInv, OrderOK
  <2>4. Sorted'
    BY <1>1, <2>3 DEF Sorted
  <2> QED  BY <2>3, <2>4
<1>8. CycleOK'
  BY <1>1, <1>2, <1>3 DEF BuildInv, CycleOK
<1> QED  BY <1>3, <1>4, <1>6, <1>7, <1>8 DEF BuildInv, StackOK, SeenOK, OrderOK

(* Nothing else writes what the search found.                              *)
LEMMA RunKeeps ==
  ASSUME BuildInv, program' = program, dependencies' = dependencies, badEdges' = badEdges,
         visited' = visited, stack' = stack, order' = order, cycles' = cycles,
         \/ main' = main
         \/ main = "ordered" /\ main' \in {"run", "done"}
         \/ main = "ordered" /\ main' = "threw" /\ ~IsValid
         \/ main = "run" /\ main' = "done"
  PROVE  BuildInv'
<1>1. /\ Nodes' = Nodes /\ Edges' = Edges /\ Class' = Class /\ Searching' = Searching /\ Used' = Used
      /\ \A i : Accepted(i)' <=> Accepted(i)
      /\ \A p : IsCycle(p)' <=> IsCycle(p)
  BY GraphConstant
<1>2. Sorted' <=> Sorted
  BY DEF Sorted
<1>3. CASE main' = main
  <2>1. Listed' = Listed /\ Settled' = Settled
    BY DEF Listed, Settled
  <2>2. ControlOK' /\ ListsOK'
    BY <1>1, <1>3, <2>1 DEF BuildInv, ControlOK, ListsOK
  <2>3. SearchTypeOK' /\ StackOK' /\ SeenOK'
    BY <1>1, <1>3, <2>1 DEF BuildInv, SearchTypeOK, StackOK, SeenOK, Frame
  <2>4. OrderOK' /\ SettledOK' /\ CycleOK'
    BY <1>1, <1>2, <1>3, <2>1 DEF BuildInv, OrderOK, SettledOK, CycleOK
  <2> QED  BY <2>2, <2>3, <2>4 DEF BuildInv
<1>4. CASE main' # main
  <2>1. /\ main \in Listed /\ main \in Settled /\ main' \in Listed' /\ main' # "search"
        /\ main \notin {"declare", "collect", "refused"} /\ main' \notin {"declare", "collect", "refused"}
        /\ main' \in Settled' \/ main' = "threw"
    BY <1>4 DEF Listed, Settled
  <2>2. ControlOK' /\ ListsOK'
    BY <1>1, <2>1 DEF BuildInv, ControlOK, ListsOK
  <2>3. SearchTypeOK' /\ StackOK' /\ SeenOK' /\ OrderOK'
    BY <1>1, <2>1 DEF BuildInv, SearchTypeOK, StackOK, SeenOK, OrderOK, Frame
  <2>4. SettledOK'
    BY <1>1, <1>2, <2>1 DEF BuildInv, SettledOK
  <2>5. CycleOK'
    <3>1. Class = "TimedJobGraph" => IsValid
      BY DEF BuildInv, ControlOK, IsValid
    <3>2. Class = "TimedJobGraph" => main' # "threw"
      BY <1>4, <3>1
    <3> QED  BY <1>1, <3>2 DEF BuildInv, CycleOK
  <2> QED  BY <2>2, <2>3, <2>4, <2>5 DEF BuildInv
<1> QED  BY <1>3, <1>4

LEMMA BuildNext == BuildInv /\ [Next]_vars => BuildInv'
<1> SUFFICES ASSUME BuildInv, [Next]_vars PROVE BuildInv'
  OBVIOUS
<1>1. CASE Build
  BY <1>1, DeclareKeeps, ValidateKeeps, VisitRootKeeps, VisitDependencyKeeps, VisitReturnsKeeps,
     SearchEndsKeeps DEF Build
<1>2. CASE ~Build
  <2> DEFINE Same == /\ program' = program /\ dependencies' = dependencies /\ badEdges' = badEdges
                     /\ visited' = visited /\ stack' = stack /\ order' = order /\ cycles' = cycles
  <2>1. CASE BeginRun \/ DestroyPool
    BY <2>1, RunKeeps DEF BeginRun, DestroyPool, searchVars
  <2>2. CASE UNCHANGED vars
    <3>1. Same /\ main' = main
      BY <2>2 DEF vars, buildVars, searchVars
    <3> QED  BY <3>1, RunKeeps
  <2>3. CASE SubmitNode \/ Wait \/ Get \/ WaitAll \/ ReportTimed \/ ReportFailure \/ CopyRecords \/ Tick
    <3>1. Same /\ main' = main
      BY <2>3 DEF SubmitNode, Wait, Get, WaitAll, ReportTimed, ReportFailure, CopyRecords, Tick, buildVars, searchVars
    <3> QED  BY <3>1, RunKeeps
  <2>4. ASSUME NEW j \in Nodes, JobStep(j) PROVE BuildInv'
    <3>1. Same /\ main' = main
      BY <2>4 DEF JobStep, Resolve, EnterJob, CallJob, LeaveJob, MeasuredJobRuns, MeasuredJobEnds,
         RecordExecution, TracedJobRuns, TracedJobEnds, FulfilFuture, SubmitChild, Record, buildVars, searchVars
    <3> QED  BY <3>1, RunKeeps
  <2> QED  BY <1>2, <2>1, <2>2, <2>3, <2>4 DEF Next, MainStep
<1> QED  BY <1>1, <1>2

LEMMA BuildInvariance == Spec => []BuildInv
<1>1. RunInit => BuildInv
  BY BuildInit
<1>2. BuildInv /\ [Next]_vars => BuildInv'
  BY BuildNext
<1> QED  BY <1>1, <1>2, PTL DEF Spec

-----------------------------------------------------------------------------
(* The order of submission.                                                *)

(* The declared programs and the searched ones submit every node once and  *)
(* after the nodes it depends on: JobGraphBuilder.AddJob, topologicalOrder *)
(* of ValidatedJobGraph.Validate and TimedJobGraph.Visit, whatever the     *)
(* graph and the order of its edges.                                       *)
THEOREM OrderTopological == Spec => []OrderIsTopological
<1>1. BuildInv => OrderIsTopological
  <2> SUFFICES ASSUME BuildInv, main = "ordered", cycles = {}
               PROVE  /\ Len(order) = program.n /\ ToSet(order) = Nodes
                      /\ \A k \in DOMAIN order :
                           ToSet(dependencies[order[k]]) \subseteq ToSet(SubSeq(order, 1, k - 1))
    BY DEF OrderIsTopological
  <2>1. order \in Seq(Nodes) /\ IsInjective(order) /\ ToSet(order) = Nodes /\ Sorted
    BY DEF BuildInv, SearchTypeOK, SettledOK, Settled
  <2>2. program.n \in Nat
    BY ProgramFacts DEF BuildInv, ControlOK
  <2>3. Len(order) = program.n
    BY <2>1, <2>2, InjectiveLength DEF Nodes
  <2>4. ASSUME NEW k \in DOMAIN order, NEW d \in ToSet(dependencies[order[k]])
        PROVE  d \in ToSet(SubSeq(order, 1, k - 1))
    <3>1. k \in 1 .. Len(order) /\ Len(order) \in Nat /\ k - 1 \in Nat /\ k - 1 <= Len(order)
      BY <2>1
    <3>2. PICK l \in 1 .. k - 1 : order[l] = d
      BY <2>1, <3>1 DEF Sorted
    <3>3. /\ DOMAIN SubSeq(order, 1, k - 1) = 1 .. k - 1
          /\ SubSeq(order, 1, k - 1)[l] = order[l]
      BY <2>1, <3>1
    <3> QED  BY <3>2, <3>3 DEF ToSet
  <2> QED  BY <2>1, <2>3, <2>4
<1> QED  BY <1>1, BuildInvariance, PTL

-----------------------------------------------------------------------------
(* Validation.  What a node reaches, by the number of edges taken.         *)

Reaches(r, j) ==
  /\ r \in [0 .. program.n -> SUBSET Nodes]
  /\ \A k \in 1 .. program.n : \A x \in Nodes :
       x \in r[k] <=> \E y \in r[k - 1] \cup {j} : <<y, x>> \in TrueEdges
  /\ r[0] = {} /\ Above(j) = r[program.n]

LEMMA AboveIs ==
  ASSUME program \in Programs, NEW j \in Nodes
  PROVE  \E r : Reaches(r, j)
<1> DEFINE n == program.n
           Near(s) == {e[2] : e \in {f \in TrueEdges : f[1] \in s \cup {j}}}
           Is(f) == f = [k \in 0 .. n |-> IF k = 0 THEN {} ELSE Near(f[k - 1])]
           G == [x \in (1 .. n) \X SUBSET Nodes |-> Near(x[2])]
           R == CHOOSE f : Is(f)
<1>1. n \in Nat
  BY ProgramFacts
<1>2. \A e \in TrueEdges : e = <<e[1], e[2]>> /\ e[1] \in Nodes /\ e[2] \in Nodes
  BY DEF TrueEdges, Exists
<1>3. Above(j) = R[n]
  BY DEF Above
<1>4. \A s \in SUBSET Nodes : Near(s) \in SUBSET Nodes
  BY <1>2
<1>5. PICK f \in [0 .. n -> SUBSET Nodes] : f[0] = {} /\ \A k \in 1 .. n : f[k] = G[<<k, f[k - 1]>>]
  <2>1. G \in [(1 .. n) \X SUBSET Nodes -> SUBSET Nodes]
    <3> HIDE DEF Near
    <3> QED  BY <1>4
  <2>2. G \in RecursionSteps(n, SUBSET Nodes) /\ {} \in SUBSET Nodes
    BY <2>1 DEF RecursionSteps
  <2> HIDE DEF G, n
  <2>3. Solutions(n, SUBSET Nodes, {}, G) # {}
    BY <1>1, <2>2, RecursionExists
  <2> QED  BY <2>3 DEF Solutions
<1>6. Is(f)
  <2> HIDE DEF Near
  <2>1. ASSUME NEW k \in 1 .. n PROVE f[k] = Near(f[k - 1])
    <3>1. k - 1 \in 0 .. n /\ f[k - 1] \in SUBSET Nodes
      BY <1>1
    <3> QED  BY <1>5, <3>1
  <2>2. \A k \in 0 .. n : k # 0 => k \in 1 .. n
    BY <1>1
  <2>3. f = [k \in 0 .. n |-> f[k]]
    OBVIOUS
  <2> QED  BY <1>5, <2>1, <2>2, <2>3
<1>7. Is(R)
  <2> HIDE DEF Is
  <2> QED  BY <1>6
<1>8. R[0] = {} /\ DOMAIN R = 0 .. n /\ \A k \in 1 .. n : R[k] = Near(R[k - 1])
  <2>1. ASSUME NEW k \in 0 .. n PROVE R[k] = IF k = 0 THEN {} ELSE Near(R[k - 1])
    <3> HIDE DEF R, n, Near
    <3> QED  BY <1>7
  <2>2. DOMAIN R = 0 .. n
    <3> HIDE DEF R, n, Near
    <3> QED  BY <1>7
  <2>3. 0 \in 0 .. n /\ \A k \in 1 .. n : k \in 0 .. n /\ k # 0
    BY <1>1
  <2> HIDE DEF R, n, Near
  <2> QED  BY <2>1, <2>2, <2>3
<1> HIDE DEF R
<1>9. \A k \in 0 .. n : R[k] \in SUBSET Nodes
  <2> DEFINE T == {k \in Nat : k <= n => R[k] \in SUBSET Nodes}
  <2>1. 0 \in T
    BY <1>8
  <2>2. ASSUME NEW k \in Nat, k \in T PROVE k + 1 \in T
    <3> SUFFICES ASSUME k + 1 <= n PROVE R[k + 1] \in SUBSET Nodes
      OBVIOUS
    <3>1. k + 1 \in 1 .. n /\ (k + 1) - 1 = k /\ k <= n
      BY <1>1
    <3>2. R[k] \in SUBSET Nodes
      BY <2>2, <3>1
    <3> HIDE DEF Near
    <3> QED  BY <1>4, <1>8, <3>1, <3>2
  <2>3. Nat \subseteq T
    <3> HIDE DEF T
    <3> QED  BY <2>1, <2>2, NatInduct
  <2> QED  BY <1>1, <2>3
<1>10. R \in [0 .. n -> SUBSET Nodes]
  <2>1. R = [k \in 0 .. n |-> R[k]]
    <3> HIDE DEF Near, n
    <3> QED  BY <1>7, <1>8
  <2> QED  BY <1>9, <2>1
<1>11. ASSUME NEW k \in 1 .. n, NEW x \in Nodes
       PROVE  x \in R[k] <=> \E y \in R[k - 1] \cup {j} : <<y, x>> \in TrueEdges
  <2>1. R[k] = Near(R[k - 1])
    BY <1>8
  <2>2. ASSUME x \in Near(R[k - 1]) PROVE \E y \in R[k - 1] \cup {j} : <<y, x>> \in TrueEdges
    <3>1. PICK e \in TrueEdges : e[1] \in R[k - 1] \cup {j} /\ x = e[2]
      BY <2>2
    <3> QED  BY <1>2, <3>1
  <2>3. ASSUME NEW y \in R[k - 1] \cup {j}, <<y, x>> \in TrueEdges PROVE x \in Near(R[k - 1])
    <3>1. PICK e \in TrueEdges : e = <<y, x>>
      BY <2>3
    <3>2. e[1] \in R[k - 1] \cup {j} /\ e[2] = x
      BY <3>1
    <3> QED  BY <3>2
  <2> QED  BY <2>1, <2>2, <2>3
<1>12. Reaches(R, j)
  BY <1>3, <1>8, <1>10, <1>11 DEF Reaches
<1> QED  BY <1>12

(* A cycle is found by the reachability of its first node.                 *)
LEMMA CycleRefutes ==
  ASSUME program \in Programs, NEW p, IsCycle(p)
  PROVE  ~Acyclic
<1> DEFINE n == program.n
           m == Len(p)
<1>1. /\ n \in Nat /\ p \in Seq(Nodes) /\ m \in Nat /\ m > 1 /\ m <= n
      /\ \A k \in 1 .. m : p[k] \in Nodes
      /\ \A k \in 1 .. m - 1 : <<p[k], p[k + 1]>> \in TrueEdges
      /\ <<p[m], p[1]>> \in TrueEdges
  <2>1. n \in Nat
    BY ProgramFacts
  <2>2. p \in Seq(1 .. n) /\ IsInjective(p)
    BY DEF IsCycle, Nodes
  <2>3. m <= n
    <3> HIDE DEF n
    <3> QED  BY <2>1, <2>2, InjectiveLength
  <2> QED  BY <2>1, <2>2, <2>3 DEF IsCycle, Nodes
<1>2. p[1] \in Nodes
  BY <1>1
<1>3. PICK r : Reaches(r, p[1])
  BY <1>2, AboveIs
<1> HIDE DEF m
<1> DEFINE Ring(k) == /\ \A i \in 1 .. m - 1 : i <= k => p[i + 1] \in r[k]
                      /\ m <= k => p[1] \in r[k]
           T == {k \in Nat : k <= n => Ring(k)}
<1>4. 0 \in T
  BY <1>1
<1>5. ASSUME NEW k \in Nat, k \in T PROVE k + 1 \in T
  <2> SUFFICES ASSUME k + 1 <= n PROVE Ring(k + 1)
    OBVIOUS
  <2>1. k + 1 \in 1 .. n /\ (k + 1) - 1 = k /\ k <= n
    BY <1>1
  <2>2. \A x \in Nodes, y \in r[k] \cup {p[1]} : <<y, x>> \in TrueEdges => x \in r[k + 1]
    BY <1>3, <2>1 DEF Reaches
  <2>3. Ring(k)
    BY <1>5, <2>1
  <2>4. ASSUME NEW i \in 1 .. m - 1, i <= k + 1 PROVE p[i + 1] \in r[k + 1]
    <3>1. i + 1 \in 1 .. m /\ p[i + 1] \in Nodes /\ <<p[i], p[i + 1]>> \in TrueEdges
      BY <1>1
    <3>2. p[i] \in r[k] \cup {p[1]}
      <4>1. CASE i = 1
        BY <4>1
      <4>2. CASE i # 1
        <5>1. i - 1 \in 1 .. m - 1 /\ i - 1 <= k /\ (i - 1) + 1 = i
          BY <1>1, <2>4, <4>2
        <5> QED  BY <2>3, <5>1
      <4> QED  BY <4>1, <4>2
    <3> QED  BY <2>2, <3>1, <3>2
  <2>5. ASSUME m <= k + 1 PROVE p[1] \in r[k + 1]
    <3>1. m - 1 \in 1 .. m - 1 /\ m - 1 <= k /\ (m - 1) + 1 = m
      BY <1>1, <2>5
    <3>2. p[m] \in r[k]
      BY <2>3, <3>1
    <3> QED  BY <1>1, <1>2, <2>2, <3>2
  <2> QED  BY <2>4, <2>5
<1>6. Nat \subseteq T
  <2> HIDE DEF T
  <2> QED  BY <1>4, <1>5, NatInduct
<1>7. p[1] \in r[n]
  <2>1. n \in T
    BY <1>1, <1>6
  <2> QED  BY <1>1, <2>1
<1> QED  BY <1>2, <1>3, <1>7 DEF Acyclic, Reaches

LEMMA SelfRefutes ==
  ASSUME program \in Programs, NEW j \in Nodes, <<j, j>> \in TrueEdges
  PROVE  ~Acyclic
<1>1. PICK r : Reaches(r, j)
  BY AboveIs
<1>2. program.n \in Nat /\ program.n \in 1 .. program.n
  BY ProgramFacts DEF Nodes
<1>3. j \in r[program.n]
  BY <1>1, <1>2 DEF Reaches
<1> QED  BY <1>1, <1>3 DEF Acyclic, Reaches

(* An order with the dependencies first refutes every cycle.               *)
LEMMA SortedAcyclic ==
  ASSUME program \in Programs, order \in Seq(Nodes),
         IsInjective(order), ToSet(order) = Nodes, Sorted,
         \A y, x \in Nodes : <<y, x>> \in TrueEdges => x \in ToSet(dependencies[y])
  PROVE  Acyclic
<1> SUFFICES ASSUME NEW j \in Nodes, j \in Above(j) PROVE FALSE
  BY DEF Acyclic
<1> DEFINE n == program.n
           m == Len(order)
<1>1. PICK r : Reaches(r, j)
  BY AboveIs
<1>2. /\ n \in Nat /\ m \in Nat /\ DOMAIN order = 1 .. m
      /\ \A k \in 1 .. m : order[k] \in Nodes
      /\ \A i, k \in 1 .. m : order[i] = order[k] => i = k
  BY ProgramFacts DEF IsInjective
<1>3. PICK q \in 1 .. m : order[q] = j
  BY <1>2 DEF ToSet
<1>4. \A k \in 1 .. m : \A d \in ToSet(dependencies[order[k]]) : \E l \in 1 .. k - 1 : order[l] = d
  BY DEF Sorted
<1> HIDE DEF m
<1> DEFINE T == {k \in Nat : k <= n => \A x \in r[k] : \E l \in 1 .. q - 1 : order[l] = x}
<1>5. 0 \in T
  BY <1>1 DEF Reaches
<1>6. ASSUME NEW k \in Nat, k \in T PROVE k + 1 \in T
  <2> SUFFICES ASSUME k + 1 <= n, NEW x \in r[k + 1] PROVE \E l \in 1 .. q - 1 : order[l] = x
    OBVIOUS
  <2>1. k + 1 \in 1 .. n /\ (k + 1) - 1 = k /\ k <= n /\ k \in 0 .. n /\ k + 1 \in 0 .. n
    BY <1>2
  <2>2. x \in Nodes /\ r[k] \in SUBSET Nodes
    BY <1>1, <2>1 DEF Reaches
  <2>3. PICK y \in r[k] \cup {j} : <<y, x>> \in TrueEdges
    BY <1>1, <2>1, <2>2 DEF Reaches
  <2>4. PICK l \in 1 .. q : order[l] = y
    <3>1. CASE y = j
      BY <1>2, <1>3, <3>1
    <3>2. CASE y \in r[k]
      BY <1>2, <1>3, <1>6, <2>1, <3>2
    <3> QED  BY <3>1, <3>2
  <2>5. l \in 1 .. m /\ x \in ToSet(dependencies[order[l]])
    BY <1>2, <1>3, <2>2, <2>3, <2>4
  <2>6. PICK i \in 1 .. l - 1 : order[i] = x
    BY <1>4, <2>5
  <2> QED  BY <1>2, <1>3, <2>4, <2>6
<1>7. Nat \subseteq T
  <2> HIDE DEF T
  <2> QED  BY <1>5, <1>6, NatInduct
<1>8. PICK l \in 1 .. q - 1 : order[l] = j
  <2>1. n \in T /\ j \in r[n]
    BY <1>1, <1>2, <1>7 DEF Reaches
  <2> QED  BY <1>2, <2>1
<1> QED  BY <1>2, <1>3, <1>8

(* The edges all keep exactly when none is lost in their set and none      *)
(* begins where it ends.                                                   *)
LEMMA DistinctEdges ==
  ASSUME program \in Programs, DOMAIN Edges = {i \in DOMAIN Edges : Keeps(i)}
  PROVE  Cardinality(TrueEdges) = Len(Edges)
<1> DEFINE n == Len(Edges)
           f == [i \in 1 .. n |-> <<Edges[i][1], Edges[i][2]>>]
<1>1. /\ n \in Nat /\ DOMAIN Edges = 1 .. n
      /\ \A i \in 1 .. n : Edges[i] = <<Edges[i][1], Edges[i][2]>>
  BY ProgramFacts
<1>2. \A i \in 1 .. n : Keeps(i)
  BY <1>1
<1>3. \A i \in 1 .. n : Exists(Edges[i][1]) /\ Exists(Edges[i][2]) /\ ~Repeated(i)
  BY <1>2 DEF Keeps
<1>4. TrueEdges = {<<Edges[i][1], Edges[i][2]>> : i \in 1 .. n}
  BY <1>1, <1>3 DEF TrueEdges
<1>5. f \in Surjection(1 .. n, TrueEdges)
  BY <1>4 DEF Surjection
<1>6. f \in Injection(1 .. n, TrueEdges)
  <2>1. f \in [1 .. n -> TrueEdges]
    BY <1>4
  <2>2. ASSUME NEW i \in 1 .. n, NEW k \in 1 .. n, f[i] = f[k] PROVE i = k
    <3>1. Edges[i] = Edges[k]
      BY <1>1, <2>2
    <3>2. ~(i < k) /\ ~(k < i)
      <4>1. i < k => i \in 1 .. k - 1
        BY <1>1
      <4>2. k < i => k \in 1 .. i - 1
        BY <1>1
      <4> QED  BY <1>3, <3>1, <4>1, <4>2 DEF Repeated
    <3> QED  BY <1>1, <3>2
  <2> HIDE DEF f
  <2> QED  BY <2>1, <2>2 DEF Injection, IsInjective
<1>7. IsFiniteSet(1 .. n) /\ Cardinality(1 .. n) = n
  <2> HIDE DEF n
  <2> QED  BY <1>1, FS_Interval
<1> HIDE DEF f, n
<1>8. Cardinality(TrueEdges) = Cardinality(1 .. n)
  BY <1>5, <1>6, <1>7, FS_Surjection
<1> QED  BY <1>7, <1>8 DEF n

LEMMA EdgesKept ==
  ASSUME program \in Programs, Cardinality(TrueEdges) = Len(Edges), Acyclic
  PROVE  \A i \in DOMAIN Edges : Keeps(i)
<1> DEFINE n == Len(Edges)
           D == {k \in DOMAIN Edges : Exists(Edges[k][1]) /\ Exists(Edges[k][2])}
           f == [i \in D |-> <<Edges[i][1], Edges[i][2]>>]
<1>1. /\ n \in Nat /\ DOMAIN Edges = 1 .. n
      /\ \A i \in 1 .. n : Edges[i] = <<Edges[i][1], Edges[i][2]>>
  BY ProgramFacts
<1>2. D \in SUBSET (1 .. n) /\ f \in Surjection(D, TrueEdges)
  BY <1>1 DEF Surjection, TrueEdges
<1>3. IsFiniteSet(1 .. n) /\ Cardinality(1 .. n) = n
  <2> HIDE DEF n
  <2> QED  BY <1>1, FS_Interval
<1>4. /\ IsFiniteSet(D) /\ Cardinality(D) <= n /\ Cardinality(D) \in Nat
      /\ n = Cardinality(D) => D = 1 .. n
  <2> HIDE DEF D, n
  <2> QED  BY <1>2, <1>3, FS_Subset, FS_CardinalityType
<1>5. /\ n <= Cardinality(D)
      /\ n = Cardinality(D) => f \in Injection(D, TrueEdges)
  <2>1. Cardinality(TrueEdges) = n
    OBVIOUS
  <2> HIDE DEF D, f, n
  <2> QED  BY <1>2, <1>4, <2>1, FS_Surjection
<1>6. D = 1 .. n /\ f \in Injection(D, TrueEdges)
  <2> HIDE DEF D, f, n
  <2> QED  BY <1>1, <1>4, <1>5
<1>7. \A i \in 1 .. n : Exists(Edges[i][1]) /\ Exists(Edges[i][2])
  BY <1>6
<1>8. ASSUME NEW i \in 1 .. n, Repeated(i) PROVE FALSE
  <2>1. PICK k \in 1 .. i - 1 : Edges[k] = Edges[i]
    BY <1>8 DEF Repeated
  <2>2. k \in D /\ i \in D /\ k # i
    <3>1. k \in 1 .. n /\ k # i
      BY <1>1
    <3> HIDE DEF D, f, n
    <3> QED  BY <1>6, <3>1
  <2>3. f[k] = f[i]
    BY <2>1, <2>2
  <2> HIDE DEF D, f
  <2> QED  BY <1>6, <2>2, <2>3 DEF Injection, IsInjective
<1>9. ASSUME NEW i \in 1 .. n, Edges[i][1] = Edges[i][2] PROVE FALSE
  <2>1. <<Edges[i][1], Edges[i][1]>> \in TrueEdges
    BY <1>1, <1>7, <1>9 DEF TrueEdges
  <2> QED  BY <1>7, <2>1, SelfRefutes DEF Exists
<1> QED  BY <1>1, <1>7, <1>8, <1>9 DEF Keeps

(* When every edge is used, the order refutes every cycle.                 *)
LEMMA OrderedAcyclic ==
  ASSUME BuildInv, main = "ordered", cycles = {}, Used = DOMAIN Edges
  PROVE  Acyclic
<1>1. /\ program \in Programs /\ order \in Seq(Nodes)
      /\ IsInjective(order) /\ ToSet(order) = Nodes /\ Sorted
  BY DEF BuildInv, ControlOK, SearchTypeOK, SettledOK, Settled
<1>2. ASSUME NEW y \in Nodes, NEW x \in Nodes, <<y, x>> \in TrueEdges
      PROVE  x \in ToSet(dependencies[y])
  <2>1. PICK i \in DOMAIN Edges : <<y, x>> = <<Edges[i][1], Edges[i][2]>>
    BY <1>2 DEF TrueEdges
  <2>2. Edges[i] = <<y, x>>
    BY <1>1, <2>1, ProgramFacts
  <2>3. i \in Used
    OBVIOUS
  <2> QED  BY <2>2, <2>3 DEF BuildInv, ListsOK, Listed
<1> QED  BY <1>1, <1>2, SortedAcyclic

(* Validate finds an error exactly when the declared graph has one: an     *)
(* unknown node, a repeated edge, a node that depends on itself, or a      *)
(* cycle however long; the same holds of the exception of TimedJobGraph.   *)
(* Every path that Validate reports can be followed around in the graph.   *)
THEOREM ValidationExact == Spec => []ValidationIsExact
<1>1. BuildInv => ValidationIsExact
  <2> SUFFICES ASSUME BuildInv PROVE ValidationIsExact
    OBVIOUS
  <2>1. program \in Programs
    BY DEF BuildInv, ControlOK
  <2>2. \A p \in cycles : IsCycle(p)
    BY DEF BuildInv, CycleOK
  <2>3. ASSUME Class = "ValidatedJobGraph", main = "ordered", IsValid
        PROVE  Acyclic /\ Cardinality(TrueEdges) = Len(Edges)
    <3>1. badEdges = {} /\ cycles = {} /\ badEdges = DOMAIN Edges \ Used
      BY <2>3 DEF IsValid, BuildInv, ControlOK, Listed
    <3>2. Used = {i \in DOMAIN Edges : Keeps(i)}
      BY <2>3 DEF Used
    <3>3. Used = DOMAIN Edges
      BY <3>1, <3>2
    <3> QED  BY <2>1, <2>3, <3>1, <3>2, <3>3, OrderedAcyclic, DistinctEdges
  <2>4. ASSUME Class = "ValidatedJobGraph", main = "ordered",
               Acyclic, Cardinality(TrueEdges) = Len(Edges)
        PROVE  IsValid
    <3>1. badEdges = DOMAIN Edges \ Used /\ Used = {i \in DOMAIN Edges : Keeps(i)}
      BY <2>4 DEF BuildInv, ControlOK, Listed, Used
    <3>2. badEdges = {}
      BY <2>1, <2>4, <3>1, EdgesKept
    <3>3. cycles = {}
      BY <2>1, <2>2, <2>4, CycleRefutes
    <3> QED  BY <3>2, <3>3 DEF IsValid
  <2>5. Class = "TimedJobGraph" /\ main = "threw" => ~Acyclic
    <3> SUFFICES ASSUME Class = "TimedJobGraph", main = "threw" PROVE ~Acyclic
      OBVIOUS
    <3>1. PICK p : IsCycle(p)
      BY DEF BuildInv, CycleOK
    <3> QED  BY <2>1, <3>1, CycleRefutes
  <2>6. Class = "TimedJobGraph" /\ main = "ordered" => Acyclic
    <3> SUFFICES ASSUME Class = "TimedJobGraph", main = "ordered" PROVE Acyclic
      OBVIOUS
    <3>1. cycles = {} /\ Used = DOMAIN Edges
      BY DEF BuildInv, ControlOK, Used
    <3> QED  BY <3>1, OrderedAcyclic
  <2>7. ASSUME NEW p \in cycles
        PROVE  /\ Len(p) > 1
               /\ \A k \in DOMAIN p :
                    <<p[k], p[IF k = Len(p) THEN 1 ELSE k + 1]>> \in TrueEdges
    <3>1. /\ p \in Seq(Nodes) /\ Len(p) > 1
          /\ \A k \in 1 .. Len(p) - 1 : <<p[k], p[k + 1]>> \in TrueEdges
          /\ <<p[Len(p)], p[1]>> \in TrueEdges
      BY <2>2 DEF IsCycle
    <3>2. ASSUME NEW k \in DOMAIN p, k # Len(p) PROVE k \in 1 .. Len(p) - 1
      BY <3>1, <3>2
    <3> QED  BY <3>1, <3>2
  <2> QED  BY <2>3, <2>4, <2>5, <2>6, <2>7 DEF ValidationIsExact
<1> QED  BY <1>1, BuildInvariance, PTL

-----------------------------------------------------------------------------
(* The run: types.                                                         *)

States == {"new", "waiting", "queued", "running", "done"}
Steps  == {"none", "entered", "body", "recorded"}
Times  == 0 .. Horizon
RecordSet == [status : {"Pending", "Running", "Succeeded", "Failed", "Canceled"},
              readyAt : Times, startedAt : Times, finishedAt : Times]

TypeInv ==
  /\ TypeOK
  /\ DOMAIN deps = Jobs
  /\ startedAt \in [Nodes -> Times]

LEMMA RunFacts ==
  ASSUME BuildInv
  PROVE  /\ program \in Programs /\ program.n \in Nat /\ program.n \in 1 .. MaxNodes
         /\ MaxNodes \in Nat /\ Horizon \in Nat /\ 1 <= Horizon
         /\ \A j \in Nodes : j \in Jobs /\ j \in Nat \ {0}
         /\ 1 .. Horizon \in SUBSET Times /\ 0 \in Times
         /\ None \notin {"thrown", "canceled"}
         /\ dependencies \in [Nodes -> Seq(Nodes)]
<1>1. program \in Programs /\ dependencies \in [Nodes -> Seq(Nodes)]
  BY DEF BuildInv, ControlOK, ListsOK
<1>2. program.n \in Nat /\ program.n \in 1 .. MaxNodes /\ MaxNodes \in Nat
  BY <1>1, ProgramFacts
<1>3. Horizon \in Nat /\ 1 <= Horizon /\ None \notin {"thrown", "canceled"}
  BY RunAssumption DEF GraphStart
<1> QED  BY <1>1, <1>2, <1>3 DEF Nodes, Jobs, Times

(* The end of the last dependency is a time on the clock.                  *)
LEMMA LatestFinish ==
  ASSUME BuildInv, TypeInv, NEW j \in Nodes
  PROVE  LatestDependencyFinish(records, dependencies[j]) \in Times
<1> DEFINE S == {GraphStart} \cup {records[d].finishedAt : d \in ToSet(dependencies[j])}
<1>1. Horizon \in Nat /\ 1 <= Horizon /\ dependencies[j] \in Seq(Nodes)
  BY RunFacts
<1>2. ToSet(dependencies[j]) \in SUBSET Nodes
  BY <1>1 DEF ToSet
<1>3. records \in [Nodes -> RecordSet]
  BY DEF TypeInv, TypeOK, RecordSet, Times
<1>4. \A d \in Nodes : records[d].finishedAt \in 0 .. Horizon
  BY <1>3 DEF RecordSet, Times
<1>5. S \in SUBSET Nat /\ S # {} /\ \A x \in S : x <= Horizon
  BY <1>1, <1>2, <1>4 DEF GraphStart
<1>6. Max(S) \in S
  <2> HIDE DEF S
  <2> QED  BY <1>1, <1>5, MaxIs
<1>7. Max(S) \in 0 .. Horizon
  BY <1>1, <1>5, <1>6
<1> QED  BY <1>7 DEF LatestDependencyFinish, Times

LEMMA TypeInit == RunInit => TypeInv
<1> SUFFICES ASSUME RunInit PROVE TypeInv
  OBVIOUS
<1>1. BuildInv
  BY BuildInit
<1>2. Horizon \in Nat /\ 1 <= Horizon
  BY <1>1, RunFacts
<1> QED  BY <1>2 DEF RunInit, Init, Pool!Init, TypeInv, TypeOK, GraphStart, Times

(* What a step leaves alone.                                               *)
LEMMA StepFrame ==
  ASSUME [Next]_vars
  PROVE  /\ program' = program /\ Nodes' = Nodes /\ Class' = Class /\ Edges' = Edges
         /\ Recording' = Recording /\ Escaping' = Escaping
         /\ \A j : Ended(j)' = Ended(j)
         /\ main \notin {"declare", "collect", "search"} =>
              /\ dependencies' = dependencies /\ order' = order
              /\ badEdges' = badEdges /\ cycles' = cycles
<1>1. program' = program /\ (main \notin {"declare", "collect", "search"} =>
              /\ dependencies' = dependencies /\ order' = order
              /\ badEdges' = badEdges /\ cycles' = cycles)
  <2>1. CASE Build
    BY <2>1 DEF Build, Declare, ValidateAndBuildAdjacency, VisitRoot, VisitDependency, VisitReturns, Leave,
         SearchEnds, searchVars
  <2>2. CASE BeginRun \/ DestroyPool
    BY <2>2 DEF BeginRun, DestroyPool, searchVars
  <2>3. CASE UNCHANGED vars
    BY <2>3 DEF vars, buildVars, searchVars
  <2>4. CASE SubmitNode \/ Wait \/ Get \/ WaitAll \/ ReportTimed \/ ReportFailure \/ CopyRecords \/ Tick
    BY <2>4 DEF SubmitNode, Wait, Get, WaitAll, ReportTimed, ReportFailure, CopyRecords, Tick, buildVars, searchVars
  <2>5. ASSUME NEW j \in Nodes, JobStep(j) PROVE buildVars' = buildVars
    BY <2>5 DEF JobStep, Resolve, EnterJob, CallJob, LeaveJob, MeasuredJobRuns, MeasuredJobEnds,
         RecordExecution, TracedJobRuns, TracedJobEnds, FulfilFuture, SubmitChild, Record
  <2> QED  BY <2>1, <2>2, <2>3, <2>4, <2>5 DEF Next, MainStep, buildVars, searchVars
<1> QED  BY <1>1 DEF Nodes, Class, Edges, Recording, Escaping, Ended

(* The wrapped job of node j writes its record and goes a step on.         *)
LEMMA RecordTypes ==
  ASSUME BuildInv, TypeInv, [Next]_vars, NEW j, NEW from, NEW to \in Steps, NEW r \in RecordSet,
         Record(j, from, to, r)
  PROVE  TypeInv'
<1>1. /\ step' = [step EXCEPT ![j] = to] /\ records' = [records EXCEPT ![j] = r]
      /\ main' = main /\ phase' = phase /\ outcome' = outcome /\ now' = now
      /\ deps' = deps /\ successOnly' = successOnly /\ startedAt' = startedAt
      /\ Nodes' = Nodes
  BY StepFrame DEF Record, buildVars, poolVars
<1>2. step \in [Nodes -> Steps] /\ records \in [Nodes -> RecordSet]
  BY DEF TypeInv, TypeOK, Steps, RecordSet, Times
<1>3. step' \in [Nodes -> Steps] /\ records' \in [Nodes -> RecordSet]
  BY <1>1, <1>2
<1> QED  BY <1>1, <1>3 DEF TypeInv, TypeOK, Steps, RecordSet, Times

LEMMA RecordStepTypes ==
  ASSUME BuildInv, TypeInv, [Next]_vars, NEW j \in Nodes,
         \/ MeasuredJobRuns(j) \/ MeasuredJobEnds(j) \/ RecordExecution(j)
         \/ TracedJobRuns(j) \/ TracedJobEnds(j) \/ FulfilFuture(j)
  PROVE  TypeInv'
<1>1. /\ records \in [Nodes -> RecordSet] /\ records[j] \in RecordSet
      /\ now \in Times /\ startedAt[j] \in Times
      /\ LatestDependencyFinish(records, dependencies[j]) \in Times
      /\ Ended(j) \in {"Succeeded", "Failed"}
  <2>1. now \in GraphStart .. Horizon /\ Horizon \in Nat
    BY RunFacts DEF TypeInv, TypeOK
  <2>2. now \in Times
    BY <2>1 DEF GraphStart, Times
  <2> QED  BY <2>2, LatestFinish DEF TypeInv, TypeOK, RecordSet, Times, Ended
<1>2. \A s \in {"Pending", "Running", "Succeeded", "Failed", "Canceled"}, a, b, c \in Times :
        [records[j] EXCEPT !.status = s, !.readyAt = a, !.startedAt = b, !.finishedAt = c] \in RecordSet
  BY <1>1 DEF RecordSet
<1>3. /\ "body" \in Steps /\ "recorded" \in Steps
  BY DEF Steps
<1>4. CASE MeasuredJobRuns(j)
  <2>1. [records[j] EXCEPT !.status = "Running", !.startedAt = startedAt[j],
                           !.readyAt = LatestDependencyFinish(records, dependencies[j])] \in RecordSet
    BY <1>1 DEF RecordSet
  <2> QED  BY <1>3, <1>4, <2>1, RecordTypes DEF MeasuredJobRuns
<1>5. CASE MeasuredJobEnds(j) \/ TracedJobEnds(j)
  <2>1. [records[j] EXCEPT !.status = Ended(j), !.finishedAt = now] \in RecordSet
    BY <1>1 DEF RecordSet
  <2> QED  BY <1>3, <1>5, <2>1, RecordTypes DEF MeasuredJobEnds, TracedJobEnds
<1>6. CASE RecordExecution(j)
  <2>1. PICK t \in startedAt[j] .. now :
               Record(j, "body", "recorded",
                      [records[j] EXCEPT !.status = Ended(j), !.startedAt = startedAt[j], !.finishedAt = t])
    BY <1>6 DEF RecordExecution
  <2>2. t \in Times
    BY <1>1, RunFacts DEF Times
  <2>3. [records[j] EXCEPT !.status = Ended(j), !.startedAt = startedAt[j], !.finishedAt = t] \in RecordSet
    BY <1>1, <2>2 DEF RecordSet
  <2> QED  BY <1>3, <2>1, <2>3, RecordTypes
<1>7. CASE TracedJobRuns(j)
  <2>1. [records[j] EXCEPT !.status = "Running", !.startedAt = now] \in RecordSet
    BY <1>1 DEF RecordSet
  <2> QED  BY <1>3, <1>7, <2>1, RecordTypes DEF TracedJobRuns
<1>8. CASE FulfilFuture(j)
  BY <1>1, <1>3, <1>8, RecordTypes DEF FulfilFuture
<1> QED  BY <1>4, <1>5, <1>6, <1>7, <1>8

LEMMA ReportTypes ==
  ASSUME BuildInv, TypeInv, [Next]_vars, ReportTimed \/ ReportFailure
  PROVE  TypeInv'
<1> DEFINE id == Argument
<1>1. /\ main' = main /\ phase' = phase /\ outcome' = outcome /\ now' = now /\ step' = step
      /\ deps' = deps /\ successOnly' = successOnly /\ startedAt' = startedAt
      /\ Nodes' = Nodes
  BY StepFrame DEF ReportTimed, ReportFailure, buildVars, poolVars
<1>2. records \in [Nodes -> RecordSet]
  BY DEF TypeInv, TypeOK, RecordSet, Times
<1>3. \/ records' = records
      \/ records' = [records EXCEPT ![id].status = "Canceled", ![id].readyAt = CanceledAt(id),
                                    ![id].finishedAt = CanceledAt(id)]
      \/ records' = [records EXCEPT ![id].status = "Canceled", ![id].finishedAt = CanceledAt(id)]
  BY DEF ReportTimed, ReportFailure
<1>4. records' \in [Nodes -> RecordSet]
  <2>1. CASE id \in Nodes
    <3>1. CanceledAt(id) \in Times
      BY <2>1, LatestFinish DEF CanceledAt
    <3> HIDE DEF id
    <3> QED  BY <1>2, <1>3, <2>1, <3>1 DEF RecordSet
  <2>2. CASE id \notin Nodes
    <3> HIDE DEF id
    <3>1. records' = records
      BY <1>2, <1>3, <2>2
    <3> QED  BY <1>2, <3>1
  <2> QED  BY <2>1, <2>2
<1> QED  BY <1>1, <1>4 DEF TypeInv, TypeOK, Steps, RecordSet, Times

LEMMA PoolTypes ==
  ASSUME BuildInv, TypeInv, [Next]_vars, NEW j,
         \/ Pool!Queue(j) \/ Pool!Cancel(j) \/ Pool!Start(j)
         \/ (\E result \in {None, "thrown"} : Pool!Finish(j, result))
         \/ (\E after, needsSuccess : Pool!Submit(j, after, needsSuccess))
  PROVE  /\ phase' \in [Jobs -> States]
         /\ outcome' \in [Jobs -> {None, "thrown", "canceled"}]
         /\ DOMAIN deps' = Jobs
<1>1. /\ phase \in [Jobs -> States] /\ outcome \in [Jobs -> {None, "thrown", "canceled"}]
      /\ DOMAIN deps = Jobs
  BY DEF TypeInv, TypeOK, States
<1>2. CASE Pool!Queue(j) \/ Pool!Start(j)
  BY <1>1, <1>2 DEF Pool!Queue, Pool!Start, Pool!Move, States
<1>3. CASE Pool!Cancel(j)
  BY <1>1, <1>3 DEF Pool!Cancel, Pool!Move, States
<1>4. ASSUME NEW result \in {None, "thrown"}, Pool!Finish(j, result)
      PROVE  /\ phase' \in [Jobs -> States] /\ outcome' \in [Jobs -> {None, "thrown", "canceled"}]
             /\ DOMAIN deps' = Jobs
  BY <1>1, <1>4 DEF Pool!Finish, Pool!Move, States
<1>5. ASSUME NEW after, NEW needsSuccess, Pool!Submit(j, after, needsSuccess)
      PROVE  /\ phase' \in [Jobs -> States] /\ outcome' \in [Jobs -> {None, "thrown", "canceled"}]
             /\ DOMAIN deps' = Jobs
  BY <1>1, <1>5 DEF Pool!Submit, Pool!Move, States
<1> QED  BY <1>2, <1>3, <1>4, <1>5

LEMMA TypeNext == BuildInv /\ TypeInv /\ [Next]_vars => TypeInv'
<1> SUFFICES ASSUME BuildInv, TypeInv, [Next]_vars PROVE TypeInv'
  OBVIOUS
<1>1. /\ Nodes' = Nodes /\ main \in {"declare", "collect", "refused"} \cup Listed
      /\ Horizon \in Nat
      /\ phase \in [Jobs -> States] /\ outcome \in [Jobs -> {None, "thrown", "canceled"}]
      /\ now \in GraphStart .. Horizon /\ step \in [Nodes -> Steps] /\ records \in [Nodes -> RecordSet]
      /\ DOMAIN deps = Jobs /\ startedAt \in [Nodes -> Times]
  BY StepFrame, RunFacts DEF TypeInv, TypeOK, States, Steps, RecordSet, Times, BuildInv, ControlOK
<1>2. main' \in {"declare", "collect", "refused"} \cup Listed
  <2>1. BuildInv'
    BY BuildNext
  <2> QED  BY <2>1 DEF BuildInv, ControlOK, Listed
<1> DEFINE Typed == /\ phase' \in [Jobs -> States] /\ outcome' \in [Jobs -> {None, "thrown", "canceled"}]
                    /\ now' \in GraphStart .. Horizon /\ step' \in [Nodes -> Steps]
                    /\ records' \in [Nodes -> RecordSet]
                    /\ DOMAIN deps' = Jobs /\ startedAt' \in [Nodes -> Times]
<1>3. SUFFICES Typed
  BY <1>1, <1>2 DEF TypeInv, TypeOK, States, Steps, RecordSet, Times, Listed
<1> DEFINE Rest == /\ now' = now /\ step' = step /\ records' = records /\ startedAt' = startedAt
<1>4. CASE Build /\ UNCHANGED <<script, poolVars, helper, now, recordVars, report>>
  BY <1>1, <1>4 DEF poolVars, recordVars
<1>5. CASE BeginRun \/ Wait \/ Get \/ WaitAll \/ CopyRecords
  BY <1>1, <1>5 DEF BeginRun, Wait, Get, WaitAll, CopyRecords, poolVars, recordVars
<1>6. CASE UNCHANGED vars
  BY <1>1, <1>6 DEF vars, poolVars, recordVars
<1>7. CASE SubmitNode
  <2>1. Rest
    BY <1>7 DEF SubmitNode, recordVars
  <2>2. \E after, needsSuccess : Pool!Submit(Argument, after, needsSuccess)
    BY <1>7 DEF SubmitNode
  <2> QED  BY <1>1, <2>1, <2>2, PoolTypes
<1>8. CASE ReportTimed \/ ReportFailure
  BY <1>1, <1>8, ReportTypes DEF TypeInv, TypeOK, States, Steps, RecordSet, Times
<1>9. CASE DestroyPool
  BY <1>1, <1>9 DEF DestroyPool, Pool!Close, recordVars
<1>10. CASE Tick
  BY <1>1, <1>10 DEF Tick, poolVars, recordVars, GraphStart
<1>11. ASSUME NEW j \in Nodes, JobStep(j) PROVE Typed
  <2>1. CASE Resolve(j)
    BY <1>1, <2>1, PoolTypes DEF Resolve, recordVars
  <2>2. CASE LeaveJob(j)
    <3>1. \E result \in {None, "thrown"} : Pool!Finish(j, result)
      BY <2>2 DEF LeaveJob
    <3> QED  BY <1>1, <2>2, <3>1, PoolTypes DEF LeaveJob, recordVars
  <2>3. CASE EnterJob(j)
    <3>1. PICK caller : CallJob(j, caller)
      BY <2>3 DEF EnterJob
    <3>2. /\ Pool!Start(j) /\ now' = now /\ records' = records
          /\ step' = [step EXCEPT ![j] = IF Class \in {"TimedJobGraph", "FailureCancelGraph"} THEN "entered"
                                         ELSE "body"]
          /\ startedAt' = [startedAt EXCEPT ![j] = IF Class \in {"TimedJobGraph", "TraceJobGraph"} THEN now ELSE 0]
      BY <3>1 DEF CallJob
    <3>3. step' \in [Nodes -> Steps]
      BY <1>1, <3>2 DEF Steps
    <3>4. now \in Times /\ 0 \in Times
      BY <1>1 DEF GraphStart, Times
    <3>5. startedAt' \in [Nodes -> Times]
      BY <1>1, <3>2, <3>4
    <3> QED  BY <1>1, <3>2, <3>3, <3>5, PoolTypes
  <2>4. ASSUME NEW child \in Nodes, SubmitChild(j, child) PROVE Typed
    <3>1. Rest
      BY <2>4 DEF SubmitChild, recordVars
    <3>2. \E after, needsSuccess : Pool!Submit(child, after, needsSuccess)
      BY <2>4 DEF SubmitChild
    <3> QED  BY <1>1, <3>1, <3>2, PoolTypes
  <2>5. CASE \/ MeasuredJobRuns(j) \/ MeasuredJobEnds(j) \/ RecordExecution(j)
             \/ TracedJobRuns(j) \/ TracedJobEnds(j) \/ FulfilFuture(j)
    BY <1>1, <2>5, RecordStepTypes DEF TypeInv, TypeOK, States, Steps, RecordSet, Times
  <2> QED  BY <1>11, <2>1, <2>2, <2>3, <2>4, <2>5 DEF JobStep
<1> QED  BY <1>4, <1>5, <1>6, <1>7, <1>8, <1>9, <1>10, <1>11 DEF Next, MainStep

(* The state of a run is well typed: no clock reading beyond its bound, no *)
(* status or outcome but those the classes report.                         *)
THEOREM TypeCorrect == Spec => []TypeOK
<1>1. RunInit => TypeInv
  BY TypeInit
<1>2. BuildInv /\ TypeInv /\ [Next]_vars => TypeInv'
  BY TypeNext
<1>3. TypeInv => TypeOK
  BY DEF TypeInv
<1> QED  BY <1>1, <1>2, <1>3, BuildInvariance, PTL DEF Spec

-----------------------------------------------------------------------------
(* The calls of main, from the first that a class's Run makes to the last  *)
(* of the program's own.                                                   *)

Call == ({"submit", "wait", "get", "reportTimed", "reportFailure"} \X Nodes) \cup ({"waitAll", "copy"} \X {0})
Made == Len(Full) - Len(script)

(* The call by which Run of a recording class settles a node's record.     *)
Closing == IF Class = "TimedJobGraph" THEN "reportTimed"
           ELSE IF Class = "FailureCancelGraph" THEN "reportFailure" ELSE "wait"

LEMMA CallsIs ==
  ASSUME NEW op \in {"submit", "wait", "reportTimed", "reportFailure"}, NEW list \in Seq(Nodes)
  PROVE  /\ Calls(op, list) \in Seq(Call) /\ Len(Calls(op, list)) = Len(list)
         /\ \A k \in 1 .. Len(list) : Calls(op, list)[k] = <<op, list[k]>>
<1>1. Len(list) \in Nat /\ DOMAIN list = 1 .. Len(list) /\ \A k \in 1 .. Len(list) : list[k] \in Nodes
  OBVIOUS
<1>2. \A k \in 1 .. Len(list) : <<op, list[k]>> \in Call
  BY <1>1 DEF Call
<1>3. Calls(op, list) = [k \in 1 .. Len(list) |-> <<op, list[k]>>]
  BY <1>1 DEF Calls
<1> QED  BY <1>1, <1>2, <1>3

LEMMA ConcatIs ==
  ASSUME NEW s \in Seq(Call), NEW t \in Seq(Call)
  PROVE  /\ s \o t \in Seq(Call) /\ Len(s \o t) = Len(s) + Len(t)
         /\ Len(s) \in Nat /\ Len(t) \in Nat
         /\ \A k \in 1 .. Len(s) : (s \o t)[k] = s[k]
         /\ \A k \in 1 .. Len(t) : (s \o t)[Len(s) + k] = t[k]
<1>1. Len(s) \in Nat /\ Len(t) \in Nat
  OBVIOUS
<1>2. s \o t \in Seq(Call) /\ Len(s \o t) = Len(s) + Len(t)
  OBVIOUS
<1>3. \A k \in 1 .. Len(s) : (s \o t)[k] = s[k]
  OBVIOUS
<1>4. ASSUME NEW k \in 1 .. Len(t) PROVE (s \o t)[Len(s) + k] = t[k]
  <2>1. Len(s) + k \in 1 .. Len(s) + Len(t) /\ Len(s) + k > Len(s) /\ (Len(s) + k) - Len(s) = k
    BY <1>1
  <2> QED  BY <2>1
<1> QED  BY <1>1, <1>2, <1>3, <1>4

(* Run submits the order, settles it, and copies the records last.         *)
RunShape ==
  /\ Run \in Seq(Call)
  /\ Class = "ThreadPool" => Len(Run) = 0
  /\ Class # "ThreadPool" =>
       Len(Run) >= Len(order) /\ \A k \in 1 .. Len(order) : Run[k] = <<"submit", order[k]>>
  /\ \A k \in 1 .. Len(Run) : /\ Run[k][1] = "submit" => k <= Len(order)
                              /\ Run[k][1] = "copy" => k = Len(Run) /\ Recording
                              /\ Run[k][1] \in {"reportTimed", "reportFailure"} =>
                                   Recording /\ Len(order) < k /\ k <= 2 * Len(order)
  /\ Recording =>
       /\ Len(Run) > 2 * Len(order)
       /\ \A i \in 1 .. Len(order) : Run[Len(order) + i] = <<Closing, order[i]>>

LEMMA RunIs ==
  ASSUME BuildInv
  PROVE  RunShape
<1> DEFINE n == Len(order)
           Submits == Calls("submit", order)
<1>1. /\ order \in Seq(Nodes) /\ n \in Nat
      /\ Class \in {"ThreadPool", "JobGraphBuilder", "ValidatedJobGraph", "TimedJobGraph",
                    "TraceJobGraph", "FailureCancelGraph"}
  BY BuildAssumption DEF BuildInv, ControlOK, SearchTypeOK, Class
<1>2. /\ Submits \in Seq(Call) /\ Len(Submits) = n /\ \A k \in 1 .. n : Submits[k] = <<"submit", order[k]>>
  BY <1>1, CallsIs
<1> HIDE DEF Submits
<1>3. CASE Class = "ThreadPool"
  <2>1. Run = <<>>
    BY <1>3 DEF Run
  <2> QED  BY <1>3, <2>1 DEF RunShape, Recording
<1>4. CASE Class \in {"JobGraphBuilder", "ValidatedJobGraph"}
  <2>1. Run = Submits
    BY <1>4 DEF Run, RunBuilder, RunValidated, Submits
  <2> QED  BY <1>1, <1>2, <1>4, <2>1 DEF RunShape, Recording
<1>5. CASE Recording
  <2> DEFINE Settles == Calls(Closing, order)
  <2>1. /\ Settles \in Seq(Call) /\ Len(Settles) = n /\ \A k \in 1 .. n : Settles[k] = <<Closing, order[k]>>
    <3>1. Closing \in {"wait", "reportTimed", "reportFailure"}
      BY DEF Closing
    <3> QED  BY <1>1, <3>1, CallsIs
  <2>2. PICK ends \in Seq(Call) :
          /\ Run = (Submits \o Settles) \o ends
          /\ Len(ends) \in Nat \ {0}
          /\ \A k \in 1 .. Len(ends) : /\ ends[k][1] \in {"waitAll", "copy"}
                                       /\ ends[k][1] = "copy" => k = Len(ends)
    <3>1. <<"copy", 0>> \in Call /\ <<"waitAll", 0>> \in Call
      BY DEF Call
    <3>2. CASE Class = "FailureCancelGraph"
      <4> DEFINE tail == <<<<"waitAll", 0>>, <<"copy", 0>>>>
      <4>1. Run = Submits \o Settles \o tail
        BY <3>2 DEF Run, RunFailure, Submits, Closing
      <4>2. tail \in Seq(Call) /\ Len(tail) = 2 /\ tail[1] = <<"waitAll", 0>> /\ tail[2] = <<"copy", 0>>
        BY <3>1
      <4>3. \A k \in 1 .. 2 : k = 1 \/ k = 2
        OBVIOUS
      <4>4. tail[1][1] = "waitAll" /\ tail[2][1] = "copy"
        BY <4>2
      <4> HIDE DEF tail, Settles
      <4>5. /\ Len(tail) \in Nat \ {0}
            /\ \A k \in 1 .. Len(tail) : /\ tail[k][1] \in {"waitAll", "copy"}
                                         /\ tail[k][1] = "copy" => k = Len(tail)
        BY <4>2, <4>3, <4>4
      <4> QED  BY <4>1, <4>2, <4>5
    <3>3. CASE Class # "FailureCancelGraph"
      <4> DEFINE tail == <<<<"copy", 0>>>>
      <4>1. Run = Submits \o Settles \o tail
        BY <1>5, <3>3 DEF Run, RunTimed, RunTrace, Submits, Closing, Recording
      <4>2. tail \in Seq(Call) /\ Len(tail) = 1 /\ tail[1] = <<"copy", 0>>
        BY <3>1
      <4>3. \A k \in 1 .. 1 : k = 1
        OBVIOUS
      <4>4. tail[1][1] = "copy"
        BY <4>2
      <4> HIDE DEF tail, Settles
      <4>5. /\ Len(tail) \in Nat \ {0}
            /\ \A k \in 1 .. Len(tail) : /\ tail[k][1] \in {"waitAll", "copy"}
                                         /\ tail[k][1] = "copy" => k = Len(tail)
        BY <4>2, <4>3, <4>4
      <4> QED  BY <4>1, <4>2, <4>5
    <3> QED  BY <3>2, <3>3
  <2> HIDE DEF Settles
  <2>3. PICK both : both = Submits \o Settles
    OBVIOUS
  <2>4. /\ both \in Seq(Call) /\ Len(both) = n + n
        /\ \A k \in 1 .. n : both[k] = <<"submit", order[k]>>
        /\ \A k \in 1 .. n : both[n + k] = <<Closing, order[k]>>
    <3>1. /\ both \in Seq(Call) /\ Len(both) = Len(Submits) + Len(Settles)
          /\ \A k \in 1 .. Len(Submits) : both[k] = Submits[k]
          /\ \A k \in 1 .. Len(Settles) : both[Len(Submits) + k] = Settles[k]
      BY <1>2, <2>1, <2>3, ConcatIs
    <3> QED  BY <1>2, <2>1, <3>1
  <2>5. /\ Run \in Seq(Call) /\ Len(Run) = Len(both) + Len(ends)
        /\ \A k \in 1 .. Len(both) : Run[k] = both[k]
        /\ \A k \in 1 .. Len(ends) : Run[Len(both) + k] = ends[k]
    <3>1. Run = both \o ends
      BY <2>2, <2>3
    <3>2. both \in Seq(Call) /\ ends \in Seq(Call)
      BY <2>2, <2>4
    <3> QED  BY <3>1, <3>2, ConcatIs
  <2>6. /\ Len(ends) \in Nat \ {0} /\ Len(Run) = n + n + Len(ends)
        /\ \A k \in 1 .. n : Run[k] = <<"submit", order[k]>> /\ Run[n + k] = <<Closing, order[k]>>
    <3>1. \A k \in 1 .. n : k \in 1 .. n + n /\ n + k \in 1 .. n + n
      BY <1>1
    <3> QED  BY <2>2, <2>4, <2>5, <3>1
  <2>7. ASSUME NEW k \in 1 .. Len(Run)
        PROVE  /\ Run[k][1] = "submit" => k <= n
               /\ Run[k][1] = "copy" => k = Len(Run)
               /\ Run[k][1] \in {"reportTimed", "reportFailure"} => n < k /\ k <= n + n
    <3>1. CASE k <= n
      <4>1. k \in 1 .. n
        BY <1>1, <3>1
      <4> QED  BY <2>6, <3>1, <4>1
    <3>2. CASE n < k /\ k <= n + n
      <4>1. k - n \in 1 .. n /\ n + (k - n) = k
        BY <1>1, <3>2
      <4>2. Run[k][1] = Closing
        <5>1. PICK i \in 1 .. n : i = k - n
          BY <4>1
        <5>2. Run[n + i] = <<Closing, order[i]>>
          BY <2>6
        <5>3. n + i = k
          BY <4>1, <5>1
        <5> QED  BY <5>2, <5>3
      <4> QED  BY <3>2, <4>2 DEF Closing
    <3>3. CASE n + n < k
      <4>1. k - (n + n) \in 1 .. Len(ends) /\ (n + n) + (k - (n + n)) = k
        BY <1>1, <2>6, <3>3
      <4>2. Run[k] = ends[k - (n + n)]
        BY <2>4, <2>5, <4>1
      <4>3. k - (n + n) = Len(ends) => k = Len(Run)
        BY <1>1, <2>6
      <4>4. PICK i \in 1 .. Len(ends) : i = k - (n + n)
        BY <4>1
      <4>5. ends[i][1] \in {"waitAll", "copy"} /\ (ends[i][1] = "copy" => i = Len(ends))
        BY <2>2
      <4> QED  BY <4>2, <4>3, <4>4, <4>5
    <3> QED  BY <1>1, <3>1, <3>2, <3>3
  <2>8. Len(Run) >= n /\ Len(Run) > 2 * n
    BY <1>1, <2>6
  <2>9. Class # "ThreadPool"
    BY <1>5 DEF Recording
  <2>10. n + n = 2 * n
    BY <1>1
  <2> QED  BY <1>5, <2>5, <2>6, <2>7, <2>8, <2>9, <2>10 DEF RunShape
<1> QED  BY <1>1, <1>3, <1>4, <1>5 DEF Recording

FullShape ==
  /\ Full \in Seq(Call) /\ Run \in Seq(Call) /\ Len(Run) <= Len(Full)
  /\ \A k \in 1 .. Len(Full) :
       /\ Full[k][1] = "copy" => k = Len(Run) /\ Recording
       /\ Full[k][1] \in {"reportTimed", "reportFailure"} => k <= Len(Run) /\ Recording
  /\ Recording => \A j \in Nodes : \E k \in 1 .. Len(Run) - 1 : Full[k] = <<Closing, j>>
  /\ \A k \in 1 .. Len(Full) : Full[k][1] = "submit" =>
       \A d \in ToSet(dependencies[Full[k][2]]) : \E l \in 1 .. k - 1 : Full[l] = <<"submit", d>>
  /\ \A k \in 1 .. Len(Full) : Full[k][1] \in {"reportTimed", "reportFailure"} =>
       /\ Full[k][1] = Closing
       /\ \A d \in ToSet(dependencies[Full[k][2]]) : \E l \in 1 .. k - 1 : Full[l] = <<Closing, d>>

(* The program's own calls come last.                                      *)
OwnCalls ==
  /\ Len(Run) \in Nat /\ Len(program.calls) \in Nat /\ DOMAIN program.calls = 1 .. Len(program.calls)
  /\ Len(Full) = Len(Run) + Len(program.calls)
  /\ \A k \in 1 .. Len(program.calls) : Full[Len(Run) + k] = program.calls[k]

LEMMA FullIs ==
  ASSUME BuildInv, cycles = {}, main \in Settled
  PROVE  FullShape /\ OwnCalls
<1> DEFINE n == Len(order)
           r == Len(Run)
           own == program.calls
<1>1. /\ program \in Programs /\ order \in Seq(Nodes) /\ n \in Nat
      /\ ToSet(order) = Nodes /\ Sorted /\ dependencies \in [Nodes -> Seq(Nodes)]
      /\ \A j, d \in Nodes : d \in ToSet(dependencies[j]) <=> \E i \in Used : Edges[i] = <<j, d>>
  <2>1. main \in Listed
    BY DEF Settled, Listed
  <2>2. program \in Programs /\ order \in Seq(Nodes) /\ n \in Nat
    BY DEF BuildInv, ControlOK, SearchTypeOK
  <2>3. ToSet(order) = Nodes /\ Sorted
    BY DEF BuildInv, SettledOK
  <2> QED  BY <2>1, <2>2, <2>3 DEF BuildInv, ListsOK
<1>2. RunShape
  BY RunIs
<1>3. /\ own \in Seq(({"submit", "wait", "get"} \X Nodes) \cup {<<"waitAll", 0>>})
      /\ \A k \in DOMAIN own : own[k][1] = "submit" =>
           /\ Class = "ThreadPool"
           /\ \A i \in DOMAIN Edges : Edges[i][1] = own[k][2] =>
                \E l \in 1 .. k - 1 : own[l] = <<"submit", Edges[i][2]>>
  BY <1>1, CallsAssumption DEF Nodes, Class, Edges
<1>4. /\ Len(own) \in Nat /\ DOMAIN own = 1 .. Len(own)
      /\ \A k \in 1 .. Len(own) : own[k] \in ({"submit", "wait", "get"} \X Nodes) \cup {<<"waitAll", 0>>}
  <2> HIDE DEF own
  <2> QED  BY <1>3
<1>5. \A k \in 1 .. Len(own) : own[k] \in Call /\ own[k][1] \in {"submit", "wait", "get", "waitAll"}
  <2> HIDE DEF own
  <2> QED  BY <1>4 DEF Call
<1>6. own \in Seq(Call)
  <2> HIDE DEF own
  <2>1. own = [k \in 1 .. Len(own) |-> own[k]]
    BY <1>3
  <2> QED  BY <1>4, <1>5, <2>1
<1>7. Run \in Seq(Call)
  BY <1>2 DEF RunShape
<1>8. Full = Run \o own
  BY DEF Full
<1>9. /\ Full \in Seq(Call) /\ Len(Full) = r + Len(own) /\ r \in Nat
      /\ \A k \in 1 .. r : Full[k] = Run[k]
      /\ \A k \in 1 .. Len(own) : Full[r + k] = own[k]
  <2> HIDE DEF own
  <2> QED  BY <1>6, <1>7, <1>8, ConcatIs
<1> HIDE DEF own
<1>10. \A k \in 1 .. Len(Full) : k > r => k - r \in 1 .. Len(own) /\ Full[k] = own[k - r]
  <2> SUFFICES ASSUME NEW k \in 1 .. Len(Full), k > r PROVE k - r \in 1 .. Len(own) /\ Full[k] = own[k - r]
    OBVIOUS
  <2>1. k - r \in 1 .. Len(own) /\ r + (k - r) = k
    BY <1>4, <1>9
  <2>2. PICK i \in 1 .. Len(own) : i = k - r /\ r + i = k
    BY <2>1
  <2>3. Full[r + i] = own[i]
    BY <1>9
  <2> QED  BY <2>2, <2>3
<1>11. ASSUME NEW k \in 1 .. Len(Full)
       PROVE  /\ Full[k][1] = "copy" => k = r /\ Recording
              /\ Full[k][1] \in {"reportTimed", "reportFailure"} => k <= r /\ Recording
  <2>1. CASE k > r
    BY <1>5, <1>10, <2>1
  <2>2. CASE ~(k > r)
    <3>1. k \in 1 .. r
      BY <1>9, <2>2
    <3> QED  BY <1>2, <1>9, <2>2, <3>1 DEF RunShape
  <2> QED  BY <2>1, <2>2
<1>12. ASSUME Recording, NEW j \in Nodes PROVE \E k \in 1 .. r - 1 : Full[k] = <<Closing, j>>
  <2>1. PICK i \in 1 .. n : order[i] = j
    BY <1>1 DEF ToSet
  <2>2. r > 2 * n /\ Run[n + i] = <<Closing, order[i]>>
    BY <1>2, <1>12 DEF RunShape
  <2>3. n + i \in 1 .. r - 1 /\ n + i \in 1 .. r
    BY <1>1, <1>9, <2>2
  <2>4. Full[n + i] = <<Closing, j>>
    BY <1>9, <2>1, <2>2, <2>3
  <2> QED  BY <2>3, <2>4
<1>13. ASSUME NEW k \in 1 .. Len(Full), Full[k][1] = "submit", NEW d \in ToSet(dependencies[Full[k][2]])
       PROVE  \E l \in 1 .. k - 1 : Full[l] = <<"submit", d>>
  <2>1. CASE k > r
    <3>1. k - r \in 1 .. Len(own) /\ Full[k] = own[k - r]
      BY <1>10, <2>1
    <3>2. PICK m \in 1 .. Len(own) : m = k - r /\ r + m = k
      BY <1>9, <3>1
    <3>3. own[m][1] = "submit" /\ Full[k] = own[m]
      BY <1>13, <3>1, <3>2
    <3>4. /\ Class = "ThreadPool"
          /\ \A i \in DOMAIN Edges : Edges[i][1] = own[m][2] =>
               \E l \in 1 .. m - 1 : own[l] = <<"submit", Edges[i][2]>>
      BY <1>3, <1>4, <3>3
    <3>5. own[m][2] \in Nodes
      BY <1>4, <3>3
    <3>6. d \in Nodes
      BY <1>1, <1>13, <3>3, <3>5 DEF ToSet
    <3>7. PICK i \in Used : Edges[i] = <<own[m][2], d>>
      BY <1>1, <1>13, <3>3, <3>5, <3>6
    <3>8. i \in DOMAIN Edges /\ Edges[i][1] = own[m][2] /\ Edges[i][2] = d
      BY <3>7 DEF Used
    <3>9. PICK l \in 1 .. m - 1 : own[l] = <<"submit", d>>
      BY <3>4, <3>8
    <3>10. l \in 1 .. Len(own) /\ r + l \in 1 .. k - 1
      BY <1>4, <1>9, <3>2
    <3> QED  BY <1>9, <3>9, <3>10
  <2>2. CASE ~(k > r)
    <3>1. k \in 1 .. r
      BY <1>9, <2>2
    <3>2. Full[k] = Run[k] /\ k <= n
      BY <1>2, <1>9, <1>13, <3>1 DEF RunShape
    <3>3. k \in 1 .. n
      BY <1>1, <3>1, <3>2
    <3>4. Class # "ThreadPool"
      BY <1>2, <3>1 DEF RunShape
    <3>5. n <= r /\ \A i \in 1 .. n : Run[i] = <<"submit", order[i]>>
      BY <1>2, <1>1, <1>9, <3>4 DEF RunShape
    <3>6. Full[k][2] = order[k]
      BY <3>2, <3>3, <3>5
    <3>7. PICK l \in 1 .. k - 1 : order[l] = d
      BY <1>1, <1>13, <3>3, <3>6 DEF Sorted
    <3>8. l \in 1 .. n /\ l \in 1 .. r
      BY <1>1, <1>9, <3>3, <3>5
    <3>9. Full[l] = <<"submit", d>>
      BY <1>9, <3>5, <3>7, <3>8
    <3> QED  BY <3>9
  <2> QED  BY <2>1, <2>2
<1>14. Full \in Seq(Call) /\ Run \in Seq(Call) /\ r <= Len(Full)
  BY <1>4, <1>7, <1>9
<1>15. ASSUME NEW k \in 1 .. Len(Full), Full[k][1] \in {"reportTimed", "reportFailure"}
       PROVE  /\ Full[k][1] = Closing
              /\ \A d \in ToSet(dependencies[Full[k][2]]) : \E l \in 1 .. k - 1 : Full[l] = <<Closing, d>>
  <2>1. k \in 1 .. r /\ Recording
    BY <1>9, <1>11, <1>15
  <2>2. Full[k] = Run[k] /\ n < k /\ k <= 2 * n
    BY <1>2, <1>9, <1>15, <2>1 DEF RunShape
  <2>3. r > 2 * n /\ \A i \in 1 .. n : Run[n + i] = <<Closing, order[i]>>
    BY <1>2, <2>1 DEF RunShape
  <2>4. PICK i \in 1 .. n : i = k - n /\ n + i = k
    <3>1. k \in Int /\ n \in Nat
      BY <1>1, <1>9
    <3> QED  BY <2>2, <3>1
  <2>5. Full[k] = <<Closing, order[i]>>
    BY <2>2, <2>3, <2>4
  <2>6. ASSUME NEW d \in ToSet(dependencies[order[i]]) PROVE \E l \in 1 .. k - 1 : Full[l] = <<Closing, d>>
    <3>1. PICK l \in 1 .. i - 1 : order[l] = d
      BY <1>1, <2>6 DEF Sorted
    <3>2. l \in 1 .. n /\ n + l \in 1 .. r /\ n + l \in 1 .. k - 1
      BY <1>1, <1>9, <2>3, <2>4
    <3>3. Full[n + l] = <<Closing, d>>
      BY <1>9, <2>3, <3>1, <3>2
    <3> QED  BY <3>2, <3>3
  <2>7. Full[k][1] = Closing /\ Full[k][2] = order[i]
    BY <2>5
  <2> QED  BY <2>6, <2>7
<1>16. OwnCalls
  BY <1>4, <1>9 DEF OwnCalls, own
<1> QED  BY <1>11, <1>12, <1>13, <1>14, <1>15, <1>16 DEF FullShape

-----------------------------------------------------------------------------
(* The run: the invariant.  A job that is not new has the dependencies and *)
(* the policy of its node, and its outcome is decided by theirs.           *)

Needs(j)  == ToSet(dependencies[j])
Failed(j) == j \in program.successOnly /\ \E d \in Needs(j) : outcome[d] # None
Verdict(j) == IF Failed(j) THEN "canceled" ELSE IF j \in Escaping THEN "thrown" ELSE None

JobOK(j) ==
  /\ phase[j] = "new" => j \notin successOnly
  /\ phase[j] # "new" => /\ deps[j] = Needs(j)
                         /\ j \in successOnly <=> j \in program.successOnly
                         /\ \A d \in Needs(j) : phase[d] # "new"
  /\ phase[j] \in {"queued", "running", "done"} => \A d \in Needs(j) : phase[d] = "done"
  /\ phase[j] \in {"queued", "running"} => ~Failed(j)
  /\ outcome[j] = IF phase[j] = "done" THEN Verdict(j) ELSE None

JobsOK == \A j \in Nodes : JobOK(j)

(* Jobs exist only in a run of a graph without a cycle.                    *)
IdleOK ==
  /\ main \notin {"run", "done"} \/ cycles # {} => \A j \in Jobs : phase[j] = "new"
  /\ main = "run" => cycles = {}

(* What is true of a call that main has made.                              *)
Passed(call) ==
  /\ call[1] = "submit" => phase[call[2]] # "new"
  /\ call[1] \in {"wait", "reportTimed", "reportFailure"} => phase[call[2]] = "done"
  /\ call[1] \in {"reportTimed", "reportFailure"} /\ outcome[call[2]] = "canceled" =>
       records[call[2]].status = "Canceled"

ScriptOK ==
  main = "run" =>
    /\ Len(script) <= Len(Full)
    /\ \A i \in 1 .. Len(script) : script[i] = Full[Made + i]
    /\ \A k \in 1 .. Made : Passed(Full[k])

ScriptType == script \in Seq(Call)

(* How far the wrapped job has come, and what its record says then.        *)
RecordOK(j) ==
  /\ phase[j] \in {"new", "waiting", "queued"} => step[j] = "none"
  /\ phase[j] = "running" => step[j] # "none"
  /\ phase[j] = "done" => step[j] = IF outcome[j] = "canceled" THEN "none" ELSE "recorded"
  /\ step[j] = "none" => records[j].status \in {"Pending", "Canceled"}
  /\ step[j] = "recorded" => records[j].status = Ended(j)

RecordsOK == Recording => \A j \in Nodes : RecordOK(j)

ReportOK ==
  report # None =>
    /\ Recording /\ report = records /\ main \in {"run", "done"}
    /\ \A j \in Nodes : /\ phase[j] = "done"
                        /\ outcome[j] = "canceled" => records[j].status = "Canceled"
    /\ main = "run" => Made >= Len(Run)

RunInv == TypeInv /\ IdleOK /\ JobsOK /\ ScriptType /\ ScriptOK /\ RecordsOK /\ ReportOK

LEMMA NeedsIs ==
  ASSUME BuildInv
  PROVE  \A j \in Nodes : \A d \in Needs(j) : d \in Nodes /\ d \in Jobs
<1>1. \A j \in Nodes : dependencies[j] \in Seq(Nodes)
  BY RunFacts
<1>2. \A j \in Nodes : ToSet(dependencies[j]) \in SUBSET Nodes
  BY <1>1 DEF ToSet
<1> QED  BY <1>2, RunFacts DEF Needs

(* One job goes a step on, the others stay as they are.                    *)
LEMMA MoveKeeps ==
  ASSUME BuildInv, TypeInv, JobsOK, program' = program, dependencies' = dependencies,
         NEW j \in Nodes, phase[j] # "done",
         NEW b \in States \ {"new"}, phase' = [phase EXCEPT ![j] = b],
         \A i \in Jobs \ {j} : /\ outcome'[i] = outcome[i] /\ deps'[i] = deps[i]
                               /\ i \in successOnly' <=> i \in successOnly,
         JobOK(j)'
  PROVE  JobsOK'
<1>1. /\ Nodes' = Nodes /\ Escaping' = Escaping /\ \A i : Needs(i)' = Needs(i)
      /\ program.successOnly' = program.successOnly
  BY DEF Nodes, Escaping, Needs
<1>2. phase \in [Jobs -> States] /\ (\A i \in Nodes : i \in Jobs)
  BY RunFacts DEF TypeInv, TypeOK, States
<1>3. phase'[j] = b /\ b # "new" /\ \A i \in Jobs \ {j} : phase'[i] = phase[i]
  BY <1>2
<1>4. ASSUME NEW i \in Nodes, i # j PROVE JobOK(i)'
  <2>1. /\ i \in Jobs \ {j} /\ phase'[i] = phase[i] /\ outcome'[i] = outcome[i] /\ deps'[i] = deps[i]
        /\ i \in successOnly' <=> i \in successOnly
    BY <1>2, <1>3, <1>4
  <2>2. \A d \in Needs(i) : d \in Jobs
    BY NeedsIs
  <2>3. JobOK(i)
    BY DEF JobsOK
  <2>4. \A d \in Needs(i) : phase[d] # "new" => phase'[d] # "new"
    BY <1>3, <2>2
  <2>5. \A d \in Needs(i) : phase[d] = "done" => phase'[d] = "done" /\ outcome'[d] = outcome[d]
    BY <1>3, <2>2
  <2>6. ASSUME phase[i] \in {"queued", "running", "done"}
        PROVE  /\ Failed(i)' <=> Failed(i)
               /\ Verdict(i)' = Verdict(i)
    <3>1. \A d \in Needs(i) : outcome'[d] = outcome[d]
      BY <2>3, <2>5, <2>6 DEF JobOK
    <3>2. Failed(i)' <=> Failed(i)
      BY <1>1, <3>1 DEF Failed
    <3> QED  BY <1>1, <3>2 DEF Verdict
  <2>7. /\ phase'[i] = "new" => i \notin successOnly'
        /\ phase'[i] # "new" => /\ deps'[i] = Needs(i)'
                                /\ i \in successOnly' <=> i \in program.successOnly'
                                /\ \A d \in Needs(i)' : phase'[d] # "new"
    BY <1>1, <2>1, <2>3, <2>4 DEF JobOK
  <2>8. phase'[i] \in {"queued", "running", "done"} => \A d \in Needs(i)' : phase'[d] = "done"
    BY <1>1, <2>1, <2>3, <2>5 DEF JobOK
  <2>9. phase'[i] \in {"queued", "running"} => ~Failed(i)'
    BY <2>1, <2>3, <2>6 DEF JobOK
  <2>10. outcome'[i] = IF phase'[i] = "done" THEN Verdict(i)' ELSE None
    BY <2>1, <2>3, <2>6 DEF JobOK
  <2> QED  BY <2>7, <2>8, <2>9, <2>10 DEF JobOK
<1> QED  BY <1>1, <1>4 DEF JobsOK

(* A job moves only while main is in its run or past it.                   *)
LEMMA StartedIs ==
  ASSUME BuildInv, TypeInv, IdleOK, NEW j \in Jobs, phase[j] # "new"
  PROVE  /\ main \in {"run", "done"} /\ cycles = {} /\ main \in Settled /\ main \in Listed
         /\ main \notin {"declare", "collect", "search"}
  BY DEF IdleOK, Settled, Listed

LEMMA SameJobs ==
  ASSUME JobsOK, program' = program, dependencies' = dependencies,
         phase' = phase, outcome' = outcome, deps' = deps, successOnly' = successOnly
  PROVE  JobsOK'
<1>1. /\ Nodes' = Nodes /\ Escaping' = Escaping /\ \A i : Needs(i)' = Needs(i)
      /\ program.successOnly' = program.successOnly
  BY DEF Nodes, Escaping, Needs
<1>2. \A i : (Failed(i)' <=> Failed(i)) /\ Verdict(i)' = Verdict(i)
  BY <1>1 DEF Failed, Verdict
<1>3. ASSUME NEW i \in Nodes PROVE JobOK(i)'
  <2>1. JobOK(i)
    BY DEF JobsOK
  <2> QED  BY <1>1, <1>2, <2>1 DEF JobOK
<1> QED  BY <1>1, <1>3 DEF JobsOK

LEMMA SubmitKeepsJobs ==
  ASSUME BuildInv, TypeInv, JobsOK, program' = program, dependencies' = dependencies,
         NEW j \in Nodes, Pool!Submit(j, Needs(j), j \in program.successOnly)
  PROVE  JobsOK'
<1>1. /\ phase \in [Jobs -> States] /\ j \in Jobs /\ DOMAIN deps = Jobs
      /\ \A d \in Needs(j) : d \in Jobs
  BY RunFacts, NeedsIs DEF TypeInv, TypeOK, States
<1>2. /\ \A d \in Needs(j) : phase[d] # "new"
      /\ phase[j] = "new" /\ phase' = [phase EXCEPT ![j] = IF Needs(j) = {} THEN "queued" ELSE "waiting"]
      /\ deps' = [deps EXCEPT ![j] = Needs(j)]
      /\ successOnly' = IF j \in program.successOnly THEN successOnly \cup {j} ELSE successOnly
      /\ outcome' = outcome
  BY DEF Pool!Submit, Pool!Move
<1>3. JobOK(j)
  BY DEF JobsOK
<1>4. /\ phase'[j] = (IF Needs(j) = {} THEN "queued" ELSE "waiting")
      /\ \A i \in Jobs \ {j} : phase'[i] = phase[i]
      /\ deps'[j] = Needs(j)
      /\ j \in successOnly' <=> j \in program.successOnly
  BY <1>1, <1>2, <1>3 DEF JobOK
<1>5. /\ \A d \in Needs(j) : phase'[d] # "new"
      /\ phase'[j] \in {"waiting", "queued"} /\ (phase'[j] = "queued" => Needs(j) = {})
  BY <1>1, <1>2, <1>4
<1>6. Needs(j)' = Needs(j) /\ program.successOnly' = program.successOnly
  BY DEF Needs
<1>7. JobOK(j)'
  <2>1. phase'[j] = "queued" => ~Failed(j)'
    BY <1>5, <1>6 DEF Failed
  <2>2. outcome'[j] = None
    BY <1>2, <1>3 DEF JobOK
  <2> QED  BY <1>4, <1>5, <1>6, <2>1, <2>2 DEF JobOK
<1>8. \A i \in Jobs \ {j} : /\ outcome'[i] = outcome[i] /\ deps'[i] = deps[i]
                            /\ i \in successOnly' <=> i \in successOnly
  BY <1>1, <1>2
<1>9. PICK b \in States \ {"new"} : b = IF Needs(j) = {} THEN "queued" ELSE "waiting"
  BY DEF States
<1> QED  BY <1>2, <1>7, <1>8, <1>9, MoveKeeps

LEMMA PoolKeepsJobs ==
  ASSUME BuildInv, TypeInv, JobsOK, program' = program, dependencies' = dependencies,
         NEW j \in Nodes,
         \/ Pool!Queue(j) \/ Pool!Cancel(j) \/ Pool!Start(j)
         \/ Pool!Finish(j, IF j \in Escaping THEN "thrown" ELSE None)
  PROVE  JobsOK'
<1>1. /\ phase \in [Jobs -> States] /\ j \in Jobs /\ outcome \in [Jobs -> {None, "thrown", "canceled"}]
      /\ \A d \in Needs(j) : d \in Jobs
  BY RunFacts, NeedsIs DEF TypeInv, TypeOK, States
<1>2. JobOK(j)
  BY DEF JobsOK
<1>3. /\ deps' = deps /\ successOnly' = successOnly
  BY DEF Pool!Queue, Pool!Cancel, Pool!Start, Pool!Finish
<1>4. PICK b \in {"queued", "running", "done"} :
        /\ phase' = [phase EXCEPT ![j] = b]
        /\ phase[j] \in {"waiting", "queued", "running"}
        /\ b = "queued" => Pool!Queue(j)
        /\ b = "running" => Pool!Start(j)
        /\ b = "done" => Pool!Cancel(j) \/ Pool!Finish(j, IF j \in Escaping THEN "thrown" ELSE None)
  BY DEF Pool!Queue, Pool!Cancel, Pool!Start, Pool!Finish, Pool!Move
<1>5. /\ phase'[j] = b /\ \A i \in Jobs \ {j} : phase'[i] = phase[i] /\ outcome'[i] = outcome[i]
  <2>1. \A i \in Jobs \ {j} : outcome'[i] = outcome[i]
    BY <1>1 DEF Pool!Queue, Pool!Cancel, Pool!Start, Pool!Finish
  <2> QED  BY <1>1, <1>4, <2>1
<1>6. /\ deps[j] = Needs(j) /\ (j \in successOnly <=> j \in program.successOnly)
  BY <1>2, <1>4 DEF JobOK
<1>7. \A d \in Needs(j) : phase[d] = "done" /\ phase[d] # phase[j] /\ d # j
  <2>1. \A d \in Needs(j) : phase[d] = "done"
    <3>1. CASE phase[j] = "waiting"
      <4>1. Pool!Ready(j)
        BY <3>1 DEF Pool!Queue, Pool!Cancel, Pool!Start, Pool!Finish, Pool!Move
      <4> QED  BY <1>6, <4>1 DEF Pool!Ready
    <3>2. CASE phase[j] # "waiting"
      BY <1>2, <1>4, <3>2 DEF JobOK
    <3> QED  BY <3>1, <3>2
  <2> QED  BY <1>4, <2>1
<1>8. /\ Needs(j)' = Needs(j) /\ program.successOnly' = program.successOnly /\ Escaping' = Escaping
      /\ \A d \in Needs(j) : d \in Jobs \ {j}
  BY <1>1, <1>7 DEF Needs, Escaping
<1>9. /\ Failed(j)' <=> Failed(j)
      /\ Failed(j) <=> Pool!DependencyFailed(j)
      /\ Verdict(j)' = Verdict(j)
  <2>1. \A d \in Needs(j) : outcome'[d] = outcome[d]
    BY <1>5, <1>8
  <2>2. Failed(j)' <=> Failed(j)
    BY <1>8, <2>1 DEF Failed
  <2> QED  BY <1>6, <1>8, <2>2 DEF Failed, Verdict, Pool!DependencyFailed
<1>10. \A d \in Needs(j)' : phase'[d] = "done"
  BY <1>5, <1>7, <1>8
<1>11. b \in {"queued", "running"} => ~Failed(j) /\ outcome'[j] = None
  <2>1. CASE b = "queued"
    BY <1>2, <1>4, <1>9, <2>1 DEF Pool!Queue, Pool!Move, JobOK
  <2>2. CASE b = "running"
    BY <1>2, <1>4, <1>9, <2>2 DEF Pool!Start, Pool!Move, JobOK
  <2> QED  BY <2>1, <2>2
<1>12. b = "done" => outcome'[j] = Verdict(j)
  <2>1. CASE Pool!Cancel(j)
    BY <1>1, <1>9, <2>1 DEF Pool!Cancel, Verdict
  <2>2. CASE Pool!Finish(j, IF j \in Escaping THEN "thrown" ELSE None)
    <3>1. phase[j] = "running"
      BY <2>2 DEF Pool!Finish, Pool!Move
    <3>2. ~Failed(j)
      BY <1>2, <3>1 DEF JobOK
    <3>3. outcome'[j] = IF j \in Escaping THEN "thrown" ELSE None
      BY <1>1, <2>2 DEF Pool!Finish
    <3> QED  BY <3>2, <3>3 DEF Verdict
  <2> QED  BY <1>4, <2>1, <2>2
<1>13. JobOK(j)'
  BY <1>3, <1>4, <1>5, <1>6, <1>8, <1>9, <1>10, <1>11, <1>12 DEF JobOK
<1>14. b \in States \ {"new"} /\ phase[j] # "done"
  BY <1>4 DEF States
<1> QED  BY <1>3, <1>4, <1>5, <1>13, <1>14, MoveKeeps

(* What has happened to a job stays.                                       *)
Kept(j) ==
  /\ phase[j] # "new" => phase'[j] # "new"
  /\ phase[j] = "done" => phase'[j] = "done" /\ outcome'[j] = outcome[j]
  /\ phase[j] = "done" /\ outcome[j] = "canceled" /\ records[j].status = "Canceled" =>
       records'[j].status = "Canceled"

LEMMA RecordStepIs ==
  ASSUME NEW j, \/ MeasuredJobRuns(j) \/ MeasuredJobEnds(j) \/ RecordExecution(j)
                \/ TracedJobRuns(j) \/ TracedJobEnds(j) \/ FulfilFuture(j)
  PROVE  /\ \E to, r : step' = [step EXCEPT ![j] = to] /\ records' = [records EXCEPT ![j] = r]
         /\ step[j] \in {"entered", "body"}
         /\ Recording \/ records' = [records EXCEPT ![j] = records[j]]
         /\ buildVars' = buildVars /\ script' = script /\ poolVars' = poolVars /\ report' = report
<1>1. CASE MeasuredJobRuns(j) \/ MeasuredJobEnds(j)
  BY <1>1 DEF MeasuredJobRuns, MeasuredJobEnds, Record, Recording
<1>2. CASE RecordExecution(j)
  BY <1>2 DEF RecordExecution, Record, Recording
<1>3. CASE TracedJobRuns(j) \/ TracedJobEnds(j)
  BY <1>3 DEF TracedJobRuns, TracedJobEnds, Record, Recording
<1>4. CASE FulfilFuture(j)
  BY <1>4 DEF FulfilFuture, Record
<1> QED  BY <1>1, <1>2, <1>3, <1>4

(* Main writes the record of a canceled node, or none.                     *)
LEMMA ReportEffect ==
  ASSUME BuildInv, TypeInv, ReportTimed \/ ReportFailure
  PROVE  /\ phase' = phase /\ outcome' = outcome /\ step' = step /\ startedAt' = startedAt /\ now' = now
         /\ buildVars' = buildVars /\ phase[Argument] = "done"
         /\ \A j \in Nodes :
              \/ records'[j] = records[j]
              \/ /\ j = Argument /\ outcome[j] = "canceled" /\ records'[j].status = "Canceled"
                 /\ records'[j].finishedAt = CanceledAt(j) /\ records'[j].startedAt = records[j].startedAt
<1>1. /\ phase' = phase /\ outcome' = outcome /\ step' = step /\ startedAt' = startedAt /\ now' = now
      /\ buildVars' = buildVars /\ phase[Argument] = "done"
  BY DEF ReportTimed, ReportFailure, poolVars
<1>2. ASSUME NEW j \in Nodes
      PROVE  \/ records'[j] = records[j]
             \/ /\ j = Argument /\ outcome[j] = "canceled" /\ records'[j].status = "Canceled"
                /\ records'[j].finishedAt = CanceledAt(j) /\ records'[j].startedAt = records[j].startedAt
  <2>1. PICK a : a = Argument
    OBVIOUS
  <2>2. /\ DOMAIN records = Nodes
        /\ DOMAIN records[j] = {"status", "readyAt", "startedAt", "finishedAt"}
    BY DEF TypeInv, TypeOK
  <2>3. CASE ReportTimed
    <3>1. records' = IF outcome[a] = "canceled" /\ records[a].status = "Pending"
                     THEN [records EXCEPT ![a].status = "Canceled", ![a].readyAt = CanceledAt(a),
                                          ![a].finishedAt = CanceledAt(a)]
                     ELSE records
      BY <2>1, <2>3 DEF ReportTimed
    <3>2. CASE j # a
      BY <2>2, <3>1, <3>2
    <3>3. CASE j = a
      BY <2>1, <2>2, <3>1, <3>3
    <3> QED  BY <3>2, <3>3
  <2>4. CASE ReportFailure
    <3>1. records' = IF outcome[a] = "canceled"
                     THEN [records EXCEPT ![a].status = "Canceled", ![a].finishedAt = CanceledAt(a)]
                     ELSE records
      BY <2>1, <2>4 DEF ReportFailure
    <3>2. CASE j # a
      BY <2>2, <3>1, <3>2
    <3>3. CASE j = a
      BY <2>1, <2>2, <3>1, <3>3
    <3> QED  BY <3>2, <3>3
  <2> QED  BY <2>3, <2>4
<1> QED  BY <1>1, <1>2

LEMMA Monotone ==
  ASSUME BuildInv, RunInv, [Next]_vars
  PROVE  \A j \in Nodes : Kept(j)
<1> SUFFICES ASSUME NEW j \in Nodes PROVE Kept(j)
  OBVIOUS
<1>1. /\ j \in Jobs /\ phase \in [Jobs -> States] /\ outcome \in [Jobs -> {None, "thrown", "canceled"}]
      /\ records \in [Nodes -> RecordSet] /\ step \in [Nodes -> Steps] /\ JobOK(j)
      /\ Recording => RecordOK(j)
  BY RunFacts DEF RunInv, TypeInv, TypeOK, States, Steps, RecordSet, Times, JobsOK, RecordsOK
<1> DEFINE Still == phase' = phase /\ outcome' = outcome /\ records' = records
<1>2. CASE Still
  BY <1>2 DEF Kept
<1>3. CASE Build /\ UNCHANGED <<script, poolVars, helper, now, recordVars, report>>
  BY <1>2, <1>3 DEF poolVars, recordVars
<1>4. CASE BeginRun \/ Wait \/ Get \/ WaitAll \/ CopyRecords \/ Tick
  BY <1>2, <1>4 DEF BeginRun, Wait, Get, WaitAll, CopyRecords, Tick, poolVars, recordVars
<1>5. CASE UNCHANGED vars
  BY <1>2, <1>5 DEF vars, poolVars, recordVars
<1>6. CASE DestroyPool
  BY <1>2, <1>6 DEF DestroyPool, Pool!Close, recordVars
<1>7. CASE ReportTimed \/ ReportFailure
  <2>1. /\ phase' = phase /\ outcome' = outcome
        /\ records'[j] = records[j] \/ records'[j].status = "Canceled"
    BY <1>7, ReportEffect DEF RunInv
  <2> QED  BY <2>1 DEF Kept
<1>8. ASSUME NEW i, \E after, needsSuccess : Pool!Submit(i, after, needsSuccess), records' = records
      PROVE  Kept(j)
  BY <1>1, <1>8 DEF Pool!Submit, Pool!Move, Kept
<1>9. CASE SubmitNode
  BY <1>8, <1>9 DEF SubmitNode, recordVars
<1>10. ASSUME NEW i \in Nodes, JobStep(i) PROVE Kept(j)
  <2>1. CASE Resolve(i) \/ LeaveJob(i)
    BY <1>1, <2>1 DEF Resolve, LeaveJob, Pool!Queue, Pool!Cancel, Pool!Finish, Pool!Move, recordVars, Kept
  <2>2. CASE EnterJob(i)
    BY <1>1, <2>2 DEF EnterJob, CallJob, Pool!Start, Pool!Move, Kept
  <2>3. CASE \E child \in Nodes : SubmitChild(i, child)
    BY <1>8, <2>3 DEF SubmitChild, recordVars
  <2>4. CASE \/ MeasuredJobRuns(i) \/ MeasuredJobEnds(i) \/ RecordExecution(i)
             \/ TracedJobRuns(i) \/ TracedJobEnds(i) \/ FulfilFuture(i)
    <3>1. /\ \E r : records' = [records EXCEPT ![i] = r]
          /\ step[i] \in {"entered", "body"}
          /\ Recording \/ records' = [records EXCEPT ![i] = records[i]]
          /\ phase' = phase /\ outcome' = outcome
      BY <2>4, RecordStepIs DEF poolVars
    <3>2. CASE i = j /\ Recording
      BY <1>1, <3>1, <3>2 DEF RecordOK, Kept
    <3>3. CASE i # j \/ ~Recording
      <4>1. records'[j] = records[j]
        BY <1>1, <3>1, <3>3
      <4> QED  BY <3>1, <4>1 DEF Kept
    <3> QED  BY <3>2, <3>3
  <2> QED  BY <1>10, <2>1, <2>2, <2>3, <2>4 DEF JobStep
<1> QED  BY <1>3, <1>4, <1>5, <1>6, <1>7, <1>9, <1>10 DEF Next, MainStep

(* The next call, and what is left after it.                               *)
LEMMA CallIs ==
  ASSUME BuildInv, RunInv, main = "run", script # <<>>
  PROVE  /\ Made \in Nat /\ Made + 1 \in 1 .. Len(Full)
         /\ Head(script) = Full[Made + 1] /\ Head(script) \in Call
         /\ FullShape /\ main \in Settled /\ cycles = {}
<1>1. cycles = {} /\ main \in Settled
  BY DEF RunInv, IdleOK, Settled
<1>2. FullShape
  BY <1>1, FullIs
<1>3. Full \in Seq(Call) /\ Len(Full) \in Nat
  BY <1>2 DEF FullShape
<1>4. /\ script \in Seq(Call) /\ Len(script) \in Nat \ {0} /\ 1 \in 1 .. Len(script)
      /\ Head(script) = script[1] /\ Head(script) \in Call
  BY DEF RunInv, ScriptType
<1>5. Len(script) <= Len(Full) /\ \A i \in 1 .. Len(script) : script[i] = Full[Made + i]
  BY DEF RunInv, ScriptOK
<1>6. Made \in Nat /\ Made + 1 \in 1 .. Len(Full)
  BY <1>3, <1>4, <1>5 DEF Made
<1> QED  BY <1>1, <1>2, <1>4, <1>5, <1>6

LEMMA FullConstant ==
  ASSUME program' = program, order' = order
  PROVE  Full' = Full /\ Run' = Run /\ Call' = Call /\ Nodes' = Nodes /\ Closing' = Closing
<1>1. Nodes' = Nodes /\ Class' = Class
  BY DEF Nodes, Class
<1>2. \A op, list : Calls(op, list)' = Calls(op, list)
  OBVIOUS
<1>3. Run' = Run
  BY <1>1 DEF Run, RunBuilder, RunValidated, RunTimed, RunTrace, RunFailure, Calls
<1> QED  BY <1>1, <1>3 DEF Full, Call, Closing

LEMMA PassedStays ==
  ASSUME BuildInv, RunInv, [Next]_vars, NEW call \in Call, Passed(call)
  PROVE  Passed(call)'
<1>1. CASE call[1] \in {"submit", "wait", "reportTimed", "reportFailure"}
  <2>1. call[2] \in Nodes
    BY <1>1 DEF Call
  <2>2. Kept(call[2])
    BY <2>1, Monotone
  <2> QED  BY <2>2 DEF Kept, Passed
<1>2. CASE call[1] \notin {"submit", "wait", "reportTimed", "reportFailure"}
  BY <1>2 DEF Passed
<1> QED  BY <1>1, <1>2

(* A step of main takes a call away, another leaves the script alone.      *)
LEMMA CallKeepsScript ==
  ASSUME BuildInv, RunInv, [Next]_vars, main = "run", script # <<>>, script' = Tail(script),
         main' = main, NEW call, call = Head(script), Passed(call)'
  PROVE  /\ ScriptOK' /\ ScriptType' /\ Made' = Made + 1
<1>1. /\ Made \in Nat /\ Made + 1 \in 1 .. Len(Full)
      /\ Head(script) = Full[Made + 1] /\ FullShape
  BY CallIs
<1>2. Full' = Full /\ Call' = Call
  BY StepFrame, FullConstant
<1>3. Full \in Seq(Call) /\ Len(Full) \in Nat /\ \A k \in 1 .. Len(Full) : Full[k] \in Call
  BY <1>1 DEF FullShape
<1>4. /\ script \in Seq(Call) /\ Len(script) \in Nat \ {0} /\ Len(script) <= Len(Full)
      /\ \A i \in 1 .. Len(script) : script[i] = Full[Made + i]
      /\ \A k \in 1 .. Made : Passed(Full[k])
  BY DEF RunInv, ScriptType, ScriptOK
<1>5. /\ script' \in Seq(Call) /\ Len(script') = Len(script) - 1
      /\ \A i \in 1 .. Len(script) - 1 : script'[i] = script[i + 1]
  BY <1>4
<1>6. Made' = Made + 1
  BY <1>2, <1>3, <1>4, <1>5 DEF Made
<1>7. \A i \in 1 .. Len(script') : script'[i] = Full[Made' + i]
  <2> SUFFICES ASSUME NEW i \in 1 .. Len(script') PROVE script'[i] = Full[Made' + i]
    OBVIOUS
  <2>1. i + 1 \in 1 .. Len(script) /\ i \in 1 .. Len(script) - 1 /\ Made' + i = Made + (i + 1)
    BY <1>1, <1>4, <1>5, <1>6
  <2> QED  BY <1>4, <1>5, <2>1
<1>8. \A k \in 1 .. Made' : Passed(Full[k])'
  <2> SUFFICES ASSUME NEW k \in 1 .. Made' PROVE Passed(Full[k])'
    OBVIOUS
  <2>1. CASE k = Made + 1
    <3>1. call = Full[k]
      BY <1>1, <2>1
    <3>2. (call = Full[k])'
      BY <1>2, <3>1
    <3> QED  BY <3>2
  <2>2. CASE k # Made + 1
    <3>1. k \in 1 .. Made /\ k \in 1 .. Len(Full)
      BY <1>1, <1>6, <2>2
    <3>2. PICK made \in Call : made = Full[k]
      BY <1>3, <3>1
    <3>3. Passed(made)'
      BY <1>4, <3>1, <3>2, PassedStays
    <3>4. (made = Full[k])'
      BY <1>2, <3>2
    <3> QED  BY <3>3, <3>4
  <2> QED  BY <2>1, <2>2
<1>9. ScriptOK'
  BY <1>2, <1>3, <1>4, <1>5, <1>7, <1>8 DEF ScriptOK
<1> QED  BY <1>2, <1>5, <1>6, <1>9 DEF ScriptType

LEMMA SameScript ==
  ASSUME BuildInv, RunInv, [Next]_vars, script' = script, main' = main \/ main' # "run"
  PROVE  ScriptOK' /\ ScriptType' /\ (main' = "run" => Made' = Made /\ Run' = Run)
<1>1. ScriptType'
  BY StepFrame DEF RunInv, ScriptType, Call
<1>2. SUFFICES ASSUME main' = "run" PROVE ScriptOK' /\ Made' = Made /\ Run' = Run
  BY <1>1 DEF ScriptOK
<1>3. main = "run" /\ main \in Settled /\ cycles = {}
  BY <1>2 DEF RunInv, IdleOK, Settled
<1>4. Full' = Full /\ Run' = Run
  BY <1>3, StepFrame, FullConstant
<1>5. Made' = Made
  BY <1>4 DEF Made
<1>6. FullShape
  BY <1>3, FullIs
<1>7. /\ Len(script) \in Nat /\ Len(Full) \in Nat
      /\ \A k \in 1 .. Len(Full) : Full[k] \in Call
  BY <1>6 DEF FullShape, RunInv, ScriptType
<1>8. /\ Len(script) <= Len(Full)
      /\ \A i \in 1 .. Len(script) : script[i] = Full[Made + i]
      /\ \A k \in 1 .. Made : Passed(Full[k])
  BY <1>3 DEF RunInv, ScriptOK
<1>9. ASSUME NEW k \in 1 .. Made PROVE Passed(Full[k])'
  <2>1. k \in 1 .. Len(Full)
    BY <1>7, <1>8 DEF Made
  <2>2. PICK call \in Call : call = Full[k]
    BY <1>7, <2>1
  <2>3. Passed(call)'
    BY <1>8, <2>2, PassedStays
  <2>4. (call = Full[k])'
    BY <1>4, <2>2
  <2> QED  BY <2>3, <2>4
<1> QED  BY <1>4, <1>5, <1>8, <1>9 DEF ScriptOK

(* The steps that leave the pool, the jobs and the records alone.          *)
LEMMA JobsNext ==
  ASSUME BuildInv, RunInv, [Next]_vars
  PROVE  JobsOK' /\ IdleOK'
<1> DEFINE Still == phase' = phase /\ outcome' = outcome /\ deps' = deps /\ successOnly' = successOnly
           Settles == main' = main /\ dependencies' = dependencies /\ cycles' = cycles
<1>1. /\ TypeInv /\ JobsOK /\ IdleOK /\ program' = program /\ Nodes' = Nodes
      /\ \A j \in Nodes : j \in Jobs
  BY RunFacts, StepFrame DEF RunInv
<1>2. ASSUME Still, Settles PROVE JobsOK' /\ IdleOK'
  BY <1>1, <1>2, SameJobs DEF IdleOK
<1>3. CASE Build /\ UNCHANGED <<script, poolVars, helper, now, recordVars, report>>
  <2>1. Still /\ main \notin {"run", "done"} /\ main' \notin {"run", "done"}
    BY <1>3 DEF poolVars, Build, Declare, ValidateAndBuildAdjacency, VisitRoot, VisitDependency, VisitReturns,
         Leave, SearchEnds
  <2>2. \A j \in Jobs : phase[j] = "new" /\ phase'[j] = "new"
    BY <1>1, <2>1 DEF IdleOK
  <2>3. ASSUME NEW j \in Nodes PROVE JobOK(j)'
    <3>1. phase[j] = "new" /\ phase'[j] = "new" /\ JobOK(j)
      BY <1>1, <2>2 DEF JobsOK
    <3> QED  BY <2>1, <3>1 DEF JobOK
  <2> QED  BY <1>1, <2>1, <2>2, <2>3 DEF JobsOK, IdleOK
<1>4. CASE BeginRun
  <2>1. /\ Still /\ main = "ordered" /\ cycles' = cycles /\ dependencies' = dependencies
        /\ main' = "run" => cycles = {}
    BY <1>4 DEF BeginRun, poolVars, searchVars, IsValid
  <2>2. \A j \in Jobs : phase'[j] = "new"
    BY <1>1, <2>1 DEF IdleOK
  <2> QED  BY <1>1, <2>1, <2>2, SameJobs DEF IdleOK
<1>5. CASE Wait \/ Get \/ WaitAll \/ ReportTimed \/ ReportFailure \/ CopyRecords \/ Tick
  BY <1>2, <1>5 DEF Wait, Get, WaitAll, ReportTimed, ReportFailure, CopyRecords, Tick, poolVars, buildVars, searchVars
<1>6. CASE UNCHANGED vars
  BY <1>2, <1>6 DEF vars, poolVars, buildVars, searchVars
<1>7. CASE DestroyPool
  <2>1. Still /\ main = "run" /\ main' = "done" /\ cycles' = cycles /\ dependencies' = dependencies
    BY <1>7 DEF DestroyPool, Pool!Close, searchVars
  <2> QED  BY <1>1, <2>1, SameJobs DEF IdleOK
<1>8. ASSUME Settles, main \in {"run", "done"}, cycles = {}, JobsOK' PROVE JobsOK' /\ IdleOK'
  BY <1>8 DEF IdleOK
<1>9. CASE SubmitNode
  <2>1. main = "run" /\ script # <<>> /\ Head(script)[1] = "submit" /\ Settles
    BY <1>9 DEF SubmitNode, Calling, buildVars, searchVars
  <2>2. /\ Made \in Nat /\ Made + 1 \in 1 .. Len(Full)
        /\ Head(script) = Full[Made + 1] /\ Head(script) \in Call
        /\ FullShape /\ cycles = {}
    BY <2>1, CallIs
  <2>3. Argument \in Nodes
    BY <2>1, <2>2 DEF Argument, Call
  <2>4. ASSUME NEW d \in Needs(Argument) PROVE phase[d] # "new"
    <3>1. d \in ToSet(dependencies[Full[Made + 1][2]]) /\ Full[Made + 1][1] = "submit"
      BY <2>1, <2>2, <2>4 DEF Needs, Argument
    <3>2. PICK l \in 1 .. (Made + 1) - 1 : Full[l] = <<"submit", d>>
      BY <2>2, <3>1 DEF FullShape
    <3>3. l \in 1 .. Made
      BY <2>2
    <3>4. Passed(Full[l])
      BY <2>1, <3>3 DEF RunInv, ScriptOK
    <3> QED  BY <3>2, <3>4 DEF Passed
  <2>5. {d \in ToSet(dependencies[Argument]) : phase[d] # "new"} = Needs(Argument)
    BY <2>4 DEF Needs
  <2>6. Pool!Submit(Argument, Needs(Argument), Argument \in program.successOnly)
    BY <1>9, <2>5 DEF SubmitNode
  <2>7. PICK j \in Nodes : j = Argument
    BY <2>3
  <2>8. JobsOK'
    BY <1>1, <2>1, <2>6, <2>7, SubmitKeepsJobs
  <2> QED  BY <1>8, <2>1, <2>2, <2>8
<1>10. ASSUME NEW j \in Nodes, JobStep(j) PROVE JobsOK' /\ IdleOK'
  <2>0. Settles
    BY <1>10 DEF JobStep, Resolve, EnterJob, CallJob, LeaveJob, MeasuredJobRuns, MeasuredJobEnds,
         RecordExecution, TracedJobRuns, TracedJobEnds, FulfilFuture, SubmitChild, Record, buildVars, searchVars
  <2>1. CASE \/ Pool!Queue(j) \/ Pool!Cancel(j) \/ Pool!Start(j)
             \/ Pool!Finish(j, IF j \in Escaping THEN "thrown" ELSE None)
    <3>1. phase[j] # "new"
      BY <2>1 DEF Pool!Queue, Pool!Cancel, Pool!Start, Pool!Finish, Pool!Move
    <3>2. main \in {"run", "done"} /\ cycles = {}
      BY <1>1, <3>1, StartedIs
    <3>3. JobsOK'
      BY <1>1, <2>0, <2>1, PoolKeepsJobs
    <3> QED  BY <1>8, <2>0, <3>2, <3>3
  <2>2. CASE Resolve(j) \/ LeaveJob(j) \/ EnterJob(j)
    BY <2>1, <2>2 DEF Resolve, LeaveJob, EnterJob, CallJob
  <2>3. ASSUME NEW child \in Nodes, SubmitChild(j, child) PROVE JobsOK' /\ IdleOK'
    <3>1. phase[j] = "running" /\ <<j, child>> \in program.children /\ Pool!Submit(child, {}, FALSE)
      BY <2>3 DEF SubmitChild
    <3>2. main \in {"run", "done"} /\ cycles = {} /\ main \in Listed
      BY <1>1, <3>1, StartedIs
    <3>3. child \notin program.successOnly /\ \A i \in DOMAIN Edges : Edges[i][1] # child
      BY <3>1, RunFacts, CallsAssumption DEF Edges
    <3>4. Needs(child) = {}
      <4> SUFFICES ASSUME NEW d \in Needs(child) PROVE FALSE
        OBVIOUS
      <4>1. d \in Nodes /\ d \in ToSet(dependencies[child])
        BY NeedsIs DEF Needs
      <4>2. PICK i \in Used : Edges[i] = <<child, d>>
        BY <3>2, <4>1 DEF BuildInv, ListsOK
      <4> QED  BY <3>3, <4>2 DEF Used
    <3>5. Pool!Submit(child, Needs(child), child \in program.successOnly)
      <4>1. (child \in program.successOnly) = FALSE
        BY <3>3
      <4> QED  BY <3>1, <3>4, <4>1
    <3>6. JobsOK'
      BY <1>1, <2>0, <3>5, SubmitKeepsJobs
    <3> QED  BY <1>8, <2>0, <3>2, <3>6
  <2>4. CASE \/ MeasuredJobRuns(j) \/ MeasuredJobEnds(j) \/ RecordExecution(j)
             \/ TracedJobRuns(j) \/ TracedJobEnds(j) \/ FulfilFuture(j)
    <3>1. Still
      BY <2>4, RecordStepIs DEF poolVars
    <3> QED  BY <1>2, <2>0, <3>1
  <2> QED  BY <1>10, <2>2, <2>3, <2>4 DEF JobStep
<1> QED  BY <1>3, <1>4, <1>5, <1>6, <1>7, <1>9, <1>10 DEF Next, MainStep

LEMMA ScriptNext ==
  ASSUME BuildInv, RunInv, [Next]_vars
  PROVE  ScriptOK' /\ ScriptType'
<1>1. CASE BeginRun
  <2>1. /\ main = "ordered" /\ program' = program /\ order' = order
        /\ main' = "run" => script' = Full
        /\ main' # "run" => script' = script
    BY <1>1 DEF BeginRun, searchVars, Full
  <2>2. Full' = Full /\ Call' = Call
    BY <2>1, FullConstant
  <2>3. CASE main' = "run"
    <3>1. cycles = {} /\ main \in Settled
      BY <1>1, <2>1, <2>3 DEF BeginRun, IsValid, Settled
    <3>2. Full \in Seq(Call) /\ Len(Full) \in Nat
      BY <3>1, FullIs DEF FullShape
    <3>3. script' = Full /\ Made' = 0
      BY <2>1, <2>2, <2>3, <3>2 DEF Made
    <3>4. \A i \in 1 .. Len(script') : script'[i] = Full[Made' + i]
      BY <3>2, <3>3
    <3> QED  BY <2>2, <3>2, <3>3, <3>4 DEF ScriptOK, ScriptType
  <2>4. CASE main' # "run"
    BY <2>1, <2>4, SameScript
  <2> QED  BY <2>3, <2>4
<1>2. ASSUME main = "run", script # <<>>, script' = Tail(script), main' = main, Passed(Head(script))
      PROVE  ScriptOK' /\ ScriptType'
  <2>1. Head(script) \in Call
    BY <1>2, CallIs
  <2>2. PICK call \in Call : call = Head(script)
    BY <2>1
  <2>3. Passed(call)'
    BY <1>2, <2>2, PassedStays
  <2> QED  BY <1>2, <2>2, <2>3, CallKeepsScript
<1>3. CASE Wait \/ Get \/ WaitAll \/ CopyRecords
  <2>1. /\ main = "run" /\ script # <<>> /\ script' = Tail(script) /\ main' = main
        /\ Head(script)[1] \in {"wait", "get", "waitAll", "copy"}
        /\ Head(script)[1] = "wait" => phase[Head(script)[2]] = "done"
    BY <1>3 DEF Wait, Get, WaitAll, CopyRecords, Calling, Argument, buildVars
  <2>2. Passed(Head(script))
    BY <2>1 DEF Passed
  <2> QED  BY <1>2, <2>1, <2>2
<1>4. CASE SubmitNode \/ ReportTimed \/ ReportFailure
  <2>1. /\ main = "run" /\ script # <<>> /\ script' = Tail(script) /\ main' = main
        /\ Head(script)[1] \in {"submit", "reportTimed", "reportFailure"}
    BY <1>4 DEF SubmitNode, ReportTimed, ReportFailure, Calling, buildVars
  <2>2. Head(script) \in Call
    BY <2>1, CallIs
  <2>3. PICK call \in Call : call = Head(script)
    BY <2>2
  <2>4. call[2] = Argument /\ call[2] \in Nodes
    BY <2>1, <2>3 DEF Argument, Call
  <2>5. PICK j \in Nodes : j = call[2]
    BY <2>4
  <2>6. /\ j \in Jobs /\ phase \in [Jobs -> States] /\ records \in [Nodes -> RecordSet] /\ JobOK(j)
        /\ Recording => RecordOK(j)
    BY RunFacts DEF RunInv, TypeInv, TypeOK, States, RecordSet, Times, JobsOK, RecordsOK
  <2>7. Passed(call)'
    <3>1. CASE SubmitNode
      <4>1. phase'[j] \in {"waiting", "queued"} /\ call[1] = "submit"
        BY <2>3, <2>4, <2>5, <2>6, <3>1 DEF SubmitNode, Calling, Pool!Submit, Pool!Move
      <4> QED  BY <2>5, <4>1 DEF Passed
    <3>2. CASE ReportTimed \/ ReportFailure
      <4>1. /\ phase[j] = "done" /\ phase' = phase /\ outcome' = outcome
            /\ call[1] \in {"reportTimed", "reportFailure"}
        BY <2>3, <2>4, <2>5, <3>2 DEF ReportTimed, ReportFailure, Calling, poolVars
      <4>2. Recording
        <5>1. Full[Made + 1][1] = call[1] /\ Made + 1 \in 1 .. Len(Full) /\ FullShape
          BY <2>1, <2>3, CallIs
        <5> QED  BY <4>1, <5>1 DEF FullShape
      <4>3. /\ outcome[j] = "canceled" => records[j].status \in {"Pending", "Canceled"}
            /\ DOMAIN records = Nodes
            /\ DOMAIN records[j] = {"status", "readyAt", "startedAt", "finishedAt"}
        BY <2>6, <4>1, <4>2 DEF RecordOK, RecordSet
      <4>4. outcome[j] = "canceled" => records'[j].status = "Canceled"
        <5>1. CASE ReportTimed
          <6>1. records' = IF outcome[j] = "canceled" /\ records[j].status = "Pending"
                           THEN [records EXCEPT ![j].status = "Canceled", ![j].readyAt = CanceledAt(j),
                                                ![j].finishedAt = CanceledAt(j)]
                           ELSE records
            BY <2>4, <2>5, <5>1 DEF ReportTimed
          <6> QED  BY <4>3, <6>1
        <5>2. CASE ReportFailure
          <6>1. records' = IF outcome[j] = "canceled"
                           THEN [records EXCEPT ![j].status = "Canceled", ![j].finishedAt = CanceledAt(j)]
                           ELSE records
            BY <2>4, <2>5, <5>2 DEF ReportFailure
          <6> QED  BY <4>3, <6>1
        <5> QED  BY <3>2, <5>1, <5>2
      <4> QED  BY <2>5, <4>1, <4>4 DEF Passed
    <3> QED  BY <1>4, <3>1, <3>2
  <2> QED  BY <2>1, <2>3, <2>7, CallKeepsScript
<1>5. ASSUME script' = script, main' = main \/ main' # "run" PROVE ScriptOK' /\ ScriptType'
  BY <1>5, SameScript
<1>6. CASE Build /\ UNCHANGED <<script, poolVars, helper, now, recordVars, report>>
  <2>1. main' # "run"
    BY <1>6 DEF Build, Declare, ValidateAndBuildAdjacency, VisitRoot, VisitDependency, VisitReturns, Leave,
         SearchEnds
  <2> QED  BY <1>5, <1>6, <2>1
<1>7. CASE DestroyPool \/ Tick \/ UNCHANGED vars
  BY <1>5, <1>7 DEF DestroyPool, Tick, vars, buildVars
<1>8. ASSUME NEW j \in Nodes, JobStep(j) PROVE ScriptOK' /\ ScriptType'
  <2>1. script' = script /\ main' = main
    BY <1>8 DEF JobStep, Resolve, EnterJob, CallJob, LeaveJob, MeasuredJobRuns, MeasuredJobEnds,
         RecordExecution, TracedJobRuns, TracedJobEnds, FulfilFuture, SubmitChild, Record, buildVars
  <2> QED  BY <1>5, <2>1
<1> QED  BY <1>1, <1>3, <1>4, <1>6, <1>7, <1>8 DEF Next, MainStep

(* The records.                                                            *)
LEMMA RecordEffect ==
  ASSUME BuildInv, RunInv, Recording, NEW j \in Nodes,
         \/ MeasuredJobRuns(j) \/ MeasuredJobEnds(j) \/ RecordExecution(j)
         \/ TracedJobRuns(j) \/ TracedJobEnds(j) \/ FulfilFuture(j)
  PROVE  /\ \A i \in Nodes \ {j} : step'[i] = step[i] /\ records'[i] = records[i]
         /\ step'[j] \in {"body", "recorded"}
         /\ step'[j] = "recorded" => records'[j].status = Ended(j)
         /\ phase[j] = "running" /\ phase' = phase /\ outcome' = outcome
<1>1. /\ phase \in [Jobs -> States] /\ step \in [Nodes -> Steps] /\ j \in Jobs /\ RecordOK(j)
      /\ records \in [Nodes -> RecordSet]
      /\ DOMAIN records[j] = {"status", "readyAt", "startedAt", "finishedAt"}
  BY RunFacts DEF RunInv, TypeInv, TypeOK, States, Steps, RecordSet, Times, RecordsOK
<1>2. /\ \E to, r : step' = [step EXCEPT ![j] = to] /\ records' = [records EXCEPT ![j] = r]
      /\ step[j] \in {"entered", "body"} /\ phase' = phase /\ outcome' = outcome
  BY RecordStepIs DEF poolVars
<1>3. phase[j] = "running"
  BY <1>1, <1>2 DEF RecordOK, States
<1>4. ~FulfilFuture(j)
  <2>1. program.futures = {}
    BY RunFacts, CallsAssumption DEF Recording, Class
  <2> QED  BY <2>1 DEF FulfilFuture
<1>5. CASE MeasuredJobRuns(j) \/ TracedJobRuns(j)
  <2>1. step'[j] = "body"
    BY <1>1, <1>5 DEF MeasuredJobRuns, TracedJobRuns, Record
  <2> QED  BY <1>1, <1>2, <1>3, <2>1
<1>6. CASE MeasuredJobEnds(j) \/ TracedJobEnds(j)
  <2>1. /\ step'[j] = "recorded"
        /\ records'[j] = [records[j] EXCEPT !.status = Ended(j), !.finishedAt = now]
    BY <1>1, <1>6 DEF MeasuredJobEnds, TracedJobEnds, Record
  <2>2. records'[j].status = Ended(j)
    BY <1>1, <2>1
  <2> QED  BY <1>1, <1>2, <1>3, <2>1, <2>2
<1>7. CASE RecordExecution(j)
  <2>1. /\ step'[j] = "recorded"
        /\ \E t \in startedAt[j] .. now :
             records'[j] = [records[j] EXCEPT !.status = Ended(j), !.startedAt = startedAt[j], !.finishedAt = t]
    BY <1>1, <1>7 DEF RecordExecution, Record
  <2>2. records'[j].status = Ended(j)
    BY <1>1, <2>1
  <2> QED  BY <1>1, <1>2, <1>3, <2>1, <2>2
<1> QED  BY <1>4, <1>5, <1>6, <1>7

LEMMA RecordsNext ==
  ASSUME BuildInv, RunInv, [Next]_vars
  PROVE  RecordsOK'
<1> SUFFICES ASSUME Recording, NEW j \in Nodes PROVE RecordOK(j)'
  BY StepFrame DEF RecordsOK
<1>1. /\ j \in Jobs /\ phase \in [Jobs -> States] /\ step \in [Nodes -> Steps] /\ RecordOK(j) /\ JobOK(j)
      /\ outcome \in [Jobs -> {None, "thrown", "canceled"}]
      /\ records \in [Nodes -> RecordSet] /\ Ended(j)' = Ended(j)
      /\ None \notin {"thrown", "canceled"} /\ \A i \in Nodes : i \in Jobs
      /\ DOMAIN records[j] = {"status", "readyAt", "startedAt", "finishedAt"}
  BY RunFacts, StepFrame DEF RunInv, TypeInv, TypeOK, States, Steps, RecordSet, Times, RecordsOK, JobsOK
<1> DEFINE Still == phase' = phase /\ outcome' = outcome /\ step' = step
<1>2. ASSUME Still, records' = records PROVE RecordOK(j)'
  BY <1>1, <1>2 DEF RecordOK
<1>3. CASE Build /\ UNCHANGED <<script, poolVars, helper, now, recordVars, report>>
  BY <1>2, <1>3 DEF poolVars, recordVars
<1>4. CASE BeginRun \/ Wait \/ Get \/ WaitAll \/ CopyRecords \/ Tick
  BY <1>2, <1>4 DEF BeginRun, Wait, Get, WaitAll, CopyRecords, Tick, poolVars, recordVars
<1>5. CASE UNCHANGED vars
  BY <1>2, <1>5 DEF vars, poolVars, recordVars
<1>6. CASE DestroyPool
  BY <1>2, <1>6 DEF DestroyPool, Pool!Close, recordVars
<1>7. CASE ReportTimed \/ ReportFailure
  <2>1. /\ Still /\ phase[Argument] = "done"
        /\ \/ records'[j] = records[j]
           \/ Argument = j /\ outcome[j] = "canceled" /\ records'[j].status = "Canceled"
    BY <1>7, ReportEffect DEF RunInv
  <2>2. Argument = j /\ outcome[j] = "canceled" => step[j] = "none"
    BY <1>1, <2>1 DEF RecordOK
  <2> QED  BY <1>1, <2>1, <2>2 DEF RecordOK
<1>8. ASSUME NEW i, \E after, needsSuccess : Pool!Submit(i, after, needsSuccess), records' = records, step' = step
      PROVE  RecordOK(j)'
  <2>1. PICK s \in {"waiting", "queued"} : phase' = [phase EXCEPT ![i] = s]
    BY <1>8 DEF Pool!Submit, Pool!Move
  <2>2. phase[i] = "new" /\ outcome' = outcome
    BY <1>8 DEF Pool!Submit, Pool!Move
  <2>3. phase'[j] = phase[j] \/ (phase[j] = "new" /\ phase'[j] \in {"waiting", "queued"})
    BY <1>1, <2>1, <2>2
  <2> QED  BY <1>1, <1>8, <2>2, <2>3 DEF RecordOK
<1>9. CASE SubmitNode
  BY <1>8, <1>9 DEF SubmitNode, recordVars
<1>10. ASSUME NEW i \in Nodes, JobStep(i) PROVE RecordOK(j)'
  <2>1. CASE Resolve(i)
    <3>1. step' = step /\ records' = records /\ (Pool!Queue(i) \/ Pool!Cancel(i))
      BY <2>1 DEF Resolve, recordVars
    <3>2. \/ phase'[j] = phase[j] /\ outcome'[j] = outcome[j]
          \/ phase[j] = "waiting" /\ phase'[j] = "queued" /\ outcome'[j] = outcome[j]
          \/ phase[j] = "waiting" /\ phase'[j] = "done" /\ outcome'[j] = "canceled"
      BY <1>1, <3>1 DEF Pool!Queue, Pool!Cancel, Pool!Move
    <3> QED  BY <1>1, <3>1, <3>2 DEF RecordOK
  <2>2. CASE LeaveJob(i)
    <3>1. /\ step' = step /\ records' = records /\ step[i] = "recorded"
          /\ Pool!Finish(i, IF i \in Escaping THEN "thrown" ELSE None)
      BY <2>2 DEF LeaveJob, recordVars
    <3>2. \/ phase'[j] = phase[j] /\ outcome'[j] = outcome[j]
          \/ i = j /\ phase'[j] = "done" /\ outcome'[j] \in {"thrown", None}
      BY <1>1, <3>1 DEF Pool!Finish, Pool!Move
    <3> QED  BY <1>1, <3>1, <3>2 DEF RecordOK
  <2>3. CASE EnterJob(i)
    <3>1. /\ phase[i] = "queued" /\ phase' = [phase EXCEPT ![i] = "running"]
          /\ outcome' = outcome /\ records' = records
          /\ \E s \in {"entered", "body"} : step' = [step EXCEPT ![i] = s]
      BY <2>3 DEF EnterJob, CallJob, Pool!Start, Pool!Move
    <3>2. \/ phase'[j] = phase[j] /\ step'[j] = step[j]
          \/ phase'[j] = "running" /\ step'[j] \in {"entered", "body"}
      BY <1>1, <3>1
    <3> QED  BY <1>1, <3>1, <3>2 DEF RecordOK
  <2>4. CASE \E child \in Nodes : SubmitChild(i, child)
    BY <1>8, <2>4 DEF SubmitChild, recordVars
  <2>5. CASE \/ MeasuredJobRuns(i) \/ MeasuredJobEnds(i) \/ RecordExecution(i)
             \/ TracedJobRuns(i) \/ TracedJobEnds(i) \/ FulfilFuture(i)
    <3>1. /\ \A k \in Nodes \ {i} : step'[k] = step[k] /\ records'[k] = records[k]
          /\ step'[i] \in {"body", "recorded"}
          /\ step'[i] = "recorded" => records'[i].status = Ended(i)
          /\ phase[i] = "running" /\ phase' = phase /\ outcome' = outcome
      BY <2>5, RecordEffect
    <3>2. CASE i = j
      BY <1>1, <3>1, <3>2 DEF RecordOK
    <3>3. CASE i # j
      <4>1. step'[j] = step[j] /\ records'[j] = records[j]
        BY <3>1, <3>3
      <4> QED  BY <1>1, <3>1, <4>1 DEF RecordOK
    <3> QED  BY <3>2, <3>3
  <2> QED  BY <1>10, <2>1, <2>2, <2>3, <2>4, <2>5 DEF JobStep
<1> QED  BY <1>3, <1>4, <1>5, <1>6, <1>7, <1>9, <1>10 DEF Next, MainStep


(* After the copy no call of Run is left and no job is on its way.         *)
LEMMA AfterCopy ==
  ASSUME BuildInv, RunInv, [Next]_vars, report # None
  PROVE  records' = records /\ report' = report
<1>1. /\ Recording /\ main \in {"run", "done"} /\ \A j \in Nodes : phase[j] = "done"
      /\ main = "run" => Made >= Len(Run)
  BY DEF RunInv, ReportOK
<1>2. ASSUME main = "run", script # <<>>
      PROVE  Head(script)[1] \notin {"reportTimed", "reportFailure", "copy"}
  <2>1. Made + 1 \in 1 .. Len(Full) /\ Head(script) = Full[Made + 1] /\ FullShape /\ Made \in Nat
    BY <1>2, CallIs
  <2>2. Len(Run) \in Nat
    BY <2>1 DEF FullShape
  <2>3. ~(Made + 1 <= Len(Run)) /\ Made + 1 # Len(Run)
    BY <1>1, <1>2, <2>1, <2>2
  <2> QED  BY <2>1, <2>3 DEF FullShape
<1>3. CASE Build /\ UNCHANGED <<script, poolVars, helper, now, recordVars, report>>
  BY <1>3 DEF recordVars
<1>4. CASE BeginRun \/ SubmitNode \/ Wait \/ Get \/ WaitAll \/ DestroyPool \/ Tick
  BY <1>4 DEF BeginRun, SubmitNode, Wait, Get, WaitAll, DestroyPool, Tick, recordVars
<1>5. CASE ReportTimed \/ ReportFailure \/ CopyRecords
  BY <1>2, <1>5 DEF ReportTimed, ReportFailure, CopyRecords, Calling
<1>6. CASE UNCHANGED vars
  BY <1>6 DEF vars, recordVars
<1>7. ASSUME NEW j \in Nodes, JobStep(j) PROVE FALSE
  <2>1. phase[j] = "done"
    BY <1>1
  <2>2. CASE Resolve(j) \/ LeaveJob(j) \/ EnterJob(j) \/ \E child \in Nodes : SubmitChild(j, child)
    BY <2>1, <2>2 DEF Resolve, LeaveJob, EnterJob, CallJob, SubmitChild, Pool!Queue, Pool!Cancel, Pool!Finish,
         Pool!Start, Pool!Move
  <2>3. CASE \/ MeasuredJobRuns(j) \/ MeasuredJobEnds(j) \/ RecordExecution(j)
             \/ TracedJobRuns(j) \/ TracedJobEnds(j) \/ FulfilFuture(j)
    BY <1>1, <2>1, <2>3, RecordEffect
  <2> QED  BY <1>7, <2>2, <2>3 DEF JobStep
<1> QED  BY <1>3, <1>4, <1>5, <1>6, <1>7 DEF Next, MainStep

LEMMA ReportSteps ==
  ASSUME BuildInv, RunInv, [Next]_vars, ~CopyRecords
  PROVE  report' = report
<1>1. CASE Build /\ UNCHANGED <<script, poolVars, helper, now, recordVars, report>>
  BY <1>1
<1>2. CASE BeginRun \/ SubmitNode \/ Wait \/ Get \/ WaitAll \/ ReportTimed \/ ReportFailure \/ DestroyPool \/ Tick
  BY <1>2 DEF BeginRun, SubmitNode, Wait, Get, WaitAll, ReportTimed, ReportFailure, DestroyPool, Tick
<1>3. CASE UNCHANGED vars
  BY <1>3 DEF vars
<1>4. ASSUME NEW j \in Nodes, JobStep(j) PROVE report' = report
  <2>1. CASE Resolve(j) \/ LeaveJob(j) \/ EnterJob(j) \/ \E child \in Nodes : SubmitChild(j, child)
    BY <2>1 DEF Resolve, LeaveJob, EnterJob, CallJob, SubmitChild
  <2>2. CASE \/ MeasuredJobRuns(j) \/ MeasuredJobEnds(j) \/ RecordExecution(j)
             \/ TracedJobRuns(j) \/ TracedJobEnds(j) \/ FulfilFuture(j)
    BY <2>2, RecordStepIs
  <2> QED  BY <1>4, <2>1, <2>2 DEF JobStep
<1> QED  BY <1>1, <1>2, <1>3, <1>4 DEF Next, MainStep

(* How main goes on while it runs the graph and afterwards.                *)
LEMMA MainSteps ==
  ASSUME BuildInv, RunInv, [Next]_vars, main \in {"run", "done"}
  PROVE  /\ main' \in {"run", "done"} /\ (main' = "run" => main = "run")
         /\ script' = script \/ (script # <<>> /\ script' = Tail(script))
<1>1. CASE Build /\ UNCHANGED <<script, poolVars, helper, now, recordVars, report>>
  BY <1>1 DEF Build, Declare, ValidateAndBuildAdjacency, VisitRoot, VisitDependency, VisitReturns, Leave,
       SearchEnds
<1>2. CASE SubmitNode \/ Wait \/ Get \/ WaitAll \/ ReportTimed \/ ReportFailure \/ CopyRecords
  BY <1>2 DEF SubmitNode, Wait, Get, WaitAll, ReportTimed, ReportFailure, CopyRecords, Calling, buildVars
<1>3. CASE BeginRun \/ DestroyPool \/ Tick \/ UNCHANGED vars
  BY <1>3 DEF BeginRun, DestroyPool, Tick, vars, buildVars
<1>4. ASSUME NEW j \in Nodes, JobStep(j) PROVE script' = script /\ main' = main
  BY <1>4 DEF JobStep, Resolve, EnterJob, CallJob, LeaveJob, MeasuredJobRuns, MeasuredJobEnds,
       RecordExecution, TracedJobRuns, TracedJobEnds, FulfilFuture, SubmitChild, Record, buildVars
<1> QED  BY <1>1, <1>2, <1>3, <1>4 DEF Next, MainStep

LEMMA MadeGrows ==
  ASSUME BuildInv, RunInv, [Next]_vars, main = "run", main' = "run"
  PROVE  /\ Made \in Nat /\ Made' \in Nat /\ Made <= Made'
         /\ script' # script => Made' = Made + 1
         /\ Run' = Run /\ Len(Run) \in Nat
<1>1. main \in Settled /\ cycles = {} /\ FullShape
  BY FullIs DEF RunInv, IdleOK, Settled
<1>2. Full' = Full /\ Run' = Run
  BY <1>1, StepFrame, FullConstant
<1>3. Len(Full) \in Nat /\ Len(Run) \in Nat
  BY <1>1 DEF FullShape
<1>4. script \in Seq(Call) /\ Len(script) \in Nat /\ Len(script) <= Len(Full)
  BY DEF RunInv, ScriptType, ScriptOK
<1>5. script' = script \/ (script # <<>> /\ script' = Tail(script))
  BY MainSteps
<1>6. Len(script') \in Nat /\ Len(script') <= Len(script) /\ (script' # script => Len(script') = Len(script) - 1)
  BY <1>4, <1>5
<1> QED  BY <1>2, <1>3, <1>4, <1>6 DEF Made

LEMMA ReportNext ==
  ASSUME BuildInv, RunInv, [Next]_vars
  PROVE  ReportOK'
<1> SUFFICES ASSUME report' # None PROVE ReportOK'
  BY DEF ReportOK
<1>1. Recording' = Recording /\ Nodes' = Nodes
  BY StepFrame DEF Recording, Class
<1>2. CASE CopyRecords
  <2>1. /\ main = "run" /\ script # <<>> /\ script' = Tail(script) /\ Head(script)[1] = "copy" /\ main' = main
        /\ report' = records /\ records' = records /\ phase' = phase /\ outcome' = outcome
    BY <1>2 DEF CopyRecords, Calling, buildVars, poolVars, recordVars
  <2>2. Made \in Nat /\ Made + 1 \in 1 .. Len(Full) /\ Head(script) = Full[Made + 1] /\ FullShape
    BY <2>1, CallIs
  <2>3. Recording /\ Made + 1 = Len(Run) /\ Len(Run) \in Nat
    BY <2>1, <2>2 DEF FullShape
  <2>4. script' # script
    <3>1. script \in Seq(Call)
      BY DEF RunInv, ScriptType
    <3>2. Len(Tail(script)) # Len(script)
      BY <2>1, <3>1
    <3> QED  BY <2>1, <3>2
  <2>5. Made' = Made + 1 /\ Run' = Run
    BY <2>1, <2>4, MadeGrows
  <2>6. ASSUME NEW j \in Nodes
        PROVE  phase[j] = "done" /\ (outcome[j] = "canceled" => records[j].status = "Canceled")
    <3>1. PICK k \in 1 .. Len(Run) - 1 : Full[k] = <<Closing, j>>
      BY <2>2, <2>3 DEF FullShape
    <3>2. k \in 1 .. Made
      BY <2>2, <2>3, <3>1
    <3>3. Passed(Full[k])
      BY <2>1, <3>2 DEF RunInv, ScriptOK
    <3>4. PICK call : call = <<Closing, j>>
      OBVIOUS
    <3>5. Passed(call) /\ call[1] = Closing /\ call[2] = j
      BY <3>1, <3>3, <3>4
    <3>6. phase[j] = "done"
      BY <3>5 DEF Passed, Closing
    <3>7. CASE Class = "TraceJobGraph"
      <4>1. program.successOnly = {} /\ None \notin {"thrown", "canceled"}
        BY <3>7, RunFacts, CallsAssumption DEF Class
      <4>2. outcome[j] = Verdict(j)
        BY <3>6 DEF RunInv, JobsOK, JobOK
      <4>3. outcome[j] # "canceled"
        BY <4>1, <4>2 DEF Verdict, Failed
      <4> QED  BY <3>6, <4>3
    <3>8. CASE Class # "TraceJobGraph"
      <4>1. Closing \in {"reportTimed", "reportFailure"}
        BY <2>3, <3>8 DEF Closing, Recording
      <4> QED  BY <3>5, <3>6, <4>1 DEF Passed
    <3> QED  BY <3>7, <3>8
  <2> QED  BY <1>1, <2>1, <2>2, <2>3, <2>5, <2>6 DEF ReportOK
<1>3. CASE ~CopyRecords
  <2>1. report' = report /\ report # None
    BY <1>3, ReportSteps
  <2>2. /\ Recording /\ report = records /\ main \in {"run", "done"}
        /\ \A j \in Nodes : phase[j] = "done" /\ (outcome[j] = "canceled" => records[j].status = "Canceled")
        /\ main = "run" => Made >= Len(Run)
    BY <2>1 DEF RunInv, ReportOK
  <2>3. records' = records
    BY <2>1, AfterCopy
  <2>4. \A j \in Nodes : phase'[j] = "done" /\ (outcome'[j] = "canceled" => records'[j].status = "Canceled")
    BY <2>2, Monotone DEF Kept
  <2>5. main' \in {"run", "done"} /\ (main' = "run" => main = "run")
    BY <2>2, MainSteps
  <2>6. main' = "run" => Made' >= Len(Run')
    BY <2>2, <2>5, MadeGrows
  <2> QED  BY <1>1, <2>1, <2>2, <2>3, <2>4, <2>5, <2>6 DEF ReportOK
<1> QED  BY <1>2, <1>3


LEMMA RunInitial == RunInit => RunInv
<1> SUFFICES ASSUME RunInit PROVE RunInv
  OBVIOUS
<1>1. TypeInv /\ BuildInv
  BY TypeInit, BuildInit
<1>2. /\ main = "declare" /\ script = <<>> /\ report = None
      /\ \A j \in Jobs : phase[j] = "new" /\ outcome[j] = None
      /\ successOnly = {}
      /\ \A j \in Nodes : j \in Jobs /\ step[j] = "none" /\ records[j].status = "Pending"
  BY <1>1, RunFacts DEF RunInit, Init, Pool!Init
<1>3. IdleOK /\ ScriptType /\ ScriptOK /\ ReportOK
  BY <1>2 DEF IdleOK, ScriptType, ScriptOK, ReportOK
<1>4. JobsOK
  BY <1>2 DEF JobsOK, JobOK
<1>5. RecordsOK
  BY <1>2 DEF RecordsOK, RecordOK
<1> QED  BY <1>1, <1>3, <1>4, <1>5 DEF RunInv

LEMMA RunInvariance == Spec => [](BuildInv /\ RunInv)
<1>1. RunInit => BuildInv /\ RunInv
  BY BuildInit, RunInitial
<1>2. BuildInv /\ RunInv /\ [Next]_vars => (BuildInv /\ RunInv)'
  <2> SUFFICES ASSUME BuildInv, RunInv, [Next]_vars PROVE BuildInv' /\ RunInv'
    OBVIOUS
  <2>1. BuildInv'
    BY BuildNext
  <2>2. TypeInv'
    BY TypeNext DEF RunInv
  <2>3. JobsOK' /\ IdleOK'
    BY JobsNext
  <2>4. ScriptOK' /\ ScriptType'
    BY ScriptNext
  <2>5. RecordsOK'
    BY RecordsNext
  <2>6. ReportOK'
    BY ReportNext
  <2> QED  BY <2>1, <2>2, <2>3, <2>4, <2>5, <2>6 DEF RunInv
<1> QED  BY <1>1, <1>2, PTL DEF Spec

-----------------------------------------------------------------------------
(* What follows from it.                                                   *)

(* The copy of the records is complete and agrees with the handles: every  *)
(* closing call of Run has been made by then, so that every job is done,   *)
(* has recorded its end or had its cancellation recorded for it.           *)
THEOREM ReportsAgree == Spec => []ReportAgrees
<1>1. BuildInv /\ RunInv => ReportAgrees
  <2> SUFFICES ASSUME BuildInv, RunInv, report # None, NEW j \in Nodes
               PROVE  report[j].status = CASE outcome[j] = "thrown"   -> "Failed"
                                           [] outcome[j] = "canceled" -> "Canceled"
                                           [] outcome[j] = None       -> "Succeeded"
    BY DEF ReportAgrees
  <2>1. /\ Recording /\ report = records /\ phase[j] = "done"
        /\ outcome[j] = "canceled" => records[j].status = "Canceled"
    BY DEF RunInv, ReportOK
  <2>2. JobOK(j) /\ RecordOK(j)
    BY <2>1 DEF RunInv, JobsOK, RecordsOK
  <2>3. outcome[j] = Verdict(j) /\ None \notin {"thrown", "canceled"}
    BY <2>1, <2>2, RunAssumption DEF JobOK
  <2>4. Escaping = program.throws
    <3>1. program.futures = {}
      BY <2>1, RunFacts, CallsAssumption DEF Recording, Class
    <3> QED  BY <3>1 DEF Escaping
  <2>5. outcome[j] # "canceled" => records[j].status = Ended(j)
    BY <2>1, <2>2 DEF RecordOK
  <2>6. CASE Failed(j)
    BY <2>1, <2>3, <2>6 DEF Verdict
  <2>7. CASE ~Failed(j) /\ j \in Escaping
    <3>1. outcome[j] = "thrown" /\ Ended(j) = "Failed"
      BY <2>3, <2>4, <2>7 DEF Verdict, Ended
    <3> QED  BY <2>1, <2>3, <2>5, <3>1
  <2>8. CASE ~Failed(j) /\ j \notin Escaping
    <3>1. outcome[j] = None /\ Ended(j) = "Succeeded"
      BY <2>3, <2>4, <2>8 DEF Verdict, Ended
    <3> QED  BY <2>1, <2>3, <2>5, <3>1
  <2> QED  BY <2>6, <2>7, <2>8
<1> QED  BY <1>1, RunInvariance, PTL

(* Nobody writes a record after the copy has been taken.                   *)
THEOREM FrozenRecords == Spec => RecordsFrozen
<1>1. BuildInv /\ RunInv /\ [Next]_vars => [report # None => UNCHANGED records]_vars
  <2> SUFFICES ASSUME BuildInv, RunInv, [Next]_vars, report # None PROVE records' = records
    OBVIOUS
  <2> QED  BY AfterCopy
<1> QED  BY <1>1, RunInvariance, PTL DEF Spec, RecordsFrozen


-----------------------------------------------------------------------------
(* The outcomes the graph determines.                                      *)

Outcomes == {"thrown", "canceled", None}
Rule(f, j) == IF j \in program.successOnly /\ \E d \in Needs(j) : f[d] # None THEN "canceled"
              ELSE IF j \in Escaping THEN "thrown" ELSE None
Determines(f) == f \in [Nodes -> Outcomes] /\ \A j \in Nodes : f[j] = Rule(f, j)

(* Each element of the order is decided by those before it.                *)
LEMMA DecidedInOrder ==
  ASSUME BuildInv, order \in Seq(Nodes), IsInjective(order), ToSet(order) = Nodes, Sorted
  PROVE  \E f : Determines(f)
<1> DEFINE n == Len(order)
           S == [Nodes -> Outcomes]
           b == [j \in Nodes |-> None]
           Decide(f, j) == [f EXCEPT ![j] = Rule(f, j)]
           G == [x \in (1 .. n) \X S |-> Decide(x[2], order[x[1]])]
<1>1. /\ n \in Nat /\ DOMAIN order = 1 .. n /\ \A k \in 1 .. n : order[k] \in Nodes
      /\ \A k, l \in 1 .. n : order[k] = order[l] => k = l
  BY DEF IsInjective
<1>2. \A f, j : Rule(f, j) \in Outcomes
  BY DEF Rule, Outcomes
<1>3. ASSUME NEW f \in S, NEW j \in Nodes
      PROVE  /\ Decide(f, j) \in S /\ Decide(f, j)[j] = Rule(f, j)
             /\ \A i \in Nodes \ {j} : Decide(f, j)[i] = f[i]
  BY <1>2
<1> HIDE DEF Decide
<1>4. PICK F \in [0 .. n -> S] : F[0] = b /\ \A k \in 1 .. n : F[k] = G[<<k, F[k - 1]>>]
  <2>1. \A x \in (1 .. n) \X S : Decide(x[2], order[x[1]]) \in S
    <3> SUFFICES ASSUME NEW x \in (1 .. n) \X S PROVE Decide(x[2], order[x[1]]) \in S
      OBVIOUS
    <3>1. x[2] \in S /\ order[x[1]] \in Nodes
      BY <1>1
    <3> HIDE DEF S
    <3> QED  BY <1>3, <3>1
  <2>2. b \in S
    BY DEF Outcomes
  <2> HIDE DEF S, n, b
  <2>3. G \in RecursionSteps(n, S)
    BY <2>1 DEF RecursionSteps
  <2> HIDE DEF G
  <2>4. Solutions(n, S, b, G) # {}
    BY <1>1, <2>2, <2>3, RecursionExists
  <2> QED  BY <2>4 DEF Solutions
<1>5. ASSUME NEW k \in 1 .. n PROVE F[k - 1] \in S /\ F[k] = Decide(F[k - 1], order[k])
  <2> HIDE DEF S
  <2>1. k - 1 \in 0 .. n
    BY <1>1
  <2>2. F[k - 1] \in S
    BY <1>4, <2>1
  <2> QED  BY <1>4, <2>2
<1> HIDE DEF G
<1>6. ASSUME NEW k \in 1 .. n
      PROVE  /\ F[k][order[k]] = Rule(F[k - 1], order[k])
             /\ \A l \in 1 .. k - 1 : F[k][order[l]] = F[k - 1][order[l]]
  <2>1. F[k - 1] \in S /\ order[k] \in Nodes
    BY <1>1, <1>5
  <2>2. F[k] = Decide(F[k - 1], order[k])
    BY <1>5
  <2>3. \A l \in 1 .. k - 1 : order[l] \in Nodes \ {order[k]}
    <3> SUFFICES ASSUME NEW l \in 1 .. k - 1 PROVE order[l] \in Nodes \ {order[k]}
      OBVIOUS
    <3>1. l \in 1 .. n /\ l # k
      BY <1>1
    <3> QED  BY <1>1, <3>1
  <2> HIDE DEF S
  <2>4. PICK f \in S : f = F[k - 1]
    BY <2>1
  <2>5. PICK j \in Nodes : j = order[k]
    BY <2>1
  <2>6. /\ Decide(f, j)[j] = Rule(f, j)
        /\ \A i \in Nodes \ {j} : Decide(f, j)[i] = f[i]
    BY <1>3
  <2>7. F[k] = Decide(f, j)
    BY <2>2, <2>4, <2>5
  <2> QED  BY <2>3, <2>4, <2>5, <2>6, <2>7
<1> DEFINE T == {m \in Nat : m <= n => \A l \in 1 .. m : F[m][order[l]] = Rule(F[m], order[l])}
<1>7. ASSUME NEW m \in Nat, m \in T PROVE m + 1 \in T
  <2> SUFFICES ASSUME m + 1 <= n, NEW l \in 1 .. m + 1 PROVE F[m + 1][order[l]] = Rule(F[m + 1], order[l])
    OBVIOUS
  <2>1. /\ m + 1 \in 1 .. n /\ (m + 1) - 1 = m /\ m <= n /\ l \in 1 .. n
    BY <1>1
  <2>2. /\ F[m + 1][order[m + 1]] = Rule(F[m], order[m + 1])
        /\ \A i \in 1 .. m : F[m + 1][order[i]] = F[m][order[i]]
    <3>1. PICK k \in 1 .. n : k = m + 1 /\ k - 1 = m
      BY <2>1
    <3>2. /\ F[k][order[k]] = Rule(F[k - 1], order[k])
          /\ \A i \in 1 .. k - 1 : F[k][order[i]] = F[k - 1][order[i]]
      BY <1>6
    <3> QED  BY <3>1, <3>2
  <2>3. \A d \in Needs(order[l]) : F[m + 1][d] = F[m][d]
    <3> SUFFICES ASSUME NEW d \in Needs(order[l]) PROVE F[m + 1][d] = F[m][d]
      OBVIOUS
    <3>1. PICK i \in 1 .. l - 1 : order[i] = d
      BY <2>1 DEF Needs, Sorted
    <3>2. i \in 1 .. m
      BY <2>1
    <3> QED  BY <2>2, <3>1, <3>2
  <2>4. Rule(F[m + 1], order[l]) = Rule(F[m], order[l])
    BY <2>3 DEF Rule
  <2>5. CASE l = m + 1
    BY <2>2, <2>4, <2>5
  <2>6. CASE l # m + 1
    <3>1. l \in 1 .. m
      BY <2>6
    <3>2. F[m][order[l]] = Rule(F[m], order[l])
      BY <1>7, <2>1, <3>1
    <3> QED  BY <2>2, <2>4, <3>1, <3>2
  <2> QED  BY <2>5, <2>6
<1>8. n \in T
  <2>1. 0 \in T
    OBVIOUS
  <2> HIDE DEF T
  <2>2. Nat \subseteq T
    BY <1>7, <2>1, NatInduct
  <2> QED  BY <1>1, <2>2
<1>9. ASSUME NEW j \in Nodes PROVE F[n][j] = Rule(F[n], j)
  <2>1. PICK l \in 1 .. n : order[l] = j
    BY <1>1 DEF ToSet
  <2> QED  BY <1>1, <1>8, <2>1
<1>10. F[n] \in [Nodes -> Outcomes]
  <2>1. n \in 0 .. n
    BY <1>1
  <2> QED  BY <1>4, <2>1
<1> QED  BY <1>9, <1>10 DEF Determines

LEMMA ExpectedIs ==
  ASSUME BuildInv, NEW f, Determines(f)
  PROVE  \A j \in Nodes : Expected[j] = Rule(Expected, j)
<1> DEFINE Is(g) == g = [j \in Nodes |->
                           IF j \in program.successOnly /\ \E d \in ToSet(dependencies[j]) : g[d] # None THEN "canceled"
                           ELSE IF j \in Escaping THEN "thrown" ELSE None]
           E == CHOOSE g : Is(g)
<1>1. Expected = E
  BY DEF Expected
<1>2. \A g, j : Rule(g, j) = IF j \in program.successOnly /\ \E d \in ToSet(dependencies[j]) : g[d] # None THEN "canceled"
                             ELSE IF j \in Escaping THEN "thrown" ELSE None
  BY DEF Rule, Needs
<1>3. f = [j \in Nodes |-> Rule(f, j)]
  BY DEF Determines
<1>4. Is(f)
  BY <1>2, <1>3
<1>5. Is(E)
  <2> HIDE DEF Is
  <2> QED  BY <1>4
<1> HIDE DEF E
<1>6. \A j \in Nodes : E[j] = Rule(E, j)
  BY <1>2, <1>5
<1> QED  BY <1>1, <1>6

(* A done job has the outcome that the rule gives from its dependencies',  *)
(* which are done; along the order the rule has one solution, and it does  *)
(* not mention any interleaving.                                           *)
THEOREM OutcomesFollowGraph == Spec => []OutcomesDetermined
<1>1. BuildInv /\ RunInv => OutcomesDetermined
  <2> SUFFICES ASSUME BuildInv, RunInv, NEW j \in Nodes, phase[j] = "done" PROVE outcome[j] = Expected[j]
    BY DEF OutcomesDetermined
  <2> DEFINE n == Len(order)
             T == {m \in Nat : m <= n => \A l \in 1 .. m : phase[order[l]] = "done" =>
                                           outcome[order[l]] = Expected[order[l]]}
  <2>1. j \in Jobs /\ cycles = {} /\ main \in Settled
    <3>1. j \in Jobs
      BY RunFacts
    <3> QED  BY <3>1, StartedIs DEF RunInv
  <2>2. order \in Seq(Nodes) /\ IsInjective(order) /\ ToSet(order) = Nodes /\ Sorted
    BY <2>1 DEF BuildInv, SearchTypeOK, SettledOK
  <2>3. n \in Nat /\ DOMAIN order = 1 .. n /\ \A k \in 1 .. n : order[k] \in Nodes
    BY <2>2
  <2>4. \A i \in Nodes : Expected[i] = Rule(Expected, i)
    BY <2>2, DecidedInOrder, ExpectedIs
  <2>5. ASSUME NEW m \in Nat, m \in T PROVE m + 1 \in T
    <3> SUFFICES ASSUME m + 1 <= n, NEW l \in 1 .. m + 1, phase[order[l]] = "done"
                 PROVE  outcome[order[l]] = Expected[order[l]]
      OBVIOUS
    <3>1. l \in 1 .. n /\ m <= n
      BY <2>3
    <3>2. PICK i \in Nodes : i = order[l]
      BY <2>3, <3>1
    <3>3. JobOK(i) /\ phase[i] = "done"
      BY <3>2 DEF RunInv, JobsOK
    <3>4. outcome[i] = Verdict(i) /\ \A d \in Needs(i) : phase[d] = "done"
      BY <3>3 DEF JobOK
    <3>5. ASSUME NEW d \in Needs(i) PROVE outcome[d] = Expected[d]
      <4>1. PICK k \in 1 .. l - 1 : order[k] = d
        BY <2>2, <3>1, <3>2 DEF Needs, Sorted
      <4>2. k \in 1 .. m
        BY <3>1
      <4>3. phase[order[k]] = "done"
        BY <3>4, <4>1
      <4>4. \A x \in 1 .. m : phase[order[x]] = "done" => outcome[order[x]] = Expected[order[x]]
        BY <2>5, <3>1
      <4> HIDE DEF T
      <4> QED  BY <4>1, <4>2, <4>3, <4>4
    <3>6. Verdict(i) = Rule(Expected, i)
      BY <3>5 DEF Verdict, Failed, Rule
    <3> QED  BY <2>4, <3>2, <3>4, <3>6
  <2>6. n \in T
    <3>1. 0 \in T
      OBVIOUS
    <3> HIDE DEF T
    <3>2. Nat \subseteq T
      BY <2>5, <3>1, NatInduct
    <3> QED  BY <2>3, <3>2
  <2>7. PICK l \in 1 .. n : order[l] = j
    BY <2>2, <2>3 DEF ToSet
  <2> QED  BY <2>3, <2>6, <2>7
<1> QED  BY <1>1, RunInvariance, PTL


-----------------------------------------------------------------------------
(* The times in the records.  A node begins when everything behind it has  *)
(* ended and is recorded, or is canceled; a cancellation that is recorded  *)
(* afterwards is dated at the end of something that was behind it, too.    *)

(* What node j depends on, directly or not: the least set that has its     *)
(* dependencies and those of its elements.                                 *)
Behind(j) ==
  {a \in Nodes : \A A \in SUBSET Nodes : Needs(j) \subseteq A /\ (\A x \in A : Needs(x) \subseteq A) => a \in A}

(* The time a node's record has or will have for its start.                *)
Began(j) == IF Class = "FailureCancelGraph" THEN step[j] \in {"body", "recorded"} ELSE step[j] # "none"
Start(j) == IF Class = "FailureCancelGraph" THEN records[j].startedAt ELSE startedAt[j]

TimeOK(j) ==
  /\ records[j].finishedAt <= now
  /\ Began(j) => /\ GraphStart <= Start(j) /\ Start(j) <= now
                 /\ \A a \in Behind(j) : records[a].finishedAt <= Start(j)
  /\ step[j] = "recorded" => records[j].startedAt = Start(j) /\ Start(j) <= records[j].finishedAt
  /\ Class = "TimedJobGraph" /\ step[j] \in {"body", "recorded"} =>
       records[j].startedAt = Start(j) /\ records[j].readyAt <= Start(j)

TimesOK == Recording => \A j \in Nodes : TimeOK(j)

LEMMA BehindIs ==
  ASSUME BuildInv, NEW j \in Nodes
  PROVE  /\ Behind(j) \subseteq Nodes /\ Needs(j) \subseteq Behind(j)
         /\ \A a \in Behind(j) : Needs(a) \subseteq Behind(j)
         /\ \A A \in SUBSET Nodes : Needs(j) \subseteq A /\ (\A x \in A : Needs(x) \subseteq A) => Behind(j) \subseteq A
<1>1. Needs(j) \subseteq Nodes /\ \A a \in Nodes : Needs(a) \subseteq Nodes
  BY NeedsIs
<1> QED  BY <1>1 DEF Behind

LEMMA DoneBehind ==
  ASSUME BuildInv, RunInv, Recording, NEW j \in Nodes, step[j] # "none"
  PROVE  \A a \in Behind(j) : phase[a] = "done"
<1> DEFINE A == {x \in Nodes : phase[x] = "done"}
<1>1. /\ j \in Jobs /\ phase \in [Jobs -> States] /\ RecordOK(j) /\ \A x \in Nodes : JobOK(x)
  BY RunFacts DEF RunInv, TypeInv, TypeOK, States, RecordsOK, JobsOK
<1>2. phase[j] \in {"running", "done"}
  BY <1>1 DEF RecordOK, States
<1>3. \A x \in A \cup {j} : \A d \in Needs(x) : d \in A
  BY <1>1, <1>2, NeedsIs DEF JobOK
<1>4. Behind(j) \subseteq A
  BY <1>3, BehindIs
<1> QED  BY <1>4

LEMMA TimeTypes ==
  ASSUME BuildInv, TypeInv, NEW j \in Nodes
  PROVE  /\ now \in Nat /\ GraphStart <= now /\ GraphStart \in Nat
         /\ startedAt[j] \in Nat
         /\ records[j].startedAt \in Nat /\ records[j].finishedAt \in Nat /\ records[j].readyAt \in Nat
         /\ Start(j) \in Nat
         /\ step[j] \in Steps
<1>1. Horizon \in Nat
  BY RunFacts
<1>2. /\ records[j] \in RecordSet /\ startedAt[j] \in Times /\ step[j] \in Steps
      /\ now \in GraphStart .. Horizon
  BY DEF TypeInv, TypeOK, RecordSet, Times, Steps
<1> QED  BY <1>1, <1>2 DEF RecordSet, Times, GraphStart, Start

(* The end of the last dependency is the end of one, or the graph's start. *)
LEMMA CanceledAtIs ==
  ASSUME BuildInv, TypeInv, NEW j \in Nodes
  PROVE  /\ CanceledAt(j) \in Nat /\ GraphStart <= CanceledAt(j)
         /\ \A d \in Needs(j) : records[d].finishedAt <= CanceledAt(j)
         /\ CanceledAt(j) = GraphStart \/ \E d \in Needs(j) : CanceledAt(j) = records[d].finishedAt
<1> DEFINE S == {GraphStart} \cup {records[d].finishedAt : d \in Needs(j)}
<1>1. Horizon \in Nat /\ 1 <= Horizon
  BY RunFacts
<1>2. \A d \in Needs(j) : records[d].finishedAt \in 0 .. Horizon
  <2> SUFFICES ASSUME NEW d \in Needs(j) PROVE records[d].finishedAt \in 0 .. Horizon
    OBVIOUS
  <2>1. d \in Nodes
    BY NeedsIs
  <2>2. records[d] \in RecordSet
    BY <2>1 DEF TypeInv, TypeOK, RecordSet, Times
  <2> QED  BY <2>2 DEF RecordSet, Times
<1>3. S \in SUBSET Nat /\ S # {} /\ \A x \in S : x <= Horizon
  BY <1>1, <1>2 DEF GraphStart
<1>4. Max(S) \in S /\ \A x \in S : x <= Max(S)
  <2> HIDE DEF S
  <2> QED  BY <1>1, <1>3, MaxIs
<1>5. CanceledAt(j) = Max(S)
  BY DEF CanceledAt, LatestDependencyFinish, Needs
<1> QED  BY <1>3, <1>4, <1>5

(* What a wrapped job writes when it begins and when it ends.              *)
LEMMA RecordTimes ==
  ASSUME BuildInv, RunInv, Recording, NEW i \in Nodes,
         \/ MeasuredJobRuns(i) \/ MeasuredJobEnds(i) \/ RecordExecution(i)
         \/ TracedJobRuns(i) \/ TracedJobEnds(i) \/ FulfilFuture(i)
  PROVE  \/ /\ step[i] = "entered" /\ step'[i] = "body"
            /\ records'[i].finishedAt = records[i].finishedAt
            /\ Class = "TimedJobGraph" => /\ records'[i].startedAt = startedAt[i]
                                          /\ records'[i].readyAt = CanceledAt(i)
            /\ Class # "TimedJobGraph" => Class = "FailureCancelGraph" /\ records'[i].startedAt = now
         \/ /\ step[i] = "body" /\ step'[i] = "recorded"
            /\ Class # "TraceJobGraph" => /\ records'[i].startedAt = records[i].startedAt
                                          /\ records'[i].readyAt = records[i].readyAt
                                          /\ records'[i].finishedAt = now
            /\ Class = "TraceJobGraph" => /\ records'[i].startedAt = startedAt[i]
                                          /\ records'[i].finishedAt \in startedAt[i] .. now
<1>1. /\ records \in [Nodes -> RecordSet] /\ step \in [Nodes -> Steps]
      /\ DOMAIN records[i] = {"status", "readyAt", "startedAt", "finishedAt"}
  BY DEF RunInv, TypeInv, TypeOK, Steps, RecordSet, Times
<1>2. ~FulfilFuture(i)
  <2>1. program.futures = {}
    BY RunFacts, CallsAssumption DEF Recording, Class
  <2> QED  BY <2>1 DEF FulfilFuture
<1>3. CASE MeasuredJobRuns(i)
  <2>1. /\ Class = "TimedJobGraph" /\ step[i] = "entered" /\ step'[i] = "body"
        /\ records'[i] = [records[i] EXCEPT !.status = "Running", !.startedAt = startedAt[i],
                                            !.readyAt = CanceledAt(i)]
    BY <1>1, <1>3 DEF MeasuredJobRuns, Record, CanceledAt
  <2> QED  BY <1>1, <2>1
<1>4. CASE TracedJobRuns(i)
  <2>1. /\ Class = "FailureCancelGraph" /\ step[i] = "entered" /\ step'[i] = "body"
        /\ records'[i] = [records[i] EXCEPT !.status = "Running", !.startedAt = now]
    BY <1>1, <1>4 DEF TracedJobRuns, Record
  <2> QED  BY <1>1, <2>1
<1>5. CASE MeasuredJobEnds(i) \/ TracedJobEnds(i)
  <2>1. /\ Class # "TraceJobGraph" /\ step[i] = "body" /\ step'[i] = "recorded"
        /\ records'[i] = [records[i] EXCEPT !.status = Ended(i), !.finishedAt = now]
    BY <1>1, <1>5 DEF MeasuredJobEnds, TracedJobEnds, Record
  <2> QED  BY <1>1, <2>1
<1>6. CASE RecordExecution(i)
  <2>1. /\ Class = "TraceJobGraph" /\ step[i] = "body" /\ step'[i] = "recorded"
        /\ \E t \in startedAt[i] .. now :
             records'[i] = [records[i] EXCEPT !.status = Ended(i), !.startedAt = startedAt[i], !.finishedAt = t]
    BY <1>1, <1>6 DEF RecordExecution, Record
  <2>2. PICK t \in startedAt[i] .. now :
             records'[i] = [records[i] EXCEPT !.status = Ended(i), !.startedAt = startedAt[i], !.finishedAt = t]
    BY <2>1
  <2>3. records'[i].startedAt = startedAt[i] /\ records'[i].finishedAt \in startedAt[i] .. now
    BY <1>1, <2>2
  <2> QED  BY <2>1, <2>3
<1> QED  BY <1>2, <1>3, <1>4, <1>5, <1>6


LEMMA TimesNext ==
  ASSUME BuildInv, RunInv, TimesOK, [Next]_vars
  PROVE  TimesOK'
<1>1. Recording' = Recording /\ Nodes' = Nodes /\ Class' = Class /\ program' = program
  BY StepFrame
<1> SUFFICES ASSUME Recording, NEW j \in Nodes PROVE TimeOK(j)'
  BY <1>1 DEF TimesOK
<1>2. /\ j \in Jobs /\ phase \in [Jobs -> States] /\ RecordOK(j) /\ TimeOK(j)
      /\ step \in [Nodes -> Steps] /\ startedAt \in [Nodes -> Times] /\ \A a \in Nodes : TimeOK(a)
      /\ TypeInv /\ IdleOK
  BY RunFacts DEF RunInv, TypeInv, TypeOK, States, Steps, Times, RecordsOK, TimesOK
<1>3. /\ now \in Nat /\ GraphStart <= now /\ GraphStart \in Nat
      /\ startedAt[j] \in Nat /\ records[j].startedAt \in Nat /\ records[j].finishedAt \in Nat
      /\ records[j].readyAt \in Nat /\ Start(j) \in Nat /\ \A a \in Nodes : records[a].finishedAt \in Nat
  BY <1>2, TimeTypes
<1>4. now' \in Nat /\ now <= now'
  <2>1. TypeInv' /\ BuildInv'
    BY <1>2, TypeNext, BuildNext
  <2>2. now' \in Nat
    <3>1. Horizon \in Nat /\ now' \in GraphStart .. Horizon
      BY <2>1, RunFacts DEF TypeInv, TypeOK
    <3> QED  BY <3>1 DEF GraphStart
  <2>3. CASE MainStep \/ UNCHANGED vars
    BY <1>3, <2>3 DEF MainStep, BeginRun, SubmitNode, Wait, Get, WaitAll, ReportTimed, ReportFailure, CopyRecords,
         DestroyPool, vars
  <2>4. CASE Tick
    BY <1>3, <2>4 DEF Tick
  <2>5. ASSUME NEW i \in Nodes, JobStep(i) PROVE now' = now
    BY <2>5 DEF JobStep, Resolve, EnterJob, CallJob, LeaveJob, MeasuredJobRuns, MeasuredJobEnds,
         RecordExecution, TracedJobRuns, TracedJobEnds, FulfilFuture, SubmitChild, Record
  <2>6. CASE Build /\ UNCHANGED <<script, poolVars, helper, now, recordVars, report>>
    BY <1>3, <2>6
  <2> QED  BY <1>3, <2>2, <2>3, <2>4, <2>5, <2>6 DEF Next
<1> DEFINE Same == step' = step /\ startedAt' = startedAt /\ records' = records
(* Before the run no node has begun.                                       *)
<1>5. ASSUME Same, main \notin {"run", "done"} PROVE TimeOK(j)'
  <2>1. step[j] = "none"
    BY <1>2, <1>5 DEF IdleOK, RecordOK
  <2> QED  BY <1>1, <1>2, <1>3, <1>4, <1>5, <2>1 DEF TimeOK, Began
<1>6. ASSUME main \in {"run", "done"} PROVE dependencies' = dependencies /\ Behind(j)' = Behind(j)
  <2>1. dependencies' = dependencies
    BY <1>6, StepFrame
  <2>2. \A x : Needs(x)' = Needs(x)
    BY <2>1 DEF Needs
  <2> QED  BY <1>1, <2>1, <2>2 DEF Behind
<1>7. ASSUME main \in {"run", "done"}, step'[j] = step[j], startedAt'[j] = startedAt[j], records'[j] = records[j],
             \A a \in Behind(j) : \/ records'[a].finishedAt = records[a].finishedAt
                                  \/ Began(j) => records'[a].finishedAt <= Start(j)
      PROVE  TimeOK(j)'
  <2>1. Began(j)' = Began(j) /\ Start(j)' = Start(j)
    BY <1>1, <1>7 DEF Began, Start
  <2>2. Behind(j)' = Behind(j)
    BY <1>6, <1>7
  <2>3. records'[j].finishedAt <= now'
    BY <1>2, <1>3, <1>4, <1>7 DEF TimeOK
  <2>4. Began(j) => GraphStart <= Start(j) /\ Start(j) <= now'
    BY <1>2, <1>3, <1>4 DEF TimeOK
  <2>5. Began(j) => \A a \in Behind(j) : records'[a].finishedAt <= Start(j)
    BY <1>2, <1>7 DEF TimeOK
  <2> QED  BY <1>1, <1>2, <1>7, <2>1, <2>2, <2>3, <2>4, <2>5 DEF TimeOK
<1>8. ASSUME Same PROVE TimeOK(j)'
  BY <1>5, <1>7, <1>8
<1>9. CASE Build /\ UNCHANGED <<script, poolVars, helper, now, recordVars, report>>
  BY <1>8, <1>9 DEF recordVars
<1>10. CASE BeginRun \/ SubmitNode \/ Wait \/ Get \/ WaitAll \/ CopyRecords \/ DestroyPool \/ Tick
  BY <1>8, <1>10 DEF BeginRun, SubmitNode, Wait, Get, WaitAll, CopyRecords, DestroyPool, Tick, recordVars
<1>11. CASE UNCHANGED vars
  BY <1>8, <1>11 DEF vars, recordVars
<1>12. CASE ReportTimed \/ ReportFailure
  <2>1. main = "run"
    BY <1>12 DEF ReportTimed, ReportFailure, Calling
  <2>2. /\ phase' = phase /\ outcome' = outcome /\ step' = step /\ startedAt' = startedAt /\ now' = now
        /\ \A a \in Nodes :
             \/ records'[a] = records[a]
             \/ /\ a = Argument /\ outcome[a] = "canceled" /\ records'[a].status = "Canceled" /\ phase[a] = "done"
                /\ records'[a].finishedAt = CanceledAt(a) /\ records'[a].startedAt = records[a].startedAt
    BY <1>2, <1>12, ReportEffect
  <2>3. ASSUME NEW a \in Behind(j), Began(j) PROVE CanceledAt(a) <= Start(j)
    <3>1. a \in Nodes /\ \A d \in Needs(a) : d \in Behind(j)
      BY BehindIs
    <3>2. \A d \in Needs(a) : records[d].finishedAt <= Start(j)
      BY <1>2, <2>3, <3>1 DEF TimeOK
    <3>3. GraphStart <= Start(j)
      BY <1>2, <2>3 DEF TimeOK
    <3> QED  BY <1>2, <3>1, <3>2, <3>3, CanceledAtIs
  <2>4. CASE records'[j] = records[j]
    <3>1. \A a \in Behind(j) : \/ records'[a].finishedAt = records[a].finishedAt
                               \/ Began(j) => records'[a].finishedAt <= Start(j)
      BY <2>2, <2>3, BehindIs
    <3> QED  BY <1>7, <2>1, <2>2, <2>4, <3>1
  <2>5. CASE records'[j] # records[j]
    <3>1. outcome[j] = "canceled" /\ phase[j] = "done" /\ records'[j].finishedAt = CanceledAt(j)
      BY <2>2, <2>5
    <3>2. step'[j] = "none"
      BY <1>2, <2>2, <3>1 DEF RecordOK
    <3>3. CanceledAt(j) <= now
      <4>1. \A d \in Needs(j) : records[d].finishedAt <= now
        BY <1>2, NeedsIs DEF TimeOK
      <4> QED  BY <1>2, <1>3, <4>1, CanceledAtIs
    <3> QED  BY <1>1, <2>2, <3>1, <3>2, <3>3 DEF TimeOK, Began
  <2> QED  BY <2>4, <2>5
<1>13. ASSUME NEW i \in Nodes, JobStep(i) PROVE TimeOK(j)'
  <2>1. main \in {"run", "done"}
    <3>1. CASE \/ MeasuredJobRuns(i) \/ MeasuredJobEnds(i) \/ RecordExecution(i)
               \/ TracedJobRuns(i) \/ TracedJobEnds(i) \/ FulfilFuture(i)
      <4>1. phase[i] = "running"
        BY <3>1, RecordEffect
      <4> QED  BY <1>2, <4>1, RunFacts DEF IdleOK
    <3>2. CASE Resolve(i) \/ EnterJob(i) \/ LeaveJob(i) \/ \E child \in Nodes : SubmitChild(i, child)
      <4>1. phase[i] # "new"
        BY <3>2 DEF Resolve, EnterJob, CallJob, LeaveJob, SubmitChild, Pool!Queue, Pool!Cancel, Pool!Start,
             Pool!Finish, Pool!Move
      <4> QED  BY <1>2, <4>1, RunFacts DEF IdleOK
    <3> QED  BY <1>13, <3>1, <3>2 DEF JobStep
  <2>2. CASE Resolve(i) \/ LeaveJob(i) \/ \E child \in Nodes : SubmitChild(i, child)
    BY <1>8, <2>2 DEF Resolve, LeaveJob, SubmitChild, recordVars
  <2>3. CASE EnterJob(i)
    <3>1. /\ step' = [step EXCEPT ![i] = IF Class \in {"TimedJobGraph", "FailureCancelGraph"} THEN "entered"
                                        ELSE "body"]
          /\ startedAt' = [startedAt EXCEPT ![i] = IF Class \in {"TimedJobGraph", "TraceJobGraph"} THEN now ELSE 0]
          /\ records' = records /\ phase[i] = "queued" /\ now' = now
      BY <2>3 DEF EnterJob, CallJob, Pool!Start, Pool!Move
    <3>2. CASE i # j
      <4>1. step'[j] = step[j] /\ startedAt'[j] = startedAt[j]
        BY <1>2, <3>1, <3>2
      <4> QED  BY <1>7, <2>1, <3>1, <4>1
    <3>3. CASE i = j
      <4>1. /\ step'[j] \in {"entered", "body"}
            /\ step'[j] = "body" => Class = "TraceJobGraph"
            /\ Class # "FailureCancelGraph" => startedAt'[j] = now
            /\ Class = "FailureCancelGraph" => step'[j] = "entered"
        BY <1>2, <3>1, <3>3 DEF Recording
      <4>2. \A a \in Nodes : records'[a].finishedAt <= now'
        BY <1>2, <3>1 DEF TimeOK
      <4>3. Began(j)' => Start(j)' = now
        BY <1>1, <4>1 DEF Began, Start
      <4>4. \A a \in Behind(j)' : a \in Nodes
        BY <1>6, <2>1, BehindIs
      <4>5. GraphStart' = GraphStart /\ GraphStart <= now /\ now <= now
        BY <1>3 DEF GraphStart
      <4>6. Began(j)' => /\ GraphStart' <= Start(j)' /\ Start(j)' <= now'
                         /\ \A a \in Behind(j)' : records'[a].finishedAt <= Start(j)'
        BY <3>1, <4>2, <4>3, <4>4, <4>5
      <4>7. step'[j] # "recorded" /\ ~(Class' = "TimedJobGraph" /\ step'[j] \in {"body", "recorded"})
        BY <1>1, <4>1
      <4> QED  BY <4>2, <4>6, <4>7 DEF TimeOK
    <3> QED  BY <3>2, <3>3
  <2>4. CASE \/ MeasuredJobRuns(i) \/ MeasuredJobEnds(i) \/ RecordExecution(i)
             \/ TracedJobRuns(i) \/ TracedJobEnds(i) \/ FulfilFuture(i)
    <3>1. /\ \A a \in Nodes \ {i} : step'[a] = step[a] /\ records'[a] = records[a]
          /\ phase[i] = "running" /\ startedAt' = startedAt /\ now' = now
      <4>1. startedAt' = startedAt /\ now' = now
        BY <2>4 DEF MeasuredJobRuns, MeasuredJobEnds, RecordExecution, TracedJobRuns, TracedJobEnds, FulfilFuture,
             Record
      <4>2. /\ \A a \in Nodes \ {i} : step'[a] = step[a] /\ records'[a] = records[a]
            /\ phase[i] = "running"
        BY <1>2, <2>4, RecordEffect
      <4> QED  BY <4>1, <4>2
    <3>2. CASE i # j
      <4>1. ASSUME NEW a \in Behind(j), Began(j) PROVE records'[a] = records[a]
        <5>1. phase[a] = "done" /\ a \in Nodes
          BY <4>1, DoneBehind, BehindIs DEF Began
        <5> QED  BY <3>1, <5>1
      <4>2. \A a \in Behind(j) : \/ records'[a].finishedAt = records[a].finishedAt
                                 \/ Began(j) => records'[a].finishedAt <= Start(j)
        BY <4>1, <1>2, BehindIs, <3>1 DEF TimeOK
      <4> QED  BY <1>7, <2>1, <3>1, <3>2, <4>2
    <3>3. CASE i = j
      <4>1. \/ /\ step[j] = "entered" /\ step'[j] = "body"
               /\ records'[j].finishedAt = records[j].finishedAt
               /\ Class = "TimedJobGraph" => /\ records'[j].startedAt = startedAt[j]
                                             /\ records'[j].readyAt = CanceledAt(j)
               /\ Class # "TimedJobGraph" => Class = "FailureCancelGraph" /\ records'[j].startedAt = now
            \/ /\ step[j] = "body" /\ step'[j] = "recorded"
               /\ Class # "TraceJobGraph" => /\ records'[j].startedAt = records[j].startedAt
                                             /\ records'[j].readyAt = records[j].readyAt
                                             /\ records'[j].finishedAt = now
               /\ Class = "TraceJobGraph" => /\ records'[j].startedAt = startedAt[j]
                                             /\ records'[j].finishedAt \in startedAt[j] .. now
        BY <2>4, <3>3, RecordTimes
      <4>2. \A a \in Behind(j) : a # j /\ a \in Nodes
        <5>1. step[j] # "none"
          BY <4>1
        <5> QED  BY <3>1, <3>3, <5>1, DoneBehind, BehindIs
      <4>3. \A a \in Behind(j)' : records'[a].finishedAt = records[a].finishedAt /\ a \in Behind(j)
        BY <1>6, <2>1, <3>1, <3>3, <4>2
      <4>4. \A a \in Behind(j) : records[a].finishedAt <= now
        BY <1>2, <4>2 DEF TimeOK
      <4>5. ASSUME Class = "TimedJobGraph" PROVE CanceledAt(j) <= Start(j) /\ Began(j) /\ Start(j) = startedAt[j]
        <5>1. Began(j) /\ Start(j) = startedAt[j]
          BY <4>1, <4>5 DEF Began, Start
        <5>2. \A d \in Needs(j) : records[d].finishedAt <= Start(j)
          BY <1>2, <5>1, BehindIs DEF TimeOK
        <5>3. GraphStart <= Start(j)
          BY <1>2, <5>1 DEF TimeOK
        <5> QED  BY <1>2, <5>1, <5>2, <5>3, CanceledAtIs
      <4>6. CASE step[j] = "entered"
        <5>1. CASE Class = "TimedJobGraph"
          <6>1. Start(j)' = Start(j) /\ Began(j)
            BY <1>1, <3>1, <4>5, <5>1 DEF Start
          <6> QED  BY <1>1, <1>2, <1>3, <3>1, <4>1, <4>3, <4>5, <4>6, <5>1, <6>1 DEF TimeOK
        <5>2. CASE Class # "TimedJobGraph"
          <6>1. Class = "FailureCancelGraph" /\ records'[j].startedAt = now /\ step'[j] = "body"
            BY <4>1, <4>6, <5>2
          <6>2. Start(j)' = now
            BY <1>1, <6>1 DEF Start
          <6>3. records'[j].finishedAt <= now'
            BY <1>2, <3>1, <4>1, <4>6 DEF TimeOK
          <6> QED  BY <1>1, <1>3, <3>1, <4>3, <4>4, <6>1, <6>2, <6>3 DEF TimeOK
        <5> QED  BY <5>1, <5>2
      <4>7. CASE step[j] = "body"
        <5>1. Began(j) /\ step'[j] = "recorded"
          BY <4>1, <4>7 DEF Began
        <5>2. Start(j)' = Start(j)
          BY <1>1, <3>1, <4>1, <4>7 DEF Start
        <5>3. records'[j].startedAt = Start(j)
          <6>1. CASE Class = "TraceJobGraph"
            BY <4>1, <4>7, <6>1 DEF Start
          <6>2. CASE Class = "TimedJobGraph"
            BY <1>2, <4>1, <4>7, <6>2 DEF TimeOK
          <6>3. CASE Class = "FailureCancelGraph"
            BY <4>1, <4>7, <6>3 DEF Start
          <6> QED  BY <6>1, <6>2, <6>3 DEF Recording
        <5>4. Class = "TimedJobGraph" => records'[j].readyAt <= Start(j)
          BY <1>2, <4>1, <4>7 DEF TimeOK
        <5>5. /\ GraphStart <= Start(j) /\ Start(j) <= now
              /\ \A a \in Behind(j) : records[a].finishedAt <= Start(j)
          BY <1>2, <5>1 DEF TimeOK
        <5>6. Start(j) <= records'[j].finishedAt /\ records'[j].finishedAt <= now
          <6>1. CASE Class = "TraceJobGraph"
            BY <1>3, <4>1, <4>7, <6>1 DEF Start
          <6>2. CASE Class # "TraceJobGraph"
            BY <1>3, <4>1, <4>7, <5>5, <6>2
          <6> QED  BY <6>1, <6>2
        <5> QED  BY <1>1, <1>3, <3>1, <4>3, <5>1, <5>2, <5>3, <5>4, <5>5, <5>6 DEF TimeOK
      <4> QED  BY <4>1, <4>6, <4>7
    <3> QED  BY <3>2, <3>3
  <2> QED  BY <1>13, <2>2, <2>3, <2>4 DEF JobStep
<1> QED  BY <1>9, <1>10, <1>11, <1>12, <1>13 DEF Next, MainStep

LEMMA TimesInvariance == Spec => [](BuildInv /\ RunInv /\ TimesOK)
<1>1. RunInit => TimesOK
  <2> SUFFICES ASSUME RunInit, Recording, NEW j \in Nodes PROVE TimeOK(j)
    BY DEF TimesOK
  <2>1. BuildInv /\ TypeInv
    BY BuildInit, TypeInit
  <2>2. step[j] = "none" /\ records[j].finishedAt = 0 /\ now = GraphStart
    BY DEF RunInit
  <2> QED  BY <2>2 DEF TimeOK, Began, GraphStart
<1>2. BuildInv /\ RunInv /\ TimesOK /\ [Next]_vars => TimesOK'
  BY TimesNext
<1> QED  BY <1>1, <1>2, RunInvariance, PTL DEF Spec

(* The record of a node that was executed.                                 *)
LEMMA ExecutedTimes ==
  ASSUME BuildInv, RunInv, TimesOK, report # None, NEW j \in Nodes, Executed(records[j])
  PROVE  /\ CanceledAt(j) <= records[j].startedAt
         /\ \A d \in Needs(j) : records[d].finishedAt <= records[j].startedAt
         /\ records[j].startedAt <= records[j].finishedAt
         /\ Class = "TimedJobGraph" => records[j].readyAt <= records[j].startedAt
<1>1. Recording /\ phase[j] = "done" /\ RecordOK(j) /\ TimeOK(j) /\ TypeInv
  BY DEF RunInv, ReportOK, RecordsOK, TimesOK
<1>2. step[j] = "recorded"
  BY <1>1 DEF RecordOK, Executed
<1>3. Began(j)
  BY <1>1, <1>2 DEF Began
<1>4. records[j].startedAt = Start(j) /\ Start(j) <= records[j].finishedAt
  BY <1>1, <1>2 DEF TimeOK
<1>5. /\ GraphStart <= Start(j)
      /\ \A d \in Needs(j) : records[d].finishedAt <= Start(j)
  BY <1>1, <1>3, BehindIs DEF TimeOK
<1>6. CanceledAt(j) <= Start(j)
  BY <1>1, <1>5, CanceledAtIs
<1>7. Class = "TimedJobGraph" => records[j].readyAt <= Start(j)
  BY <1>1, <1>2 DEF TimeOK
<1> QED  BY <1>4, <1>5, <1>6, <1>7

LEMMA DurationIs ==
  ASSUME NEW a \in Nat, NEW b \in Nat, a <= b
  PROVE  Duration(a, b) = b - a
<1> DEFINE S == {0, b - a}
<1>1. S \in SUBSET Nat /\ S # {} /\ b - a \in Nat /\ (\A x \in S : x <= b - a) /\ b - a \in S
  OBVIOUS
<1> HIDE DEF S
<1>2. Max(S) \in S /\ \A x \in S : x <= Max(S)
  BY <1>1, MaxIs
<1>3. Max(S) \in Nat /\ Max(S) <= b - a /\ b - a <= Max(S)
  BY <1>1, <1>2
<1>4. Max(S) = b - a
  BY <1>1, <1>3
<1> QED  BY <1>4 DEF Duration, S

(* The intervals in a report are in order.  A node begins after every node *)
(* it depends on, directly or not, has recorded its end: what is recorded  *)
(* later is only a cancellation, and that is dated at the end of something *)
(* before it.                                                              *)
THEOREM IntervalsInOrder == Spec => []IntervalsOrdered
<1>1. BuildInv /\ RunInv /\ TimesOK => IntervalsOrdered
  <2> SUFFICES ASSUME BuildInv, RunInv, TimesOK, report # None PROVE IntervalsOrdered
    BY DEF IntervalsOrdered
  <2>1. /\ TypeInv /\ report = records /\ main \in {"run", "done"} /\ records \in [Nodes -> RecordSet]
        /\ DOMAIN records = Nodes /\ DOMAIN dependencies = Nodes
    BY RunFacts DEF RunInv, ReportOK, TypeInv, TypeOK, RecordSet, Times
  <2>2. DOMAIN order = 1 .. Len(order) /\ \A k \in 1 .. Len(order) : order[k] \in Nodes
    BY <2>1 DEF BuildInv, SearchTypeOK
  <2>3. ASSUME NEW j \in Nodes, Executed(records[j])
        PROVE  /\ records[j].startedAt - records[j].readyAt >= 0 \/ Class # "TimedJobGraph"
               /\ RunTime(records[j]) >= 0
               /\ Duration(CanceledAt(j), records[j].startedAt) = records[j].startedAt - CanceledAt(j)
               /\ Duration(records[j].startedAt, records[j].finishedAt)
                    = records[j].finishedAt - records[j].startedAt
               /\ \A d \in Needs(j) : records[d].finishedAt <= records[j].startedAt
    <3>1. /\ CanceledAt(j) <= records[j].startedAt
          /\ \A d \in Needs(j) : records[d].finishedAt <= records[j].startedAt
          /\ records[j].startedAt <= records[j].finishedAt
          /\ Class = "TimedJobGraph" => records[j].readyAt <= records[j].startedAt
      BY <2>3, ExecutedTimes
    <3>2. /\ records[j].startedAt \in Nat /\ records[j].finishedAt \in Nat /\ records[j].readyAt \in Nat
          /\ CanceledAt(j) \in Nat
      BY <2>1, TimeTypes, CanceledAtIs
    <3>3. Duration(CanceledAt(j), records[j].startedAt) = records[j].startedAt - CanceledAt(j)
      BY <3>1, <3>2, DurationIs
    <3>4. Duration(records[j].startedAt, records[j].finishedAt) = records[j].finishedAt - records[j].startedAt
      BY <3>1, <3>2, DurationIs
    <3> QED  BY <3>1, <3>2, <3>3, <3>4 DEF RunTime
  <2>4. ASSUME Class = "TimedJobGraph", NEW row \in ToSet(PrintedTable(report, order))
        PROVE  row.wait >= 0 /\ row.run >= 0
    <3>1. PICK k \in 1 .. Len(order) : row = PrintedTable(records, order)[k]
      BY <2>1, <2>2, <2>4 DEF ToSet, PrintedTable
    <3>2. PICK j \in Nodes : j = order[k]
      BY <2>2, <3>1
    <3>3. row = [node |-> j,
                 wait |-> IF Executed(records[j]) THEN records[j].startedAt - records[j].readyAt ELSE 0,
                 run  |-> IF Executed(records[j]) THEN RunTime(records[j]) ELSE 0]
      BY <2>2, <3>1, <3>2 DEF PrintedTable
    <3>4. CASE Executed(records[j])
      <4>1. row.wait = records[j].startedAt - records[j].readyAt /\ row.run = RunTime(records[j])
        BY <3>3, <3>4
      <4> QED  BY <2>3, <2>4, <3>4, <4>1
    <3>5. CASE ~Executed(records[j])
      <4>1. row.wait = 0 /\ row.run = 0
        BY <3>3, <3>5
      <4> QED  BY <4>1
    <3> QED  BY <3>4, <3>5
  <2>5. ASSUME NEW job \in ExportJobs(report, dependencies)
        PROVE  /\ job.ready + job.queue = job.start
               /\ job.start + job.run = report[job.node].finishedAt - GraphStart
    <3>1. PICK j \in Nodes :
            /\ Executed(records[j])
            /\ job = [node  |-> j,
                      ready |-> CanceledAt(j) - GraphStart,
                      queue |-> Duration(CanceledAt(j), records[j].startedAt),
                      start |-> records[j].startedAt - GraphStart,
                      run   |-> Duration(records[j].startedAt, records[j].finishedAt)]
      BY <2>1, <2>5 DEF ExportJobs, CanceledAt
    <3>2. /\ job.node = j /\ job.ready = CanceledAt(j) - GraphStart
          /\ job.queue = records[j].startedAt - CanceledAt(j)
          /\ job.start = records[j].startedAt - GraphStart
          /\ job.run = records[j].finishedAt - records[j].startedAt
      BY <2>3, <3>1
    <3>3. /\ records[j].startedAt \in Nat /\ records[j].finishedAt \in Nat
          /\ CanceledAt(j) \in Nat /\ GraphStart \in Nat
      BY <2>1, TimeTypes, CanceledAtIs
    <3> QED  BY <2>1, <3>2, <3>3
  <2>6. ASSUME NEW flow \in ExportFlows(report, dependencies)
        PROVE  flow.leaves <= flow.arrives
    <3>1. PICK arc \in Arcs(dependencies) :
            /\ Executed(records[arc[1]])
            /\ flow = [from |-> arc[2], to |-> arc[1],
                       leaves |-> records[arc[2]].finishedAt, arrives |-> records[arc[1]].startedAt]
      BY <2>1, <2>6 DEF ExportFlows
    <3>2. arc[1] \in Nodes /\ arc[2] \in Needs(arc[1])
      BY <2>1, <3>1 DEF Arcs, Needs
    <3>3. records[arc[2]].finishedAt <= records[arc[1]].startedAt
      BY <2>3, <3>1, <3>2
    <3> QED  BY <3>1, <3>3
  <2> QED  BY <2>4, <2>5, <2>6 DEF IntervalsOrdered
<1> QED  BY <1>1, TimesInvariance, PTL


-----------------------------------------------------------------------------
(* The cancellations.  When main writes the record of a canceled node, the *)
(* records of its dependencies are final: their closing calls come before. *)

Final(d) == phase[d] = "done" /\ (outcome[d] = "canceled" => records[d].status = "Canceled")

Dated(j) ==
  records[j].status = "Canceled" =>
    /\ phase[j] = "done" /\ outcome[j] = "canceled" /\ records[j].finishedAt = CanceledAt(j)
    /\ \A d \in Needs(j) : Final(d)

DatedOK == Recording => \A j \in Nodes : Dated(j)

LEMMA ReportedLast ==
  ASSUME BuildInv, RunInv, ReportTimed \/ ReportFailure, NEW j \in Nodes, j = Argument, NEW d \in Needs(j)
  PROVE  Final(d)
<1>1. main = "run" /\ script # <<>> /\ Head(script)[1] \in {"reportTimed", "reportFailure"}
  BY DEF ReportTimed, ReportFailure, Calling
<1>2. /\ Made \in Nat /\ Made + 1 \in 1 .. Len(Full) /\ Head(script) = Full[Made + 1] /\ FullShape
      /\ \A k \in 1 .. Made : Passed(Full[k])
  BY <1>1, CallIs DEF RunInv, ScriptOK
<1>3. PICK k \in 1 .. Len(Full) : k = Made + 1
  BY <1>2
<1>4. Full[k][1] \in {"reportTimed", "reportFailure"} /\ Full[k][2] = j
  BY <1>1, <1>2, <1>3 DEF Argument
<1>5. Closing \in {"reportTimed", "reportFailure"} /\ \E l \in 1 .. k - 1 : Full[l] = <<Closing, d>>
  BY <1>2, <1>4 DEF FullShape, Needs
<1>6. PICK l \in 1 .. Made : Full[l] = <<Closing, d>>
  BY <1>2, <1>3, <1>5
<1>7. Passed(<<Closing, d>>)
  BY <1>2, <1>6
<1> QED  BY <1>5, <1>7 DEF Passed, Final

LEMMA FinalKeeps ==
  ASSUME BuildInv, RunInv, DatedOK, Recording, [Next]_vars, NEW d \in Nodes, Final(d)
  PROVE  Final(d)' /\ records'[d].finishedAt = records[d].finishedAt
<1>1. Final(d)'
  BY Monotone DEF Kept, Final
<1>2. CASE records' = records
  BY <1>1, <1>2
<1>3. CASE ReportTimed \/ ReportFailure
  <2>1. \/ records'[d] = records[d]
        \/ outcome[d] = "canceled" /\ records'[d].finishedAt = CanceledAt(d)
    BY <1>3, ReportEffect DEF RunInv
  <2> QED  BY <1>1, <2>1 DEF Final, DatedOK, Dated
<1>4. ASSUME NEW i \in Nodes,
             \/ MeasuredJobRuns(i) \/ MeasuredJobEnds(i) \/ RecordExecution(i)
             \/ TracedJobRuns(i) \/ TracedJobEnds(i) \/ FulfilFuture(i)
      PROVE  records'[d] = records[d]
  <2>1. phase[i] = "running" /\ \A a \in Nodes \ {i} : records'[a] = records[a]
    BY <1>4, RecordEffect
  <2> QED  BY <2>1 DEF Final
<1>5. CASE Build /\ UNCHANGED <<script, poolVars, helper, now, recordVars, report>>
  BY <1>2, <1>5 DEF recordVars
<1>6. CASE BeginRun \/ SubmitNode \/ Wait \/ Get \/ WaitAll \/ CopyRecords \/ DestroyPool \/ Tick
  BY <1>2, <1>6 DEF BeginRun, SubmitNode, Wait, Get, WaitAll, CopyRecords, DestroyPool, Tick, recordVars
<1>7. CASE UNCHANGED vars
  BY <1>2, <1>7 DEF vars, recordVars
<1>8. ASSUME NEW i \in Nodes, JobStep(i) PROVE records'[d] = records[d]
  <2>1. CASE Resolve(i) \/ LeaveJob(i) \/ EnterJob(i) \/ \E child \in Nodes : SubmitChild(i, child)
    BY <2>1 DEF Resolve, LeaveJob, EnterJob, CallJob, SubmitChild, recordVars
  <2> QED  BY <1>4, <1>8, <2>1 DEF JobStep
<1> QED  BY <1>1, <1>3, <1>5, <1>6, <1>7, <1>8 DEF Next, MainStep

LEMMA CanceledAtKeeps ==
  ASSUME NEW j, dependencies' = dependencies, \A d \in Needs(j) : records'[d].finishedAt = records[d].finishedAt
  PROVE  CanceledAt(j)' = CanceledAt(j)
<1>1. {records'[d].finishedAt : d \in ToSet(dependencies[j])} = {records[d].finishedAt : d \in ToSet(dependencies[j])}
  BY DEF Needs
<1> QED  BY <1>1 DEF CanceledAt, LatestDependencyFinish, GraphStart

(* A job that was entered does not write that it was canceled.             *)
LEMMA RecordedStatus ==
  ASSUME BuildInv, RunInv, Recording, NEW i \in Nodes,
         \/ MeasuredJobRuns(i) \/ MeasuredJobEnds(i) \/ RecordExecution(i)
         \/ TracedJobRuns(i) \/ TracedJobEnds(i) \/ FulfilFuture(i)
  PROVE  records'[i].status # "Canceled"
<1>1. /\ records \in [Nodes -> RecordSet]
      /\ DOMAIN records[i] = {"status", "readyAt", "startedAt", "finishedAt"}
  BY DEF RunInv, TypeInv, TypeOK, RecordSet, Times
<1>2. ~FulfilFuture(i)
  <2>1. program.futures = {}
    BY RunFacts, CallsAssumption DEF Recording, Class
  <2> QED  BY <2>1 DEF FulfilFuture
<1>3. CASE MeasuredJobRuns(i) \/ TracedJobRuns(i)
  <2>1. records'[i].status = "Running"
    BY <1>1, <1>3 DEF MeasuredJobRuns, TracedJobRuns, Record
  <2> QED  BY <2>1
<1>4. CASE MeasuredJobEnds(i) \/ RecordExecution(i) \/ TracedJobEnds(i)
  <2>1. records'[i].status = Ended(i)
    BY <1>1, <1>4 DEF MeasuredJobEnds, RecordExecution, TracedJobEnds, Record
  <2> QED  BY <2>1 DEF Ended
<1> QED  BY <1>2, <1>3, <1>4

LEMMA DatedNext ==
  ASSUME BuildInv, RunInv, DatedOK, [Next]_vars
  PROVE  DatedOK'
<1>1. Recording' = Recording /\ Nodes' = Nodes
  BY StepFrame
<1> SUFFICES ASSUME Recording, NEW j \in Nodes, records'[j].status = "Canceled" PROVE Dated(j)'
  BY <1>1 DEF DatedOK, Dated
<1>2. j \in Jobs /\ phase \in [Jobs -> States] /\ Dated(j)
  BY RunFacts DEF RunInv, TypeInv, TypeOK, States, DatedOK
<1>3. ASSUME phase[j] = "done", outcome[j] = "canceled", \A d \in Needs(j) : Final(d),
             records'[j].finishedAt = CanceledAt(j)
      PROVE  Dated(j)'
  <2>1. main \in {"run", "done"}
    BY <1>2, <1>3 DEF RunInv, IdleOK
  <2>2. dependencies' = dependencies
    BY <2>1, StepFrame
  <2>3. \A d \in Needs(j) : Final(d)' /\ records'[d].finishedAt = records[d].finishedAt
    BY <1>3, FinalKeeps, NeedsIs
  <2>4. CanceledAt(j)' = CanceledAt(j)
    BY <2>2, <2>3, CanceledAtKeeps
  <2>5. Needs(j)' = Needs(j)
    BY <2>2 DEF Needs
  <2>6. phase'[j] = "done" /\ outcome'[j] = "canceled"
    BY <1>3, Monotone DEF Kept
  <2> QED  BY <1>3, <2>3, <2>4, <2>5, <2>6 DEF Dated
<1>4. CASE records'[j] = records[j]
  BY <1>2, <1>3, <1>4 DEF Dated
<1>5. CASE ReportTimed \/ ReportFailure
  <2>1. /\ phase[Argument] = "done"
        /\ \/ records'[j] = records[j]
           \/ j = Argument /\ outcome[j] = "canceled" /\ records'[j].finishedAt = CanceledAt(j)
    BY <1>5, ReportEffect DEF RunInv
  <2>2. CASE j = Argument /\ outcome[j] = "canceled" /\ records'[j].finishedAt = CanceledAt(j)
    <3>1. \A d \in Needs(j) : Final(d)
      BY <1>5, <2>2, ReportedLast
    <3> QED  BY <1>3, <2>1, <2>2, <3>1
  <2> QED  BY <1>4, <2>1, <2>2
<1>6. CASE Build /\ UNCHANGED <<script, poolVars, helper, now, recordVars, report>>
  BY <1>4, <1>6 DEF recordVars
<1>7. CASE BeginRun \/ SubmitNode \/ Wait \/ Get \/ WaitAll \/ CopyRecords \/ DestroyPool \/ Tick
  BY <1>4, <1>7 DEF BeginRun, SubmitNode, Wait, Get, WaitAll, CopyRecords, DestroyPool, Tick, recordVars
<1>8. CASE UNCHANGED vars
  BY <1>4, <1>8 DEF vars, recordVars
<1>9. ASSUME NEW i \in Nodes, JobStep(i) PROVE records'[j] = records[j]
  <2>1. CASE Resolve(i) \/ LeaveJob(i) \/ EnterJob(i) \/ \E child \in Nodes : SubmitChild(i, child)
    BY <2>1 DEF Resolve, LeaveJob, EnterJob, CallJob, SubmitChild, recordVars
  <2>2. CASE \/ MeasuredJobRuns(i) \/ MeasuredJobEnds(i) \/ RecordExecution(i)
             \/ TracedJobRuns(i) \/ TracedJobEnds(i) \/ FulfilFuture(i)
    <3>1. i # j
      BY <2>2, RecordedStatus
    <3>2. \A a \in Nodes \ {i} : records'[a] = records[a]
      BY <2>2, RecordEffect
    <3> QED  BY <3>1, <3>2
  <2> QED  BY <1>9, <2>1, <2>2 DEF JobStep
<1> QED  BY <1>4, <1>5, <1>6, <1>7, <1>8, <1>9 DEF Next, MainStep

LEMMA DatedInvariance == Spec => [](BuildInv /\ RunInv /\ TimesOK /\ DatedOK)
<1>1. RunInit => DatedOK
  BY DEF RunInit, DatedOK, Dated
<1>2. BuildInv /\ RunInv /\ DatedOK /\ [Next]_vars => DatedOK'
  BY DatedNext
<1> QED  BY <1>1, <1>2, TimesInvariance, PTL DEF Spec


(* In a graph in order, what is behind a node is what it reaches.          *)
LEMMA BehindIsAbove ==
  ASSUME BuildInv, IsInjective(order), ToSet(order) = Nodes, Sorted,
         \A x, y \in Nodes : <<x, y>> \in TrueEdges <=> y \in Needs(x), NEW j \in Nodes
  PROVE  Behind(j) = Above(j)
<1> DEFINE n == program.n
<1>1. program \in Programs /\ n \in Nat /\ 1 <= n /\ order \in Seq(Nodes)
  BY RunFacts DEF BuildInv, SearchTypeOK
<1>2. Len(order) = n
  BY <1>1, InjectiveLength DEF Nodes
<1>3. /\ \A k \in 1 .. n : order[k] \in Nodes
      /\ \A k \in 1 .. n : \A d \in Needs(order[k]) : \E l \in 1 .. k - 1 : order[l] = d
  <2>1. \A k \in 1 .. Len(order) : order[k] \in Nodes
    BY <1>1
  <2>2. \A k \in 1 .. Len(order) : \A d \in Needs(order[k]) : \E l \in 1 .. k - 1 : order[l] = d
    BY DEF Sorted, Needs
  <2> QED  BY <1>2, <2>1, <2>2
<1>4. PICK q \in 1 .. n : order[q] = j
  BY <1>1, <1>2 DEF ToSet
<1>5. PICK r : Reaches(r, j)
  BY <1>1, AboveIs
<1>6. /\ r[0] = {} /\ Above(j) = r[n] /\ \A k \in 0 .. n : r[k] \in SUBSET Nodes
      /\ \A k \in 1 .. n : \A x \in Nodes :
           x \in r[k] <=> \E y \in r[k - 1] \cup {j} : <<y, x>> \in TrueEdges
  BY <1>5 DEF Reaches
<1>7. ASSUME NEW k \in Nat, k < n, NEW x \in Nodes
      PROVE  x \in r[k + 1] <=> \E y \in r[k] \cup {j} : x \in Needs(y)
  <2>1. k + 1 \in 1 .. n /\ (k + 1) - 1 = k /\ k \in 0 .. n
    BY <1>1, <1>7
  <2>2. x \in r[k + 1] <=> \E y \in r[k] \cup {j} : <<y, x>> \in TrueEdges
    BY <1>6, <2>1
  <2>3. r[k] \cup {j} \in SUBSET Nodes
    BY <1>6, <2>1
  <2> QED  BY <2>2, <2>3
<1> HIDE DEF n
(* One edge more never loses a node.                                       *)
<1>8. \A k \in Nat : k < n => r[k] \subseteq r[k + 1]
  <2> DEFINE T == {k \in Nat : k < n => r[k] \subseteq r[k + 1]}
  <2>1. 0 \in T
    BY <1>6
  <2>2. ASSUME NEW k \in Nat, k \in T PROVE k + 1 \in T
    <3> SUFFICES ASSUME k + 1 < n, NEW x \in r[k + 1] PROVE x \in r[(k + 1) + 1]
      OBVIOUS
    <3>1. k < n /\ k + 1 \in Nat /\ k + 1 \in 0 .. n
      BY <1>1
    <3>2. x \in Nodes
      BY <1>6, <3>1
    <3>3. PICK y \in r[k] \cup {j} : x \in Needs(y)
      BY <1>7, <3>1, <3>2
    <3>4. y \in r[k + 1] \cup {j}
      BY <2>2, <3>1
    <3> QED  BY <1>7, <3>1, <3>2, <3>3, <3>4
  <2> HIDE DEF T
  <2>3. Nat \subseteq T
    BY <2>1, <2>2, NatInduct
  <2> QED  BY <2>3 DEF T
<1>9. \A a, b \in Nat : a <= b /\ b <= n => r[a] \subseteq r[b]
  <2> SUFFICES ASSUME NEW a \in Nat PROVE \A b \in Nat : a <= b /\ b <= n => r[a] \subseteq r[b]
    OBVIOUS
  <2> DEFINE T == {b \in Nat : a <= b /\ b <= n => r[a] \subseteq r[b]}
  <2>1. 0 \in T
    BY <1>6
  <2>2. ASSUME NEW b \in Nat, b \in T PROVE b + 1 \in T
    <3> SUFFICES ASSUME a <= b + 1, b + 1 <= n PROVE r[a] \subseteq r[b + 1]
      OBVIOUS
    <3>1. b < n /\ b <= n
      BY <1>1
    <3>2. CASE a = b + 1
      BY <3>2
    <3>3. CASE a # b + 1
      <4>1. a <= b
        BY <3>3
      <4> QED  BY <1>8, <2>2, <3>1, <4>1
    <3> QED  BY <3>2, <3>3
  <2> HIDE DEF T
  <2>3. Nat \subseteq T
    BY <2>1, <2>2, NatInduct
  <2> QED  BY <2>3 DEF T
(* What is reached is behind the node.                                     *)
<1>10. r[n] \subseteq Behind(j)
  <2> DEFINE T == {k \in Nat : k <= n => r[k] \subseteq Behind(j)}
  <2>1. 0 \in T
    BY <1>6
  <2>2. ASSUME NEW k \in Nat, k \in T PROVE k + 1 \in T
    <3> SUFFICES ASSUME k + 1 <= n, NEW x \in r[k + 1] PROVE x \in Behind(j)
      OBVIOUS
    <3>1. k < n /\ k <= n /\ k + 1 \in 0 .. n
      BY <1>1
    <3>2. x \in Nodes
      BY <1>6, <3>1
    <3>3. PICK y \in r[k] \cup {j} : x \in Needs(y)
      BY <1>7, <3>1, <3>2
    <3> QED  BY <2>2, <3>1, <3>3, BehindIs
  <2> HIDE DEF T
  <2>3. Nat \subseteq T
    BY <2>1, <2>2, NatInduct
  <2> QED  BY <1>1, <2>3 DEF T
(* An edge leads back in the order, so that a node is reached by no more   *)
(* edges than it lies before j.                                            *)
<1>11. \A x \in r[n] : \E l \in 1 .. q - 1 : order[l] = x /\ x \in r[q - l]
  <2> DEFINE T == {k \in Nat : k <= n => \A x \in r[k] : \E l \in 1 .. q - 1 : order[l] = x /\ x \in r[q - l]}
  <2>1. 0 \in T
    BY <1>6
  <2>2. ASSUME NEW k \in Nat, k \in T PROVE k + 1 \in T
    <3> SUFFICES ASSUME k + 1 <= n, NEW x \in r[k + 1]
                 PROVE  \E l \in 1 .. q - 1 : order[l] = x /\ x \in r[q - l]
      OBVIOUS
    <3>1. k < n /\ k <= n /\ k + 1 \in 0 .. n
      BY <1>1
    <3>2. x \in Nodes
      BY <1>6, <3>1
    <3>3. PICK y \in r[k] \cup {j} : x \in Needs(y)
      BY <1>7, <3>1, <3>2
    <3>4. PICK p \in 1 .. q : order[p] = y /\ (p < q => y \in r[q - p]) /\ (p = q => y = j)
      <4>1. CASE y = j
        BY <1>1, <1>4, <4>1
      <4>2. CASE y \in r[k]
        <5>1. PICK l \in 1 .. q - 1 : order[l] = y /\ y \in r[q - l]
          BY <2>2, <3>1, <4>2
        <5> QED  BY <1>1, <1>4, <5>1
      <4> QED  BY <4>1, <4>2
    <3>5. p \in 1 .. n /\ q - p \in Nat /\ q - p < n
      BY <1>1, <1>4, <3>4
    <3>6. PICK l \in 1 .. p - 1 : order[l] = x
      BY <1>3, <3>3, <3>4, <3>5
    <3>7. y \in r[q - p] \cup {j}
      BY <3>4, <3>5
    <3>8. x \in r[(q - p) + 1]
      <4>1. PICK i \in Nat : i = q - p
        BY <3>5
      <4>2. i < n /\ y \in r[i] \cup {j}
        BY <3>5, <3>7, <4>1
      <4>3. x \in r[i + 1]
        BY <1>7, <3>2, <3>3, <4>2
      <4> QED  BY <4>1, <4>3
    <3>9. /\ l \in 1 .. q - 1 /\ (q - p) + 1 \in Nat /\ q - l \in Nat
          /\ (q - p) + 1 <= q - l /\ q - l <= n
      BY <1>1, <1>4, <3>4, <3>6
    <3>10. r[(q - p) + 1] \subseteq r[q - l]
      BY <1>9, <3>9
    <3> QED  BY <3>6, <3>8, <3>9, <3>10
  <2> HIDE DEF T
  <2>3. Nat \subseteq T
    BY <2>1, <2>2, NatInduct
  <2> QED  BY <1>1, <2>3 DEF T
<1>12. Needs(j) \subseteq r[n]
  <2> SUFFICES ASSUME NEW d \in Needs(j) PROVE d \in r[n]
    OBVIOUS
  <2>1. PICK i \in Nat : i + 1 = n /\ i < n
    <3>1. n - 1 \in Nat /\ (n - 1) + 1 = n /\ n - 1 < n
      BY <1>1 DEF n
    <3> QED  BY <3>1
  <2>2. d \in r[i + 1]
    BY <1>7, <2>1, NeedsIs
  <2> QED  BY <2>1, <2>2
<1>13. ASSUME NEW x \in r[n], NEW d \in Needs(x) PROVE d \in r[n]
  <2>1. x \in Nodes /\ d \in Nodes
    <3>1. n \in 0 .. n
      BY <1>1 DEF n
    <3>2. x \in Nodes
      BY <1>6, <3>1
    <3> QED  BY <3>2, NeedsIs
  <2>2. PICK l \in 1 .. q - 1 : x \in r[q - l]
    BY <1>11
  <2>3. PICK i \in Nat : i = q - l /\ i < n /\ i + 1 <= n
    <3>1. q - l \in Nat /\ q - l < n /\ (q - l) + 1 <= n
      BY <1>1, <1>4, <2>2 DEF n
    <3> QED  BY <3>1
  <2>4. d \in r[i + 1]
    BY <1>7, <2>1, <2>2, <2>3
  <2>5. i + 1 \in Nat /\ n \in Nat
    BY <1>1
  <2> QED  BY <1>9, <2>3, <2>4, <2>5
<1>14. Behind(j) \subseteq r[n]
  <2>1. r[n] \in SUBSET Nodes
    <3>1. n \in 0 .. n
      BY <1>1 DEF n
    <3> QED  BY <1>6, <3>1
  <2> QED  BY <1>12, <1>13, <2>1, BehindIs
<1>15. Above(j) = r[n]
  BY <1>6
<1> QED  BY <1>10, <1>14, <1>15


(* When a run has been reported, each node has been executed or canceled,  *)
(* and a failure that cancels a node is recorded as one.                   *)
LEMMA ReportedNodes ==
  ASSUME BuildInv, RunInv, TimesOK, DatedOK, report # None
  PROVE  /\ Recording /\ report = records /\ cycles = {} /\ main \in {"run", "done"}
         /\ \A j \in Nodes :
              /\ Executed(records[j]) \/ records[j].status = "Canceled"
              /\ Executed(records[j]) => GraphStart <= records[j].finishedAt
              /\ outcome[j] # None => records[j].status \in {"Failed", "Canceled"}
              /\ records[j].status = "Canceled" =>
                   /\ records[j].finishedAt = CanceledAt(j)
                   /\ \E d \in Needs(j) : outcome[d] # None
<1>1. Recording /\ report = records /\ main \in {"run", "done"} /\ TypeInv /\ BuildInv
  BY DEF RunInv, ReportOK
<1>2. cycles = {}
  <2>1. 1 \in Nodes /\ 1 \in Jobs /\ phase[1] = "done"
    BY RunFacts DEF RunInv, ReportOK, Nodes
  <2> QED  BY <2>1 DEF RunInv, IdleOK
<1>3. ASSUME NEW j \in Nodes
      PROVE  /\ Executed(records[j]) \/ records[j].status = "Canceled"
             /\ Executed(records[j]) => GraphStart <= records[j].finishedAt
             /\ outcome[j] # None => records[j].status \in {"Failed", "Canceled"}
             /\ records[j].status = "Canceled" =>
                  /\ records[j].finishedAt = CanceledAt(j)
                  /\ \E d \in Needs(j) : outcome[d] # None
  <2>1. /\ phase[j] = "done" /\ RecordOK(j) /\ TimeOK(j) /\ JobOK(j) /\ Dated(j)
        /\ outcome[j] = "canceled" => records[j].status = "Canceled"
    BY <1>1 DEF RunInv, ReportOK, RecordsOK, TimesOK, JobsOK, DatedOK
  <2>2. outcome[j] # "canceled" => /\ step[j] = "recorded" /\ records[j].status = Ended(j)
    BY <2>1 DEF RecordOK
  <2>3. Executed(records[j]) \/ records[j].status = "Canceled"
    BY <2>1, <2>2 DEF Executed, Ended
  <2>4. ASSUME Executed(records[j]) PROVE GraphStart <= records[j].finishedAt
    <3>1. CanceledAt(j) <= records[j].startedAt /\ records[j].startedAt <= records[j].finishedAt
      BY <2>4, ExecutedTimes
    <3>2. GraphStart <= CanceledAt(j) /\ CanceledAt(j) \in Nat
      BY <1>1, CanceledAtIs
    <3>3. records[j].startedAt \in Nat /\ records[j].finishedAt \in Nat /\ GraphStart \in Nat
      BY <1>1, TimeTypes
    <3> QED  BY <3>1, <3>2, <3>3
  <2>5. ASSUME outcome[j] # None PROVE records[j].status \in {"Failed", "Canceled"}
    <3>1. CASE outcome[j] = "canceled"
      BY <2>1, <3>1
    <3>2. CASE outcome[j] # "canceled"
      <4>1. j \in Escaping
        BY <2>1, <2>5, <3>2 DEF JobOK, Verdict
      <4> QED  BY <2>2, <3>2, <4>1 DEF Escaping, Ended
    <3> QED  BY <3>1, <3>2
  <2>6. ASSUME records[j].status = "Canceled"
        PROVE  records[j].finishedAt = CanceledAt(j) /\ \E d \in Needs(j) : outcome[d] # None
    <3>1. outcome[j] = "canceled" /\ records[j].finishedAt = CanceledAt(j)
      BY <2>1, <2>6 DEF Dated
    <3>2. "canceled" # None
      BY RunFacts
    <3>3. Failed(j)
      BY <2>1, <3>1, <3>2 DEF JobOK, Verdict
    <3> QED  BY <3>1, <3>3 DEF Failed
  <2> QED  BY <2>3, <2>4, <2>5, <2>6
<1> QED  BY <1>1, <1>2, <1>3

(* Everything behind a canceled node has ended by its date.                *)
LEMMA DatedLast ==
  ASSUME BuildInv, RunInv, TimesOK, DatedOK, report # None, NEW j \in Nodes, records[j].status = "Canceled"
  PROVE  \A a \in Behind(j) : records[a].finishedAt <= records[j].finishedAt
<1> DEFINE A == {a \in Nodes : records[a].finishedAt <= records[j].finishedAt}
<1>1. /\ TypeInv /\ \A x \in Nodes : /\ Executed(records[x]) \/ records[x].status = "Canceled"
                                     /\ records[x].status = "Canceled" => records[x].finishedAt = CanceledAt(x)
  BY ReportedNodes DEF RunInv
<1>2. \A x \in Nodes : records[x].finishedAt \in Nat /\ records[x].startedAt \in Nat /\ CanceledAt(x) \in Nat
  BY <1>1, TimeTypes, CanceledAtIs
<1>3. ASSUME NEW x \in Nodes, NEW d \in Needs(x) PROVE records[d].finishedAt <= records[x].finishedAt /\ d \in Nodes
  <2>1. d \in Nodes
    BY NeedsIs
  <2>2. CASE Executed(records[x])
    <3>1. records[d].finishedAt <= records[x].startedAt /\ records[x].startedAt <= records[x].finishedAt
      BY <2>2, ExecutedTimes
    <3> QED  BY <1>2, <2>1, <3>1
  <2>3. CASE records[x].status = "Canceled"
    BY <1>1, <2>1, <2>3, CanceledAtIs
  <2> QED  BY <1>1, <2>2, <2>3
<1>4. Needs(j) \subseteq A
  BY <1>3
<1>5. \A x \in A : Needs(x) \subseteq A
  <2> SUFFICES ASSUME NEW x \in A, NEW d \in Needs(x) PROVE d \in A
    OBVIOUS
  <2>1. records[d].finishedAt <= records[x].finishedAt /\ d \in Nodes /\ x \in Nodes
    BY <1>3
  <2> QED  BY <1>2, <2>1
<1>6. Behind(j) \subseteq A
  BY <1>4, <1>5, BehindIs
<1> QED  BY <1>6

(* A canceled node is dated at the end of an executed one behind it.       *)
LEMMA DatedAtEnd ==
  ASSUME BuildInv, RunInv, TimesOK, DatedOK, report # None,
         NEW j \in Nodes, records[j].status = "Canceled"
  PROVE  \E a \in Behind(j) : Executed(records[a]) /\ records[a].finishedAt = records[j].finishedAt
<1> DEFINE n == Len(order)
           Found(i) == records[i].status = "Canceled" =>
                         \E a \in Behind(i) : Executed(records[a]) /\ records[a].finishedAt = records[i].finishedAt
           T == {m \in Nat : \A l \in 1 .. n : l <= m => Found(order[l])}
<1>1. /\ n \in Nat /\ TypeInv /\ ToSet(order) = Nodes /\ Sorted
      /\ DOMAIN order = 1 .. n /\ \A l \in 1 .. n : order[l] \in Nodes
  <2>1. main \in {"run", "done"} /\ cycles = {}
    BY ReportedNodes
  <2> QED  BY <2>1 DEF BuildInv, SearchTypeOK, SettledOK, Settled, RunInv
<1>2. ASSUME NEW i \in Nodes, records[i].status = "Canceled", \A d \in Needs(i) : Found(d)
      PROVE  \E a \in Behind(i) : Executed(records[a]) /\ records[a].finishedAt = records[i].finishedAt
  <2>1. /\ records[i].finishedAt = CanceledAt(i) /\ GraphStart \in Nat /\ \A x \in Nodes : records[x].finishedAt \in Nat
        /\ \A d \in Needs(i) : d \in Nodes
    BY <1>1, <1>2, ReportedNodes, TimeTypes, NeedsIs
  <2>2. ASSUME NEW d \in Needs(i), records[d].finishedAt = records[i].finishedAt
        PROVE  \E a \in Behind(i) : Executed(records[a]) /\ records[a].finishedAt = records[i].finishedAt
    <3>1. d \in Behind(i) /\ d \in Nodes /\ Behind(d) \subseteq Behind(i)
      <4>1. /\ Behind(i) \in SUBSET Nodes /\ Needs(i) \subseteq Behind(i)
            /\ \A a \in Behind(i) : Needs(a) \subseteq Behind(i)
        BY BehindIs
      <4>2. d \in Nodes /\ Needs(d) \subseteq Behind(i)
        BY <4>1
      <4>3. Behind(d) \subseteq Behind(i)
        BY <4>1, <4>2, BehindIs
      <4> QED  BY <4>1, <4>3
    <3>2. CASE Executed(records[d])
      BY <2>2, <3>1, <3>2
    <3>3. CASE records[d].status = "Canceled"
      BY <1>2, <2>2, <3>1, <3>3
    <3> QED  BY <3>1, <3>2, <3>3, ReportedNodes
  <2>3. CASE \E d \in Needs(i) : CanceledAt(i) = records[d].finishedAt
    BY <2>1, <2>2, <2>3
  <2>4. CASE CanceledAt(i) = GraphStart
    <3>1. PICK d \in Needs(i) : outcome[d] # None
      BY <1>2, ReportedNodes
    <3>2. records[d].finishedAt <= GraphStart
      BY <1>1, <2>1, <2>4, DatedLast, <1>2, BehindIs
    <3>3. GraphStart <= records[d].finishedAt
      <4>1. d \in Nodes
        BY <2>1
      <4>2. CASE Executed(records[d])
        BY <4>1, <4>2, ReportedNodes
      <4>3. CASE records[d].status = "Canceled"
        BY <1>1, <4>1, <4>3, ReportedNodes, CanceledAtIs
      <4> QED  BY <4>1, <4>2, <4>3, ReportedNodes
    <3>4. records[d].finishedAt = records[i].finishedAt
      BY <2>1, <2>4, <3>2, <3>3
    <3> QED  BY <2>2, <3>4
  <2> QED  BY <1>1, <2>3, <2>4, CanceledAtIs
<1>3. 0 \in T
  OBVIOUS
<1>4. ASSUME NEW m \in Nat, m \in T PROVE m + 1 \in T
  <2> SUFFICES ASSUME NEW l \in 1 .. n, l <= m + 1 PROVE Found(order[l])
    OBVIOUS
  <2>1. \A d \in Needs(order[l]) : Found(d)
    <3> SUFFICES ASSUME NEW d \in Needs(order[l]) PROVE Found(d)
      OBVIOUS
    <3>1. PICK k \in 1 .. l - 1 : order[k] = d
      BY <1>1 DEF Sorted, Needs
    <3>2. k \in 1 .. n /\ k <= m
      BY <1>1, <1>4
    <3> HIDE DEF Found
    <3> QED  BY <1>4, <3>1, <3>2
  <2>2. order[l] \in Nodes
    BY <1>1
  <2> QED  BY <1>2, <2>1, <2>2
<1>5. n \in T
  <2> HIDE DEF T
  <2>1. Nat \subseteq T
    BY <1>3, <1>4, NatInduct
  <2> QED  BY <1>1, <2>1
<1>6. PICK l \in 1 .. n : order[l] = j
  BY <1>1 DEF ToSet
<1>7. Found(j)
  <2> HIDE DEF Found
  <2> QED  BY <1>1, <1>5, <1>6
<1> QED  BY <1>7

(* A canceled node is dated at the end of the last executed node it        *)
(* depends on, through canceled nodes too, and the exported arrows lead    *)
(* from a node that failed or was canceled, never back in time.            *)
THEOREM CancellationsAreDated == Spec => []CancellationsDated
<1>1. BuildInv /\ RunInv /\ TimesOK /\ DatedOK => CancellationsDated
  <2> SUFFICES ASSUME BuildInv, RunInv, TimesOK, DatedOK, report # None,
                      NEW j \in Nodes, report[j].status = "Canceled"
               PROVE  /\ report[j].finishedAt = Max({report[a].finishedAt : a \in {b \in Above(j) : Executed(report[b])}})
                      /\ \E flow \in ExportCancelFlows(report, dependencies) : flow.to = j
                      /\ \A flow \in ExportCancelFlows(report, dependencies) : flow.to = j => flow.leaves <= flow.arrives
    BY DEF CancellationsDated
  <2>1. Recording /\ report = records /\ cycles = {} /\ main \in {"run", "done"} /\ TypeInv
    BY ReportedNodes DEF RunInv
  <2>2. records[j].status = "Canceled" /\ records[j].finishedAt = CanceledAt(j)
    BY <2>1, ReportedNodes
  <2>3. Behind(j) = Above(j)
    <3>1. IsInjective(order) /\ ToSet(order) = Nodes /\ Sorted
      BY <2>1 DEF BuildInv, SettledOK, Settled
    <3>2. ASSUME NEW x \in Nodes, NEW y \in Nodes PROVE <<x, y>> \in TrueEdges <=> y \in Needs(x)
      <4>1. main \in Listed
        BY <2>1 DEF Listed
      <4>2. y \in Needs(x) => <<x, y>> \in TrueEdges
        BY <4>1, ListedEdges DEF Needs
      <4>3. ASSUME <<x, y>> \in TrueEdges PROVE y \in Needs(x)
        <5>1. PICK i \in DOMAIN Edges : <<Edges[i][1], Edges[i][2]>> = <<x, y>>
          BY <4>3 DEF TrueEdges
        <5>2. i \in Used
          BY <2>1, <5>1 DEF Used, Recording
        <5>3. Edges[i] = <<x, y>>
          BY <5>1, ProgramFacts DEF BuildInv, ControlOK
        <5> QED  BY <4>1, <5>2, <5>3 DEF BuildInv, ListsOK, Needs
      <4> QED  BY <4>2, <4>3
    <3> QED  BY <3>1, <3>2, BehindIsAbove
  <2>4. \A x \in Nodes : records[x].finishedAt \in Nat
    BY <2>1, TimeTypes
  <2>5. records[j].finishedAt = Max({records[a].finishedAt : a \in {b \in Behind(j) : Executed(records[b])}})
    <3> DEFINE S == {records[a].finishedAt : a \in {b \in Behind(j) : Executed(records[b])}}
    <3>1. S \in SUBSET Nat /\ \A x \in S : x <= records[j].finishedAt
      BY <2>2, <2>4, BehindIs, DatedLast
    <3>2. records[j].finishedAt \in S
      <4>1. PICK a \in Behind(j) : Executed(records[a]) /\ records[a].finishedAt = records[j].finishedAt
        BY <2>2, DatedAtEnd
      <4> QED  BY <4>1
    <3> HIDE DEF S
    <3>3. Max(S) \in S /\ \A x \in S : x <= Max(S)
      BY <2>4, <3>1, <3>2, MaxIs
    <3>4. Max(S) \in Nat /\ records[j].finishedAt <= Max(S) /\ Max(S) <= records[j].finishedAt
      BY <3>1, <3>2, <3>3
    <3>5. records[j].finishedAt = Max(S)
      BY <2>4, <3>4
    <3> QED  BY <3>5 DEF S
  <2>6. DOMAIN dependencies = Nodes /\ \A arc : arc \in Arcs(dependencies) <=>
          arc \in Nodes \X Nodes /\ arc[2] \in Needs(arc[1])
    BY RunFacts DEF Arcs, Needs
  <2>7. \E flow \in ExportCancelFlows(records, dependencies) : flow.to = j
    <3>1. PICK d \in Needs(j) : outcome[d] # None
      BY <2>2, ReportedNodes
    <3>2. d \in Nodes /\ records[d].status \in {"Failed", "Canceled"}
      BY <3>1, ReportedNodes, NeedsIs
    <3> DEFINE arc == <<j, d>>
               flow == [from |-> arc[2], to |-> arc[1],
                        leaves |-> records[arc[2]].finishedAt, arrives |-> records[arc[1]].finishedAt]
    <3>3. arc \in Arcs(dependencies) /\ records[arc[1]].status = "Canceled" /\ records[arc[2]].status \in {"Failed", "Canceled"}
      BY <2>2, <2>6, <3>1, <3>2
    <3>4. flow \in ExportCancelFlows(records, dependencies)
      BY <3>3 DEF ExportCancelFlows
    <3>5. flow.to = j
      OBVIOUS
    <3> QED  BY <3>4, <3>5
  <2>8. ASSUME NEW flow \in ExportCancelFlows(records, dependencies), flow.to = j
        PROVE  flow.leaves <= flow.arrives
    <3>1. PICK arc \in Arcs(dependencies) :
            flow = [from |-> arc[2], to |-> arc[1],
                    leaves |-> records[arc[2]].finishedAt, arrives |-> records[arc[1]].finishedAt]
      BY <2>8 DEF ExportCancelFlows
    <3>2. /\ arc[1] = j /\ arc[2] \in Needs(j)
          /\ flow.leaves = records[arc[2]].finishedAt /\ flow.arrives = records[j].finishedAt
      BY <2>6, <2>8, <3>1
    <3>3. records[arc[2]].finishedAt <= records[j].finishedAt
      BY <2>2, <3>2, DatedLast, BehindIs
    <3> QED  BY <3>2, <3>3
  <2> QED  BY <2>1, <2>3, <2>5, <2>7, <2>8
<1> QED  BY <1>1, DatedInvariance, PTL


-----------------------------------------------------------------------------
(* The critical path.  The pass over the nodes keeps, for each succeeded   *)
(* node it has met, the length of a longest path that ends there and the   *)
(* node before on one.                                                     *)

Took(j) == RunTime(report[j])
Succeeded == {j \in Nodes : report[j].status = "Succeeded"}

Measured ==
  /\ program.n \in Nat
  /\ DOMAIN report = Nodes
  /\ \A j \in Nodes : Took(j) \in Int
  /\ \A j \in Succeeded : Took(j) >= 0
  /\ dependencies \in [Nodes -> Seq(Nodes)]
  /\ order \in Seq(Nodes) /\ IsInjective(order) /\ ToSet(order) = Nodes /\ Sorted

FoundSet == [longest : [Nodes -> Int], previous : [Nodes -> Nodes \cup {0}],
             duration : Int, end : Nodes \cup {0}]

NothingFound == [longest  |-> [id \in DOMAIN report |-> -1],
                 previous |-> [id \in DOMAIN report |-> 0],
                 duration |-> -1, end |-> 0]

LengthBefore(found, b) == IF b = 0 THEN 0 ELSE found.longest[b]

(* What is found of a succeeded node.                                      *)
Extended(found, j) ==
  /\ found.previous[j] # 0 => /\ found.previous[j] \in ToSet(dependencies[j])
                              /\ found.longest[found.previous[j]] > 0
  /\ found.longest[j] = LengthBefore(found, found.previous[j]) + Took(j)
  /\ \A d \in ToSet(dependencies[j]) : found.longest[d] <= LengthBefore(found, found.previous[j])

(* What is found when the nodes of D have been met.                        *)
PassOK(found, D) ==
  /\ found \in FoundSet
  /\ \A j \in D \cap Succeeded : Extended(found, j)
  /\ \A j \in Nodes \ (D \cap Succeeded) : found.longest[j] = -1
  /\ \A j \in Nodes : found.longest[j] <= found.duration
  /\ found.end = 0 => found.duration = -1
  /\ found.end # 0 => found.longest[found.end] = found.duration /\ found.duration >= 0

LEMMA NodeSet ==
  ASSUME Measured
  PROVE  /\ IsFiniteSet(Nodes) /\ 0 \notin Nodes
         /\ \A j \in Nodes : /\ dependencies[j] \in Seq(Nodes)
                             /\ ToSet(dependencies[j]) \in SUBSET Nodes
                             /\ IsFiniteSet(ToSet(dependencies[j]))
<1>1. IsFiniteSet(Nodes) /\ 0 \notin Nodes
  BY FS_Interval DEF Measured, Nodes
<1>2. ASSUME NEW j \in Nodes
      PROVE  dependencies[j] \in Seq(Nodes) /\ ToSet(dependencies[j]) \in SUBSET Nodes
  <2>1. dependencies[j] \in Seq(Nodes)
    BY DEF Measured
  <2> QED  BY <2>1 DEF ToSet
<1> QED  BY <1>1, <1>2, FS_Subset

LEMMA LongestIs ==
  ASSUME Measured, NEW longest \in [Nodes -> Int], NEW j \in Nodes,
         NEW b, b = LongestBefore(longest, dependencies[j])
  PROVE  /\ b = 0 => \A d \in ToSet(dependencies[j]) : longest[d] <= 0
         /\ b # 0 => /\ b \in ToSet(dependencies[j]) /\ longest[b] > 0
                     /\ \A d \in ToSet(dependencies[j]) : longest[d] <= longest[b]
         /\ b \in Nodes \cup {0}
<1> DEFINE A == ToSet(dependencies[j])
           S == {0} \cup {longest[d] : d \in A}
           K == {k \in DOMAIN dependencies[j] : longest[dependencies[j][k]] = Max(S)}
<1>1. A \in SUBSET Nodes /\ IsFiniteSet(A) /\ \A d \in A : longest[d] \in Int
  <2>1. A \in SUBSET Nodes /\ IsFiniteSet(A)
    BY NodeSet
  <2> QED  BY <2>1
<1>2. b = IF Max(S) = 0 THEN 0 ELSE dependencies[j][Min(K)]
  BY DEF LongestBefore
<1>3. \E m \in S : \A x \in S : m >= x
  <2>1. CASE A = {}
    BY <2>1
  <2>2. CASE A # {}
    <3>1. PICK m \in A : \A d \in A : longest[d] <= longest[m]
      <4> HIDE DEF A
      <4> QED  BY <1>1, <2>2, Greatest
    <3>2. longest[m] \in Int
      BY <1>1
    <3>3. CASE longest[m] >= 0
      BY <1>1, <3>1, <3>2, <3>3
    <3>4. CASE longest[m] <= 0
      BY <1>1, <3>1, <3>2, <3>4
    <3> QED  BY <3>2, <3>3, <3>4
  <2> QED  BY <2>1, <2>2
<1>4. Max(S) \in S /\ \A x \in S : Max(S) >= x
  <2> HIDE DEF S
  <2> QED  BY <1>3 DEF Max
<1>5. Max(S) \in Int /\ Max(S) >= 0 /\ \A d \in A : longest[d] <= Max(S)
  <2>1. S \in SUBSET Int /\ 0 \in S /\ \A d \in A : longest[d] \in S
    BY <1>1
  <2> HIDE DEF S, A
  <2> QED  BY <1>1, <1>4, <2>1
<1>6. CASE Max(S) = 0
  <2> HIDE DEF S, K, A
  <2> QED  BY <1>2, <1>5, <1>6 DEF A
<1>7. CASE Max(S) # 0
  <2>1. PICK d \in A : longest[d] = Max(S)
    <3>1. \A x \in S : x = 0 \/ \E d \in A : longest[d] = x
      OBVIOUS
    <3> HIDE DEF S, A
    <3> QED  BY <1>4, <1>7, <3>1
  <2>2. K \in SUBSET Nat /\ K # {}
    <3>1. dependencies[j] \in Seq(Nodes)
      BY NodeSet
    <3>2. DOMAIN dependencies[j] \in SUBSET Nat
      BY <3>1
    <3>3. PICK k \in DOMAIN dependencies[j] : dependencies[j][k] = d
      BY <2>1 DEF ToSet
    <3> HIDE DEF S
    <3> QED  BY <2>1, <3>2, <3>3
  <2>3. Min(K) \in K
    <3> HIDE DEF K
    <3> QED  BY <2>2, MinIs
  <2>4. b \in A /\ longest[b] = Max(S)
    <3>1. b = dependencies[j][Min(K)]
      BY <1>2, <1>7
    <3>2. Min(K) \in DOMAIN dependencies[j] /\ longest[dependencies[j][Min(K)]] = Max(S)
      <4> HIDE DEF S
      <4> QED  BY <2>3
    <3> HIDE DEF S, K
    <3> QED  BY <3>1, <3>2 DEF ToSet
  <2>5. b \in Nodes /\ b # 0
    BY <1>1, <2>4, NodeSet
  <2> HIDE DEF S, K
  <2> QED  BY <1>5, <1>7, <2>4, <2>5
<1> QED  BY <1>6, <1>7


LEMMA ExtendTyped ==
  ASSUME Measured, NEW found \in FoundSet, NEW j \in Nodes
  PROVE  Extend(report, dependencies, found, j) \in FoundSet
<1> DEFINE b == LongestBefore(found.longest, dependencies[j])
           length == (IF b = 0 THEN 0 ELSE found.longest[b]) + RunTime(report[j])
<1>1. /\ found.longest \in [Nodes -> Int] /\ found.previous \in [Nodes -> Nodes \cup {0}]
      /\ found.duration \in Int /\ found.end \in Nodes \cup {0}
  BY DEF FoundSet
<1>2. b \in Nodes \cup {0}
  BY <1>1, LongestIs
<1>3. length \in Int
  <2>1. RunTime(report[j]) \in Int
    BY DEF Measured, Took
  <2> HIDE DEF b
  <2> QED  BY <1>1, <1>2, <2>1
<1> HIDE DEF b, length
<1>4. /\ [found.longest EXCEPT ![j] = length] \in [Nodes -> Int]
      /\ [found.previous EXCEPT ![j] = b] \in [Nodes -> Nodes \cup {0}]
  BY <1>1, <1>2, <1>3
<1>5. Extend(report, dependencies, found, j) =
        IF report[j].status # "Succeeded" THEN found
        ELSE [longest  |-> [found.longest EXCEPT ![j] = length],
              previous |-> [found.previous EXCEPT ![j] = b],
              duration |-> IF length > found.duration THEN length ELSE found.duration,
              end      |-> IF length > found.duration THEN j ELSE found.end]
  BY DEF Extend, b, length
<1> QED  BY <1>1, <1>3, <1>4, <1>5 DEF FoundSet

LEMMA ExtendKeeps ==
  ASSUME Measured, NEW D \in SUBSET Nodes, NEW j \in Nodes, j \notin D,
         \A x \in D \cup {j} : ToSet(dependencies[x]) \subseteq D,
         NEW found, PassOK(found, D), NEW g, g = Extend(report, dependencies, found, j)
  PROVE  PassOK(g, D \cup {j})
<1>1. /\ found \in FoundSet
      /\ found.longest \in [Nodes -> Int] /\ found.previous \in [Nodes -> Nodes \cup {0}]
      /\ found.duration \in Int /\ found.end \in Nodes \cup {0}
  BY DEF PassOK, FoundSet
<1>2. CASE j \notin Succeeded
  <2>1. g = found
    BY <1>2 DEF Extend, Succeeded
  <2>2. (D \cup {j}) \cap Succeeded = D \cap Succeeded
    BY <1>2
  <2> QED  BY <2>1, <2>2 DEF PassOK
<1>3. CASE j \in Succeeded
  <2>1. PICK b : b = LongestBefore(found.longest, dependencies[j])
    OBVIOUS
  <2>2. PICK length : length = (IF b = 0 THEN 0 ELSE found.longest[b]) + RunTime(report[j])
    OBVIOUS
  <2>3. g = [longest  |-> [found.longest EXCEPT ![j] = length],
             previous |-> [found.previous EXCEPT ![j] = b],
             duration |-> IF length > found.duration THEN length ELSE found.duration,
             end      |-> IF length > found.duration THEN j ELSE found.end]
    BY <1>3, <2>1, <2>2 DEF Extend, Succeeded
  <2>4. g \in FoundSet
    BY <1>1, ExtendTyped
  <2>5. /\ b = 0 => \A d \in ToSet(dependencies[j]) : found.longest[d] <= 0
        /\ b # 0 => /\ b \in ToSet(dependencies[j]) /\ found.longest[b] > 0
                    /\ \A d \in ToSet(dependencies[j]) : found.longest[d] <= found.longest[b]
        /\ b \in Nodes \cup {0}
    BY <1>1, <2>1, LongestIs
  <2>6. /\ g.longest[j] = length /\ \A x \in Nodes \ {j} : g.longest[x] = found.longest[x]
        /\ g.previous[j] = b /\ \A x \in Nodes \ {j} : g.previous[x] = found.previous[x]
        /\ g.duration = IF length > found.duration THEN length ELSE found.duration
        /\ g.end = IF length > found.duration THEN j ELSE found.end
    BY <1>1, <2>3
  <2>7. Took(j) \in Int /\ Took(j) >= 0 /\ length \in Int /\ length >= 0
    <3>1. Took(j) \in Int /\ Took(j) >= 0 /\ Took(j) = RunTime(report[j])
      BY <1>3 DEF Measured, Took
    <3>2. b # 0 => found.longest[b] \in Int /\ found.longest[b] > 0
      BY <1>1, <2>5
    <3> QED  BY <2>2, <3>1, <3>2
  <2>8. Extended(g, j)
    <3>1. \A d \in ToSet(dependencies[j]) : d \in Nodes \ {j} /\ g.longest[d] = found.longest[d]
      BY <2>6
    <3>2. LengthBefore(g, b) = IF b = 0 THEN 0 ELSE found.longest[b]
      BY <2>5, <3>1 DEF LengthBefore
    <3>3. g.longest[j] = LengthBefore(g, g.previous[j]) + Took(j)
      BY <2>2, <2>6, <3>2 DEF Took
    <3>4. \A d \in ToSet(dependencies[j]) : g.longest[d] <= LengthBefore(g, g.previous[j])
      BY <2>5, <2>6, <3>1, <3>2
    <3> QED  BY <2>5, <2>6, <3>1, <3>3, <3>4 DEF Extended
  <2>9. ASSUME NEW x \in D \cap Succeeded PROVE Extended(g, x)
    <3>1. x \in Nodes \ {j} /\ Extended(found, x)
      BY DEF PassOK
    <3>2. \A d \in ToSet(dependencies[x]) : d \in Nodes \ {j} /\ g.longest[d] = found.longest[d]
      BY <2>6
    <3>3. g.previous[x] = found.previous[x] /\ g.longest[x] = found.longest[x]
      BY <2>6, <3>1
    <3>4. LengthBefore(g, g.previous[x]) = LengthBefore(found, found.previous[x])
      BY <3>1, <3>2, <3>3 DEF LengthBefore, Extended
    <3> QED  BY <3>1, <3>2, <3>3, <3>4 DEF Extended
  <2>10. \A x \in Nodes \ ((D \cup {j}) \cap Succeeded) : g.longest[x] = -1
    BY <1>3, <2>6 DEF PassOK
  <2>11. \A x \in Nodes : g.longest[x] <= g.duration
    <3>1. \A x \in Nodes : found.longest[x] <= found.duration /\ found.longest[x] \in Int
      BY <1>1 DEF PassOK
    <3> QED  BY <1>1, <2>6, <2>7, <3>1
  <2>12. CASE length > found.duration
    <3>1. g.end = j /\ g.duration = length /\ g.end # 0
      BY <2>6, <2>12, NodeSet
    <3> QED  BY <2>4, <2>6, <2>7, <2>8, <2>9, <2>10, <2>11, <3>1 DEF PassOK
  <2>13. CASE ~(length > found.duration)
    <3>1. g.end = found.end /\ g.duration = found.duration
      BY <2>6, <2>13
    <3>2. found.duration # -1
      BY <1>1, <2>7, <2>13
    <3>3. found.end # 0 /\ found.longest[found.end] = found.duration /\ found.duration >= 0
      BY <3>2 DEF PassOK
    <3>4. found.end # j
      <4>1. found.longest[j] = -1
        BY DEF PassOK
      <4> QED  BY <3>2, <3>3, <4>1
    <3>5. g.longest[g.end] = g.duration
      BY <1>1, <2>6, <3>1, <3>3, <3>4
    <3> QED  BY <2>4, <2>8, <2>9, <2>10, <2>11, <3>1, <3>3, <3>5 DEF PassOK
  <2> QED  BY <2>12, <2>13
<1> QED  BY <1>2, <1>3

LEMMA PassIs ==
  ASSUME Measured
  PROVE  PassOK(LongestPaths(report, dependencies, order), Nodes)
<1> DEFINE n == Len(order)
           Step(f, k) == Extend(report, dependencies, f, order[k])
           Is(f) == f = [k \in 0 .. n |-> IF k = 0 THEN NothingFound ELSE Step(f[k - 1], k)]
           G == [x \in (1 .. n) \X FoundSet |-> Step(x[2], x[1])]
           R == CHOOSE f : Is(f)
           Met(k) == {order[i] : i \in 1 .. k}
<1>1. n \in Nat /\ order \in Seq(Nodes) /\ DOMAIN order = 1 .. n /\ \A k \in 1 .. n : order[k] \in Nodes
  BY DEF Measured
<1>2. LongestPaths(report, dependencies, order) = R[n]
  BY DEF LongestPaths, NothingFound
<1>3. NothingFound \in FoundSet
  BY DEF NothingFound, FoundSet, Measured
<1>4. G \in RecursionSteps(n, FoundSet)
  <2>1. \A f \in FoundSet, k \in 1 .. n : Step(f, k) \in FoundSet
    BY <1>1, ExtendTyped
  <2> HIDE DEF Step
  <2> QED  BY <2>1 DEF RecursionSteps
<1>5. \E f : Is(f)
  <2>1. PICK f \in Solutions(n, FoundSet, NothingFound, G) : TRUE
    <3> HIDE DEF n, G
    <3> QED  BY <1>1, <1>3, <1>4, RecursionExists
  <2>2. f \in [0 .. n -> FoundSet] /\ f[0] = NothingFound /\ \A k \in 1 .. n : f[k] = G[<<k, f[k - 1]>>]
    BY <2>1 DEF Solutions
  <2>3. ASSUME NEW k \in 1 .. n PROVE f[k] = Step(f[k - 1], k)
    <3>1. k - 1 \in 0 .. n /\ f[k - 1] \in FoundSet
      BY <1>1, <2>2
    <3> HIDE DEF Step
    <3> QED  BY <2>2, <3>1
  <2>4. \A k \in 0 .. n : k # 0 => k \in 1 .. n
    BY <1>1
  <2> HIDE DEF Step, n
  <2>5. f = [k \in 0 .. n |-> IF k = 0 THEN NothingFound ELSE Step(f[k - 1], k)]
    BY <2>2, <2>3, <2>4
  <2> QED  BY <2>5
<1>6. Is(R)
  <2> HIDE DEF Is
  <2> QED  BY <1>5
<1>7. R[0] = NothingFound /\ \A k \in 1 .. n : R[k] = Step(R[k - 1], k)
  <2>1. 0 \in 0 .. n /\ \A k \in 1 .. n : k \in 0 .. n /\ k # 0
    BY <1>1
  <2>2. \A k \in 0 .. n : R[k] = IF k = 0 THEN NothingFound ELSE Step(R[k - 1], k)
    <3> HIDE DEF R, n, Step
    <3> QED  BY <1>6
  <2> HIDE DEF R, n, Step
  <2> QED  BY <2>1, <2>2
<1> HIDE DEF R, G
<1>8. PassOK(R[0], Met(0))
  <2>1. Met(0) = {}
    OBVIOUS
  <2>2. DOMAIN report = Nodes
    BY DEF Measured
  <2> HIDE DEF Met
  <2> QED  BY <1>3, <1>7, <2>1, <2>2 DEF PassOK, NothingFound
<1>9. ASSUME NEW k \in Nat, k + 1 <= n, PassOK(R[k], Met(k)) PROVE PassOK(R[k + 1], Met(k + 1))
  <2>1. k + 1 \in 1 .. n /\ (k + 1) - 1 = k
    BY <1>1, <1>9
  <2>2. PICK j \in Nodes : j = order[k + 1]
    BY <1>1, <2>1
  <2>3. Met(k + 1) = Met(k) \cup {j} /\ Met(k) \in SUBSET Nodes
    <3>1. \A i \in 1 .. k + 1 : i \in 1 .. n /\ (i = k + 1 \/ i \in 1 .. k)
      BY <1>1, <2>1
    <3> QED  BY <1>1, <2>1, <2>2, <3>1
  <2>4. j \notin Met(k)
    <3>1. \A i \in 1 .. k : i \in 1 .. n /\ i # k + 1
      BY <1>1, <2>1
    <3> QED  BY <1>1, <2>1, <2>2, <3>1 DEF Measured, IsInjective
  <2>5. ASSUME NEW x \in Met(k) \cup {j} PROVE ToSet(dependencies[x]) \subseteq Met(k)
    <3>1. PICK i \in 1 .. k + 1 : x = order[i] /\ i \in 1 .. n
      BY <1>1, <2>1, <2>2, <2>5
    <3>2. \A d \in ToSet(dependencies[x]) : \E l \in 1 .. i - 1 : order[l] = d
      BY <3>1 DEF Measured, Sorted
    <3>3. 1 .. i - 1 \subseteq 1 .. k
      BY <3>1
    <3> QED  BY <3>2, <3>3
  <2>6. R[k + 1] = Extend(report, dependencies, R[k], j)
    BY <1>7, <2>1, <2>2
  <2> HIDE DEF Met
  <2> QED  BY <1>9, <2>3, <2>4, <2>5, <2>6, ExtendKeeps
<1>10. PassOK(R[n], Met(n))
  <2> DEFINE T == {k \in Nat : k <= n => PassOK(R[k], Met(k))}
  <2> HIDE DEF Met
  <2>1. 0 \in T
    BY <1>8
  <2>2. ASSUME NEW k \in Nat, k \in T PROVE k + 1 \in T
    <3> SUFFICES ASSUME k + 1 <= n PROVE PassOK(R[k + 1], Met(k + 1))
      OBVIOUS
    <3>1. k <= n
      BY <1>1
    <3>2. PassOK(R[k], Met(k))
      BY <2>2, <3>1
    <3> QED  BY <1>9, <3>2
  <2>3. Nat \subseteq T
    <3> HIDE DEF T
    <3> QED  BY <2>1, <2>2, NatInduct
  <2> QED  BY <1>1, <2>3
<1>11. Met(n) = Nodes
  BY <1>1 DEF Measured, ToSet
<1> QED  BY <1>2, <1>10, <1>11


(* The length of a path is a sum, node by node.                            *)
RunTimes(path) == [k \in DOMAIN path |-> Took(path[k])]

LEMMA LengthIs ==
  ASSUME NEW path \in Seq(Nodes)
  PROVE  Length(path) = SumOf(RunTimes(path), DOMAIN path)
<1> DEFINE F == RunTimes(path)
           D == DOMAIN path
           Is(g) == g = [s \in SUBSET D |->
                           IF s = {} THEN 0 ELSE RunTime(report[path[Pick(s)]]) + g[s \ {Pick(s)}]]
<1>1. Length(path) = (CHOOSE g : Is(g))[D]
  BY DEF Length, MapThenSumSet, MapThenFoldSet, Pick
<1>2. \A s \in SUBSET D : s # {} => RunTime(report[path[Pick(s)]]) = F[Pick(s)]
  <2>1. \A s \in SUBSET D : s # {} => Pick(s) \in D
    BY DEF Pick
  <2> QED  BY <2>1 DEF RunTimes, Took
<1>3. \A g : Is(g) <=> IsSum(g, F, D)
  <2> HIDE DEF F
  <2> QED  BY <1>2 DEF IsSum
<1>4. IsFiniteSet(D)
  <2>1. D = 1 .. Len(path) /\ Len(path) \in Nat
    OBVIOUS
  <2> HIDE DEF D
  <2> QED  BY <2>1, FS_Interval
<1>5. PICK h : IsSum(h, F, D) /\ SumOf(F, D) = h[D]
  <2> HIDE DEF F, D
  <2> QED  BY <1>4, SumIsSum
<1>6. Is(CHOOSE g : Is(g))
  <2> HIDE DEF Is
  <2> QED  BY <1>3, <1>5
<1> DEFINE g == CHOOSE f : Is(f)
<1>7. IsSum(g, F, D)
  BY <1>3, <1>6
<1>8. g[D] = h[D]
  <2> HIDE DEF F, g, D
  <2> QED  BY <1>4, <1>5, <1>7, SumUnique
<1> QED  BY <1>1, <1>5, <1>8

LEMMA LengthNone == Length(<<>>) = 0
<1>1. PICK p : p = <<>>
  OBVIOUS
<1>2. p \in Seq(Nodes) /\ DOMAIN p = {}
  BY <1>1
<1>3. Length(p) = SumOf(RunTimes(p), DOMAIN p)
  BY <1>2, LengthIs
<1> QED  BY <1>1, <1>2, <1>3, SumEmpty

LEMMA LengthAppend ==
  ASSUME Measured, NEW p \in Seq(Nodes), NEW j \in Nodes
  PROVE  /\ Length(p) \in Int
         /\ Length(Append(p, j)) = Length(p) + Took(j)
<1>1. PICK q : q = Append(p, j)
  OBVIOUS
<1>2. /\ q \in Seq(Nodes) /\ Len(p) \in Nat /\ DOMAIN p = 1 .. Len(p) /\ DOMAIN q = 1 .. Len(p) + 1
      /\ q[Len(p) + 1] = j /\ \A k \in 1 .. Len(p) : q[k] = p[k] /\ p[k] \in Nodes
  BY <1>1
<1>3. /\ \A k \in DOMAIN p : RunTimes(p)[k] = Took(p[k]) /\ RunTimes(p)[k] \in Int
      /\ \A k \in DOMAIN p : RunTimes(q)[k] = RunTimes(p)[k]
      /\ RunTimes(q)[Len(p) + 1] = Took(j) /\ Took(j) \in Int
  BY <1>2 DEF RunTimes, Measured
<1>4. /\ DOMAIN q \ {Len(p) + 1} = DOMAIN p /\ Len(p) + 1 \in DOMAIN q
      /\ \A k \in DOMAIN q : RunTimes(q)[k] \in Int
  BY <1>2, <1>3
<1>5. IsFiniteSet(DOMAIN p) /\ IsFiniteSet(DOMAIN q)
  <2>1. Len(p) + 1 \in Nat
    BY <1>2
  <2> QED  BY <1>2, <2>1, FS_Interval
<1>6. PICK f, g : f = RunTimes(p) /\ g = RunTimes(q)
  OBVIOUS
<1>7. SumOf(f, DOMAIN p) = SumOf(g, DOMAIN p) /\ SumOf(f, DOMAIN p) \in Int
  BY <1>3, <1>5, <1>6, SumSame, SumType
<1>8. SumOf(g, DOMAIN q) = g[Len(p) + 1] + SumOf(g, DOMAIN q \ {Len(p) + 1})
  <2>1. PICK D, x : D = DOMAIN q /\ x = Len(p) + 1
    OBVIOUS
  <2>2. IsFiniteSet(D) /\ x \in D /\ \A k \in D : g[k] \in Int
    BY <1>4, <1>5, <1>6, <2>1
  <2>3. SumOf(g, D) = g[x] + SumOf(g, D \ {x})
    BY <2>2, SumTake
  <2> QED  BY <2>1, <2>3
<1>9. Length(p) = SumOf(f, DOMAIN p) /\ Length(q) = SumOf(g, DOMAIN q)
  BY <1>2, <1>6, LengthIs
<1> QED  BY <1>1, <1>3, <1>4, <1>6, <1>7, <1>8, <1>9


(* The paths of each length, one node more at a time.                      *)
Longer(paths) ==
  {Append(e[1], e[2]) :
     e \in {f \in paths \X Succeeded : f[1] = <<>> \/ Last(f[1]) \in ToSet(dependencies[f[2]])}}

ByNodes(P) ==
  /\ P \in [0 .. program.n -> SUBSET Seq(Nodes)]
  /\ P[0] = {<<>>}
  /\ \A k \in 1 .. program.n : P[k] = Longer(P[k - 1])

LEMMA LongerTyped ==
  ASSUME Measured, NEW paths \in SUBSET Seq(Nodes)
  PROVE  Longer(paths) \in SUBSET Seq(Nodes)
<1>1. ASSUME NEW p \in Longer(paths) PROVE p \in Seq(Nodes)
  <2>1. PICK e \in paths \X Succeeded : p = Append(e[1], e[2])
    BY DEF Longer
  <2>2. e[1] \in Seq(Nodes) /\ e[2] \in Nodes
    BY <2>1 DEF Succeeded
  <2> QED  BY <2>1, <2>2
<1> QED  BY <1>1

LEMMA PathsIs ==
  ASSUME Measured
  PROVE  \E P : ByNodes(P) /\ Paths = UNION {P[k] : k \in 0 .. program.n}
<1> DEFINE n == program.n
           S == SUBSET Seq(Nodes)
           Is(f) == f = [k \in 0 .. n |-> IF k = 0 THEN {<<>>} ELSE Longer(f[k - 1])]
           G == [x \in (1 .. n) \X S |-> Longer(x[2])]
           R == CHOOSE f : Is(f)
<1>1. n \in Nat
  BY DEF Measured
<1>2. Paths = UNION {R[k] : k \in 0 .. n}
  BY DEF Paths, Longer, Succeeded
<1>3. {<<>>} \in S
  OBVIOUS
<1>4. G \in RecursionSteps(n, S)
  BY LongerTyped DEF RecursionSteps
<1>5. \E f : Is(f)
  <2>1. PICK f \in Solutions(n, S, {<<>>}, G) : TRUE
    <3>1. PICK b : b = {<<>>}
      OBVIOUS
    <3>2. Solutions(n, S, b, G) # {}
      <4> HIDE DEF n, G, S
      <4> QED  BY <1>1, <1>3, <1>4, <3>1, RecursionExists
    <3> QED  BY <3>1, <3>2
  <2>2. f \in [0 .. n -> S] /\ f[0] = {<<>>} /\ \A k \in 1 .. n : f[k] = G[<<k, f[k - 1]>>]
    <3> HIDE DEF n, S, G
    <3> QED  BY <2>1 DEF Solutions
  <2>3. ASSUME NEW k \in 1 .. n PROVE f[k] = Longer(f[k - 1])
    <3>1. k - 1 \in 0 .. n /\ f[k - 1] \in S
      <4>1. k - 1 \in 0 .. n
        BY <1>1
      <4> HIDE DEF n, S, G
      <4> QED  BY <2>2, <4>1
    <3>2. G[<<k, f[k - 1]>>] = Longer(f[k - 1])
      <4> HIDE DEF n, S
      <4> QED  BY <3>1
    <3> QED  BY <2>2, <3>2
  <2>4. \A k \in 0 .. n : k # 0 => k \in 1 .. n
    BY <1>1
  <2> HIDE DEF n, S
  <2>5. f = [k \in 0 .. n |-> IF k = 0 THEN {<<>>} ELSE Longer(f[k - 1])]
    BY <2>2, <2>3, <2>4
  <2> QED  BY <2>5
<1>6. Is(R)
  <2> HIDE DEF Is
  <2> QED  BY <1>5
<1>7. /\ R = [k \in 0 .. n |-> R[k]]
      /\ R[0] = {<<>>}
      /\ \A k \in 1 .. n : R[k] = Longer(R[k - 1])
  <2>1. 0 \in 0 .. n /\ \A k \in 1 .. n : k \in 0 .. n /\ k # 0
    BY <1>1
  <2>2. \A k \in 0 .. n : R[k] = IF k = 0 THEN {<<>>} ELSE Longer(R[k - 1])
    <3> HIDE DEF R, n
    <3> QED  BY <1>6
  <2>3. R = [k \in 0 .. n |-> R[k]]
    <3> HIDE DEF R, n
    <3> QED  BY <1>6
  <2> HIDE DEF R, n
  <2> QED  BY <2>1, <2>2, <2>3
<1>8. R \in Solutions(n, S, {<<>>}, G)
  <2>1. ASSUME NEW k \in 1 .. n, R[k - 1] \in S PROVE R[k] = G[<<k, R[k - 1]>>]
    <3> HIDE DEF R, n, S
    <3> QED  BY <1>7, <2>1
  <2>2. PICK b : b = {<<>>}
    OBVIOUS
  <2>3. R \in Solutions(n, S, b, G)
    <3> HIDE DEF R, n, S, G
    <3> QED  BY <1>1, <1>3, <1>4, <1>7, <2>1, <2>2, RecursionTyped
  <2> QED  BY <2>2, <2>3
<1>9. ByNodes(R)
  <2>1. R \in [0 .. n -> S]
    BY <1>8 DEF Solutions
  <2> HIDE DEF R
  <2> QED  BY <1>7, <2>1 DEF ByNodes
<1> HIDE DEF R
<1> QED  BY <1>2, <1>9


(* No path is longer than what was found of its last node.                 *)
Bounded(found, p) ==
  /\ p \in Seq(Nodes)
  /\ p # <<>> => Last(p) \in Succeeded /\ Length(p) <= found.longest[Last(p)]

LEMMA FoundTypes ==
  ASSUME Measured, NEW found, PassOK(found, Nodes)
  PROVE  /\ found.duration \in Int
         /\ \A j \in Nodes : found.longest[j] \in Int /\ found.previous[j] \in Nodes \cup {0}
         /\ \A j \in Succeeded : /\ Extended(found, j)
                                 /\ LengthBefore(found, found.previous[j]) \in Int
                                 /\ LengthBefore(found, found.previous[j]) >= 0
         /\ \A j \in Nodes : found.longest[j] >= 0 => j \in Succeeded
<1>1. /\ found.duration \in Int /\ found.longest \in [Nodes -> Int]
      /\ found.previous \in [Nodes -> Nodes \cup {0}]
  BY DEF PassOK, FoundSet
<1>2. \A j \in Nodes : found.longest[j] \in Int /\ found.previous[j] \in Nodes \cup {0}
  BY <1>1
<1>3. \A j \in Succeeded : j \in Nodes /\ Extended(found, j)
  BY DEF PassOK, Succeeded
<1>4. ASSUME NEW j \in Succeeded
      PROVE  /\ LengthBefore(found, found.previous[j]) \in Int
             /\ LengthBefore(found, found.previous[j]) >= 0
  <2>1. j \in Nodes /\ (found.previous[j] # 0 => found.longest[found.previous[j]] > 0)
    BY <1>3 DEF Extended
  <2>2. found.previous[j] # 0 => found.previous[j] \in Nodes
    BY <1>2, <2>1
  <2> QED  BY <1>2, <2>1, <2>2 DEF LengthBefore
<1>5. ASSUME NEW j \in Nodes, j \notin Succeeded PROVE ~(found.longest[j] >= 0)
  <2>1. found.longest[j] = -1
    BY <1>5 DEF PassOK
  <2> QED  BY <2>1
<1> QED  BY <1>1, <1>2, <1>3, <1>4, <1>5

LEMMA AppendBounded ==
  ASSUME Measured, NEW found, PassOK(found, Nodes), NEW p, Bounded(found, p), NEW j \in Succeeded,
         p = <<>> \/ Last(p) \in ToSet(dependencies[j])
  PROVE  Bounded(found, Append(p, j))
<1>1. j \in Nodes /\ p \in Seq(Nodes)
  BY DEF Succeeded, Bounded
<1>2. PICK q : q = Append(p, j)
  OBVIOUS
<1>3. q \in Seq(Nodes) /\ q # <<>> /\ Last(q) = j
  BY <1>1, <1>2 DEF Last
<1>4. Length(q) = Length(p) + Took(j) /\ Length(p) \in Int /\ Took(j) \in Int
  BY <1>1, <1>2, LengthAppend DEF Measured
<1>5. PICK before : before = LengthBefore(found, found.previous[j])
  OBVIOUS
<1>6. before \in Int /\ before >= 0 /\ Extended(found, j)
  BY <1>5, FoundTypes
<1>7. /\ found.longest[j] = before + Took(j)
      /\ \A d \in ToSet(dependencies[j]) : found.longest[d] <= before
  BY <1>5, <1>6 DEF Extended
<1>8. Length(p) <= before
  <2>1. CASE p = <<>>
    <3>1. Length(p) = 0
      BY <2>1, LengthNone
    <3> QED  BY <1>6, <3>1
  <2>2. CASE p # <<>>
    <3>1. Last(p) \in Succeeded /\ Length(p) <= found.longest[Last(p)]
      BY <2>2 DEF Bounded
    <3>2. found.longest[Last(p)] \in Int
      BY <3>1, FoundTypes DEF Succeeded
    <3>3. found.longest[Last(p)] <= before
      BY <1>7, <2>2
    <3> QED  BY <1>4, <1>6, <3>1, <3>2, <3>3
  <2> QED  BY <2>1, <2>2
<1>9. Length(q) <= found.longest[j]
  BY <1>4, <1>6, <1>7, <1>8
<1> QED  BY <1>2, <1>3, <1>9 DEF Bounded

LEMMA PathsBounded ==
  ASSUME Measured, NEW found, PassOK(found, Nodes), NEW P, ByNodes(P), NEW m \in 0 .. program.n
  PROVE  \A p \in P[m] : Bounded(found, p)
<1> DEFINE T == {k \in Nat : k <= program.n => \A p \in P[k] : Bounded(found, p)}
<1>1. 0 \in T
  <2>1. \A p \in P[0] : p \in Seq(Nodes) /\ p = <<>>
    BY DEF ByNodes
  <2> QED  BY <2>1 DEF Bounded
<1>2. ASSUME NEW k \in Nat, k \in T PROVE k + 1 \in T
  <2> SUFFICES ASSUME k + 1 <= program.n, NEW q \in P[k + 1] PROVE Bounded(found, q)
    OBVIOUS
  <2>1. program.n \in Nat
    BY DEF Measured
  <2>2. k + 1 \in 1 .. program.n /\ (k + 1) - 1 = k /\ k <= program.n
    BY <2>1
  <2>3. P[k + 1] = Longer(P[k])
    BY <2>2 DEF ByNodes
  <2>4. PICK e \in P[k] \X Succeeded : /\ q = Append(e[1], e[2])
                                       /\ e[1] = <<>> \/ Last(e[1]) \in ToSet(dependencies[e[2]])
    BY <2>3 DEF Longer
  <2>5. e[1] \in P[k] /\ e[2] \in Succeeded
    BY <2>4
  <2>6. Bounded(found, e[1])
    BY <1>2, <2>2, <2>5
  <2> QED  BY <2>4, <2>5, <2>6, AppendBounded
<1>3. Nat \subseteq T
  <2> HIDE DEF T
  <2> QED  BY <1>1, <1>2, NatInduct
<1>4. m \in Nat /\ m <= program.n
  BY DEF Measured
<1> QED  BY <1>3, <1>4

LEMMA PositiveIs ==
  ASSUME NEW d \in Int
  PROVE  Max({0, d}) = IF d > 0 THEN d ELSE 0
<1>1. \E m \in {0, d} : \A x \in {0, d} : m >= x
  OBVIOUS
<1>2. Max({0, d}) \in {0, d} /\ \A x \in {0, d} : Max({0, d}) >= x
  BY <1>1 DEF Max
<1> QED  BY <1>2

LEMMA NoPathLonger ==
  ASSUME Measured, NEW found, PassOK(found, Nodes), NEW p \in Paths
  PROVE  p \in Seq(Nodes) /\ Length(p) <= Max({0, found.duration})
<1>1. PICK P : ByNodes(P) /\ Paths = UNION {P[k] : k \in 0 .. program.n}
  BY PathsIs
<1>2. PICK k \in 0 .. program.n : p \in P[k]
  BY <1>1
<1>3. Bounded(found, p)
  BY <1>1, <1>2, PathsBounded
<1>4. PICK d : d = found.duration
  OBVIOUS
<1>5. d \in Int
  BY <1>4, FoundTypes
<1>6. Max({0, d}) = IF d > 0 THEN d ELSE 0
  BY <1>5, PositiveIs
<1>7. CASE p = <<>>
  <2>1. Length(p) = 0
    BY <1>7, LengthNone
  <2> QED  BY <1>3, <1>4, <1>5, <1>6, <2>1 DEF Bounded
<1>8. CASE p # <<>>
  <2>1. p \in Seq(Nodes) /\ Last(p) \in Nodes /\ Length(p) <= found.longest[Last(p)]
    BY <1>3, <1>8 DEF Bounded, Succeeded
  <2>2. found.longest[Last(p)] <= d /\ found.longest[Last(p)] \in Int
    BY <1>4, <2>1, FoundTypes DEF PassOK
  <2>3. Length(p) \in Int
    BY <2>1, LengthAppend
  <2> QED  BY <1>4, <1>5, <1>6, <2>1, <2>2, <2>3
<1> QED  BY <1>7, <1>8


(* Back from the end of the longest path: an earlier node of the order in  *)
(* each step, so that the walk ends.                                       *)
Walks(back, found) ==
  /\ back = [k \in 0 .. Len(order) |-> back[k]]
  /\ back[0] = found.end
  /\ \A k \in 1 .. Len(order) :
       back[k] = IF back[k - 1] = 0 THEN 0 ELSE found.previous[back[k - 1]]

LEMMA WalkIs ==
  ASSUME Measured, NEW found, PassOK(found, Nodes)
  PROVE  Walks(WalkBack(found, Len(order)), found)
<1> DEFINE n == Len(order)
           S == Nodes \cup {0}
           Before(j) == IF j = 0 THEN 0 ELSE found.previous[j]
           Is(f) == f = [k \in 0 .. n |-> IF k = 0 THEN found.end ELSE Before(f[k - 1])]
           G == [x \in (1 .. n) \X S |-> Before(x[2])]
           R == CHOOSE f : Is(f)
<1>1. n \in Nat
  BY DEF Measured
<1>2. WalkBack(found, n) = R
  BY DEF WalkBack
<1>3. found.end \in S
  BY DEF PassOK, FoundSet
<1>4. G \in RecursionSteps(n, S)
  BY FoundTypes DEF RecursionSteps
<1>5. \E f : Is(f)
  <2>1. PICK b : b = found.end
    OBVIOUS
  <2>2. PICK f \in Solutions(n, S, b, G) : TRUE
    <3> HIDE DEF n, G, S
    <3> QED  BY <1>1, <1>3, <1>4, <2>1, RecursionExists
  <2>3. f \in [0 .. n -> S] /\ f[0] = b /\ \A k \in 1 .. n : f[k] = G[<<k, f[k - 1]>>]
    BY <2>2 DEF Solutions
  <2>4. ASSUME NEW k \in 1 .. n PROVE f[k] = Before(f[k - 1])
    <3>1. k - 1 \in 0 .. n /\ f[k - 1] \in S
      BY <1>1, <2>3
    <3> HIDE DEF Before
    <3> QED  BY <2>3, <3>1
  <2>5. \A k \in 0 .. n : k # 0 => k \in 1 .. n
    BY <1>1
  <2> HIDE DEF n, S, Before
  <2>6. f = [k \in 0 .. n |-> IF k = 0 THEN b ELSE Before(f[k - 1])]
    BY <2>3, <2>4, <2>5
  <2> QED  BY <2>1, <2>6
<1>6. Is(R)
  <2> HIDE DEF Is
  <2> QED  BY <1>5
<1>7. 0 \in 0 .. n /\ \A k \in 1 .. n : k \in 0 .. n /\ k # 0
  BY <1>1
<1>8. \A k \in 0 .. n : R[k] = IF k = 0 THEN found.end ELSE Before(R[k - 1])
  <2> HIDE DEF R, n, Before
  <2> QED  BY <1>6
<1>9. R = [k \in 0 .. n |-> R[k]]
  <2> HIDE DEF R, n, Before
  <2> QED  BY <1>6
<1> HIDE DEF R
<1> QED  BY <1>2, <1>7, <1>8, <1>9 DEF Walks

LEMMA WalkEnds ==
  ASSUME Measured, NEW found, PassOK(found, Nodes), NEW back, Walks(back, found)
  PROVE  /\ Len(order) \in Nat
         /\ \A k \in 0 .. Len(order) : back[k] # 0 => back[k] \in Succeeded
         /\ back[Len(order)] = 0
<1> DEFINE n == Len(order)
           Placed(k) == back[k] # 0 => /\ back[k] \in Succeeded
                                       /\ \E i \in 1 .. n - k : order[i] = back[k]
           T == {k \in Nat : k <= n => Placed(k)}
<1>1. n \in Nat /\ DOMAIN order = 1 .. n /\ ToSet(order) = Nodes
  BY DEF Measured
<1>2. 0 \in T
  <2> SUFFICES ASSUME back[0] # 0 PROVE Placed(0)
    BY <1>1
  <2>1. /\ back[0] = found.end /\ found.end \in Nodes \cup {0}
        /\ found.longest[found.end] >= 0
    BY DEF Walks, PassOK, FoundSet
  <2>2. back[0] \in Nodes /\ back[0] \in Succeeded
    BY <2>1, FoundTypes
  <2>3. \E i \in 1 .. n : order[i] = back[0]
    BY <1>1, <2>2 DEF ToSet
  <2> QED  BY <1>1, <2>2, <2>3
<1>3. ASSUME NEW k \in Nat, k \in T PROVE k + 1 \in T
  <2> SUFFICES ASSUME k + 1 <= n, back[k + 1] # 0 PROVE Placed(k + 1)
    OBVIOUS
  <2>1. k + 1 \in 1 .. n /\ (k + 1) - 1 = k /\ k <= n
    BY <1>1
  <2>2. back[k] # 0 /\ back[k + 1] = found.previous[back[k]]
    BY <2>1 DEF Walks
  <2>3. back[k] \in Succeeded /\ \E i \in 1 .. n - k : order[i] = back[k]
    BY <1>3, <2>1, <2>2
  <2>4. PICK i \in 1 .. n - k : order[i] = back[k]
    BY <2>3
  <2>5. back[k] \in Nodes /\ Extended(found, back[k])
    BY <2>3, FoundTypes DEF Succeeded
  <2>6. back[k + 1] \in ToSet(dependencies[back[k]]) /\ found.longest[back[k + 1]] > 0
    BY <2>2, <2>5 DEF Extended
  <2>7. back[k + 1] \in Nodes /\ found.longest[back[k + 1]] \in Int
    BY <2>2, <2>5, <2>6, FoundTypes
  <2>8. back[k + 1] \in Succeeded
    BY <2>6, <2>7, FoundTypes
  <2>9. i \in 1 .. n
    BY <1>1
  <2>10. \E l \in 1 .. i - 1 : order[l] = back[k + 1]
    BY <2>4, <2>6, <2>9, <1>1 DEF Measured, Sorted
  <2>11. 1 .. i - 1 \subseteq 1 .. n - (k + 1)
    BY <1>1
  <2> QED  BY <2>8, <2>10, <2>11
<1>4. Nat \subseteq T
  <2> HIDE DEF T
  <2> QED  BY <1>2, <1>3, NatInduct
<1>5. \A k \in 0 .. n : Placed(k)
  <2> HIDE DEF Placed
  <2> QED  BY <1>1, <1>4
<1>6. back[n] = 0
  <2>1. 1 .. n - n = {}
    BY <1>1
  <2> QED  BY <1>1, <1>5, <2>1
<1> QED  BY <1>1, <1>5, <1>6

(* The nodes of the critical path are those met before the walk ends.      *)
LEMMA WalkNodes ==
  ASSUME Measured, NEW found, PassOK(found, Nodes), NEW back, Walks(back, found)
  PROVE  \E m \in 0 .. Len(order) :
           /\ Cardinality({k \in 0 .. Len(order) : back[k] # 0}) = m
           /\ back[m] = 0
           /\ \A k \in 0 .. m - 1 : back[k] \in Succeeded
<1> DEFINE n == Len(order)
           Z == {k \in 0 .. n : back[k] = 0}
           m == Min(Z)
<1>1. n \in Nat /\ back[n] = 0 /\ \A k \in 0 .. n : back[k] # 0 => back[k] \in Succeeded
  BY WalkEnds
<1>2. m \in Z /\ \A k \in Z : m <= k
  <2>1. Z \in SUBSET Nat /\ Z # {}
    BY <1>1
  <2> HIDE DEF Z
  <2> QED  BY <2>1, MinIs
<1>3. m \in 0 .. n /\ back[m] = 0
  <2>1. \A k \in Z : k \in 0 .. n /\ back[k] = 0
    OBVIOUS
  <2> HIDE DEF m, Z
  <2> QED  BY <1>2, <2>1
<1>4. ASSUME NEW k \in 0 .. m - 1 PROVE k \in 0 .. n /\ back[k] # 0
  <2>1. k \in 0 .. n /\ ~(m <= k)
    <3> HIDE DEF m
    <3> QED  BY <1>1, <1>3
  <2> HIDE DEF m
  <2> QED  BY <1>2, <2>1
<1>5. ASSUME NEW k \in 0 .. n, back[k] # 0 PROVE k \in 0 .. m - 1
  <2> DEFINE T == {l \in Nat : m + l <= n => back[m + l] = 0}
  <2> HIDE DEF m
  <2>1. 0 \in T
    BY <1>3
  <2>2. ASSUME NEW l \in Nat, l \in T PROVE l + 1 \in T
    <3> SUFFICES ASSUME m + (l + 1) <= n PROVE back[m + (l + 1)] = 0
      OBVIOUS
    <3>1. m + l <= n /\ m + (l + 1) \in 1 .. n /\ (m + (l + 1)) - 1 = m + l
      BY <1>1, <1>3
    <3> QED  BY <2>2, <3>1 DEF Walks
  <2>3. Nat \subseteq T
    <3> HIDE DEF T
    <3> QED  BY <2>1, <2>2, NatInduct
  <2>4. CASE m <= k
    <3>1. k - m \in Nat /\ m + (k - m) = k /\ k <= n
      BY <1>1, <1>3, <2>4
    <3> QED  BY <1>5, <2>3, <3>1
  <2> QED  BY <1>1, <1>3, <2>4
<1>6. {k \in 0 .. n : back[k] # 0} = 0 .. m - 1
  <2> HIDE DEF m
  <2> QED  BY <1>4, <1>5
<1>7. Cardinality(0 .. m - 1) = m
  <2> HIDE DEF m
  <2>1. m \in Nat /\ 0 \in Int /\ m - 1 \in Int
    BY <1>1, <1>3
  <2>2. Cardinality(0 .. m - 1) = IF 0 > m - 1 THEN 0 ELSE (m - 1) - 0 + 1
    BY <2>1, FS_Interval
  <2> QED  BY <2>1, <2>2
<1>8. \A k \in 0 .. m - 1 : back[k] \in Succeeded
  BY <1>1, <1>4
<1> HIDE DEF m, n
<1> QED  BY <1>3, <1>6, <1>7, <1>8 DEF n


(* Each end of the walk is a path, as long as was found of its last node.  *)
LEMMA WalkIsPath ==
  ASSUME Measured, NEW found, PassOK(found, Nodes), NEW back, Walks(back, found),
         NEW m \in 0 .. Len(order), back[m] = 0, \A k \in 0 .. m - 1 : back[k] \in Succeeded,
         NEW P, ByNodes(P)
  PROVE  /\ [k \in 1 .. m |-> back[m - k]] \in P[m]
         /\ Length([k \in 1 .. m |-> back[m - k]]) = LengthBefore(found, back[0])
<1> DEFINE n == Len(order)
           End(i) == [k \in 1 .. i |-> back[m - k]]
           Good(i) == End(i) \in P[i] /\ Length(End(i)) = LengthBefore(found, back[m - i])
           T == {i \in Nat : i <= m => Good(i)}
<1>1. n \in Nat /\ m \in Nat /\ m <= n /\ n = program.n
  <2>1. order \in Seq(1 .. program.n) /\ IsInjective(order) /\ ToSet(order) = 1 .. program.n
    BY DEF Measured, Nodes
  <2>2. program.n \in Nat /\ n \in Nat
    BY DEF Measured
  <2> QED  BY <2>1, <2>2, InjectiveLength
<1>2. ASSUME NEW i \in 0 .. m
      PROVE  /\ End(i) \in Seq(Nodes) /\ Len(End(i)) = i
             /\ \A k \in 1 .. i : End(i)[k] = back[m - k]
  <2>1. \A k \in 1 .. i : m - k \in 0 .. m - 1
    BY <1>1
  <2>2. \A k \in 1 .. i : back[m - k] \in Nodes
    BY <2>1 DEF Succeeded
  <2>3. i \in Nat
    BY <1>1
  <2> QED  BY <2>2, <2>3
<1>3. 0 \in T
  <2>1. PICK e : e = End(0)
    OBVIOUS
  <2>2. 0 \in 0 .. m /\ m - 0 = m
    BY <1>1
  <2>3. e = <<>>
    BY <1>2, <2>1, <2>2
  <2>4. Length(e) = 0 /\ e \in P[0]
    BY <2>3, LengthNone DEF ByNodes
  <2>5. LengthBefore(found, back[m - 0]) = 0
    BY <2>2 DEF LengthBefore
  <2> QED  BY <2>1, <2>4, <2>5
<1>4. ASSUME NEW i \in Nat, i \in T PROVE i + 1 \in T
  <2> SUFFICES ASSUME i + 1 <= m PROVE Good(i + 1)
    OBVIOUS
  <2>1. /\ i \in 0 .. m /\ i <= m /\ i + 1 \in 0 .. m /\ i + 1 \in 1 .. n /\ (i + 1) - 1 = i
        /\ m - i \in 1 .. n /\ (m - i) - 1 = m - (i + 1) /\ m - (i + 1) \in 0 .. m - 1
    BY <1>1
  <2>2. PICK p, q, j : p = End(i) /\ q = End(i + 1) /\ j = back[m - (i + 1)]
    OBVIOUS
  <2>3. p \in P[i] /\ Length(p) = LengthBefore(found, back[m - i])
    BY <1>4, <2>1, <2>2
  <2>4. j \in Succeeded /\ j \in Nodes /\ j # 0
    <3>1. j \in Succeeded
      BY <2>1, <2>2
    <3> QED  BY <3>1, NodeSet DEF Succeeded
  <2>5. back[m - i] = found.previous[j] /\ Extended(found, j)
    <3>1. back[m - i] = IF back[m - (i + 1)] = 0 THEN 0 ELSE found.previous[back[m - (i + 1)]]
      BY <2>1 DEF Walks
    <3> QED  BY <2>2, <2>4, <3>1, FoundTypes
  <2>6. /\ p \in Seq(Nodes) /\ Len(p) = i /\ q \in Seq(Nodes) /\ Len(q) = i + 1
        /\ \A k \in 1 .. i : p[k] = back[m - k]
        /\ \A k \in 1 .. i + 1 : q[k] = back[m - k]
    BY <1>2, <2>1, <2>2
  <2>7. q = Append(p, j)
    <3>1. \A k \in 1 .. i + 1 : q[k] = Append(p, j)[k]
      BY <2>2, <2>6
    <3>2. Append(p, j) \in Seq(Nodes) /\ Len(Append(p, j)) = i + 1
      BY <2>4, <2>6
    <3> QED  BY <2>6, <3>1, <3>2
  <2>8. p = <<>> \/ Last(p) \in ToSet(dependencies[j])
    <3>1. CASE i = 0
      BY <2>6, <3>1
    <3>2. CASE i # 0
      <4>1. i \in 1 .. i /\ m - i \in 0 .. m - 1
        BY <1>1, <2>1, <3>2
      <4>2. Last(p) = back[m - i]
        BY <2>6, <4>1 DEF Last
      <4>3. back[m - i] # 0
        BY <4>1, NodeSet DEF Succeeded
      <4> QED  BY <2>5, <4>2, <4>3 DEF Extended
    <3> QED  BY <3>1, <3>2
  <2>9. q \in P[i + 1]
    <3>1. P[i + 1] = Longer(P[i])
      BY <1>1, <2>1 DEF ByNodes
    <3>2. <<p, j>> \in P[i] \X Succeeded
      BY <2>3, <2>4
    <3> QED  BY <2>7, <2>8, <3>1, <3>2 DEF Longer
  <2>10. Length(q) = LengthBefore(found, j)
    <3>1. Length(q) = Length(p) + Took(j)
      BY <2>4, <2>6, <2>7, LengthAppend
    <3>2. found.longest[j] = LengthBefore(found, found.previous[j]) + Took(j)
      BY <2>5 DEF Extended
    <3> QED  BY <2>3, <2>4, <2>5, <3>1, <3>2 DEF LengthBefore
  <2> QED  BY <2>2, <2>9, <2>10
<1>5. Nat \subseteq T
  <2> HIDE DEF T
  <2> QED  BY <1>3, <1>4, NatInduct
<1>6. Good(m)
  <2> HIDE DEF Good
  <2> QED  BY <1>1, <1>5
<1>7. m - m = 0
  BY <1>1
<1> QED  BY <1>6, <1>7


LEMMA CriticalPathIs ==
  ASSUME Measured
  PROVE  LET critical == CriticalPath(report, dependencies, order)
         IN  /\ critical.path \in Paths
             /\ Length(critical.path) = critical.duration
             /\ \A path \in Paths : Length(path) <= critical.duration
<1>1. PICK found : found = LongestPaths(report, dependencies, order)
  OBVIOUS
<1>2. PICK back : back = WalkBack(found, Len(order))
  OBVIOUS
<1>3. PassOK(found, Nodes) /\ Walks(back, found)
  BY <1>1, <1>2, PassIs, WalkIs
<1>4. PICK m \in 0 .. Len(order) :
        /\ Cardinality({k \in 0 .. Len(order) : back[k] # 0}) = m
        /\ back[m] = 0
        /\ \A k \in 0 .. m - 1 : back[k] \in Succeeded
  BY <1>3, WalkNodes
<1>5. PICK P : ByNodes(P) /\ Paths = UNION {P[k] : k \in 0 .. program.n}
  BY PathsIs
<1>6. PICK path : path = [k \in 1 .. m |-> back[m - k]]
  OBVIOUS
<1>7. path \in P[m] /\ Length(path) = LengthBefore(found, back[0])
  BY <1>3, <1>4, <1>5, <1>6, WalkIsPath
<1>8. path \in Paths
  <2>1. order \in Seq(1 .. program.n) /\ IsInjective(order) /\ program.n \in Nat /\ Len(order) \in Nat
    BY DEF Measured, Nodes
  <2>2. Len(order) <= program.n
    BY <2>1, InjectiveLength
  <2>3. m \in 0 .. program.n
    BY <1>4, <2>1, <2>2
  <2> QED  BY <1>5, <1>7, <2>3
<1>9. CriticalPath(report, dependencies, order) = [path |-> path, duration |-> Max({0, found.duration})]
  BY <1>1, <1>2, <1>4, <1>6 DEF CriticalPath
<1>10. Length(path) = Max({0, found.duration})
  <2>1. PICK d : d = found.duration
    OBVIOUS
  <2>2. d \in Int /\ back[0] = found.end
    BY <1>3, <2>1, FoundTypes DEF Walks
  <2>3. Max({0, d}) = IF d > 0 THEN d ELSE 0
    BY <2>2, PositiveIs
  <2>4. CASE found.end = 0
    <3>1. d = -1 /\ LengthBefore(found, back[0]) = 0
      BY <1>3, <2>1, <2>2, <2>4 DEF PassOK, LengthBefore
    <3> QED  BY <1>7, <2>1, <2>3, <3>1
  <2>5. CASE found.end # 0
    <3>1. d >= 0 /\ LengthBefore(found, back[0]) = d
      BY <1>3, <2>1, <2>2, <2>5 DEF PassOK, LengthBefore
    <3> QED  BY <1>7, <2>1, <2>2, <2>3, <3>1
  <2> QED  BY <2>4, <2>5
<1>11. \A p \in Paths : Length(p) <= Max({0, found.duration})
  BY <1>3, NoPathLonger
<1>12. PICK critical : critical = CriticalPath(report, dependencies, order)
  OBVIOUS
<1>13. critical.path = path /\ critical.duration = Max({0, found.duration})
  BY <1>9, <1>12
<1>14. /\ critical.path \in Paths
       /\ Length(critical.path) = critical.duration
       /\ \A p \in Paths : Length(p) <= critical.duration
  BY <1>8, <1>10, <1>11, <1>13
<1> QED  BY <1>12, <1>14

(* The critical path that Day 19 prints from its report is a path of       *)
(* succeeded nodes, as long as printed, and none is longer, for every      *)
(* graph and every run.  The pass goes through a validated order, in which *)
(* each node comes after its dependencies; a succeeded node has a run time *)
(* of at least zero; so what is found of a node bounds every path that     *)
(* ends there, and the walk back gives one that is as long.                *)
THEOREM CriticalPathLongest == Spec => []CriticalPathIsLongest
<1>1. BuildInv /\ RunInv /\ TimesOK /\ DatedOK => CriticalPathIsLongest
  <2> SUFFICES ASSUME BuildInv, RunInv, TimesOK, DatedOK, report # None, Class = "TimedJobGraph"
               PROVE  CriticalPathIsLongest
    BY DEF CriticalPathIsLongest
  <2>1. report = records /\ cycles = {} /\ main \in {"run", "done"} /\ TypeInv
    BY ReportedNodes DEF RunInv
  <2>2. /\ DOMAIN report = Nodes /\ program.n \in Nat
        /\ dependencies \in [Nodes -> Seq(Nodes)] /\ order \in Seq(Nodes)
    BY <2>1, RunFacts DEF TypeInv, TypeOK, BuildInv, SearchTypeOK, ListsOK
  <2>3. IsInjective(order) /\ ToSet(order) = Nodes /\ Sorted
    BY <2>1 DEF BuildInv, SettledOK, Settled
  <2>4. \A j \in Nodes : Took(j) \in Int
    BY <2>1, TimeTypes DEF Took, RunTime
  <2>5. ASSUME NEW j \in Succeeded PROVE Took(j) >= 0
    <3>1. j \in Nodes /\ Executed(records[j])
      BY <2>1 DEF Succeeded, Executed
    <3>2. records[j].startedAt <= records[j].finishedAt
      BY <3>1, ExecutedTimes
    <3>3. records[j].startedAt \in Nat /\ records[j].finishedAt \in Nat
      BY <2>1, <3>1, TimeTypes
    <3> QED  BY <2>1, <3>2, <3>3 DEF Took, RunTime
  <2>6. Measured
    BY <2>2, <2>3, <2>4, <2>5 DEF Measured
  <2> QED  BY <2>6, CriticalPathIs DEF CriticalPathIsLongest
<1> QED  BY <1>1, DatedInvariance, PTL

-----------------------------------------------------------------------------
(* The end of the program: main has seen every job run by then.            *)

(* The jobs a body submits; it waits for them to be submitted, and done if *)
(* it calls a wait, unless it is a task with a future.                     *)
Family(j) == {c \in Nodes : <<j, c>> \in program.children}
Parent(j) == j \notin program.successOnly \cup program.futures

StepOK(j) == step[j] # "none" => phase[j] \in {"running", "done"}
BodyOK(j) ==
  phase[j] = "done" /\ Parent(j) =>
    \A c \in Family(j) : phase[c] # "new" /\ (j \in program.waits \cup program.helps => phase[c] = "done")
FamiliesOK == ~Recording => \A j \in Nodes : StepOK(j) /\ BodyOK(j)

(* A job that WaitAll covers, with the jobs its body submitted.            *)
Gone(j) == phase[j] = "done" /\ (Parent(j) => \A c \in Family(j) : phase[c] = "done")

(* What is true of a get and of a WaitAll that main has made.              *)
Answered(k) ==
  /\ Full[k][1] = "get" => step[Full[k][2]] = "recorded"
  /\ Full[k][1] = "waitAll" => \A l \in 1 .. k - 1 : Full[l][1] = "submit" => Gone(Full[l][2])

AnswersOK == main = "run" /\ ~Recording => \A k \in 1 .. Made : Answered(k)

(* Only nodes become jobs, and only a graph that is valid is run.          *)
AcceptedOK ==
  /\ main = "run" => program.runs /\ badEdges = {}
  /\ \A j \in Jobs \ Nodes : phase[j] = "new"

LookInv == FamiliesOK /\ AnswersOK /\ AcceptedOK /\ NothingWaitsAtDestruction

(* A job that becomes done is canceled, or its body has ended.             *)
LEMMA Completes ==
  ASSUME BuildInv, RunInv, [Next]_vars, NEW j \in Nodes, phase[j] # "done", phase'[j] = "done"
  PROVE  Pool!Cancel(j) \/ LeaveJob(j)
<1>1. j \in Jobs /\ phase \in [Jobs -> States]
  BY RunFacts DEF RunInv, TypeInv, TypeOK, States
<1>2. phase' # phase
  OBVIOUS
<1>3. CASE Build /\ UNCHANGED <<script, poolVars, helper, now, recordVars, report>>
  BY <1>2, <1>3 DEF poolVars
<1>4. CASE \/ BeginRun \/ Wait \/ Get \/ WaitAll \/ ReportTimed \/ ReportFailure \/ CopyRecords \/ Tick
           \/ UNCHANGED vars
  BY <1>2, <1>4 DEF BeginRun, Wait, Get, WaitAll, ReportTimed, ReportFailure, CopyRecords, Tick, vars, poolVars
<1>5. CASE DestroyPool
  BY <1>2, <1>5 DEF DestroyPool, Pool!Close
<1>6. CASE SubmitNode
  BY <1>1, <1>6 DEF SubmitNode, Pool!Submit, Pool!Move
<1>7. ASSUME NEW i \in Nodes, JobStep(i) PROVE Pool!Cancel(j) \/ LeaveJob(j)
  <2>1. CASE Resolve(i)
    <3>1. Pool!Queue(i) \/ Pool!Cancel(i)
      BY <2>1 DEF Resolve
    <3>2. i = j /\ ~Pool!Queue(i)
      BY <1>1, <3>1 DEF Pool!Queue, Pool!Cancel, Pool!Move
    <3> QED  BY <3>1, <3>2
  <2>2. CASE LeaveJob(i)
    <3>1. i = j
      BY <1>1, <2>2 DEF LeaveJob, Pool!Finish, Pool!Move
    <3> QED  BY <2>2, <3>1
  <2>3. CASE EnterJob(i)
    BY <1>1, <2>3 DEF EnterJob, CallJob, Pool!Start, Pool!Move
  <2>4. CASE \E child \in Nodes : SubmitChild(i, child)
    BY <1>1, <2>4 DEF SubmitChild, Pool!Submit, Pool!Move
  <2>5. CASE \/ MeasuredJobRuns(i) \/ MeasuredJobEnds(i) \/ RecordExecution(i)
             \/ TracedJobRuns(i) \/ TracedJobEnds(i) \/ FulfilFuture(i)
    BY <1>2, <2>5, RecordStepIs DEF poolVars
  <2> QED  BY <1>7, <2>1, <2>2, <2>3, <2>4, <2>5 DEF JobStep
<1> QED  BY <1>3, <1>4, <1>5, <1>6, <1>7 DEF Next, MainStep

(* The program does not change.                                            *)
LEMMA FamilyConstant ==
  ASSUME [Next]_vars
  PROVE  /\ \A j : Family(j)' = Family(j) /\ (Parent(j)' <=> Parent(j))
         /\ program.waits' = program.waits /\ program.helps' = program.helps
         /\ program.futures' = program.futures
<1>1. program' = program /\ Nodes' = Nodes
  BY StepFrame
<1> QED  BY <1>1 DEF Family, Parent

LEMMA BodiesNext ==
  ASSUME BuildInv, RunInv, FamiliesOK, [Next]_vars, ~Recording, NEW j \in Nodes
  PROVE  BodyOK(j)'
<1> SUFFICES ASSUME phase'[j] = "done", Parent(j), NEW c \in Family(j)
             PROVE  /\ phase'[c] # "new"
                    /\ j \in program.waits \cup program.helps => phase'[c] = "done"
  BY FamilyConstant DEF BodyOK
<1>1. c \in Nodes /\ <<j, c>> \in program.children /\ Kept(c) /\ BodyOK(j) /\ JobOK(j)
  BY Monotone DEF Family, FamiliesOK, RunInv, JobsOK
<1>2. CASE phase[j] = "done"
  BY <1>1, <1>2 DEF BodyOK, Kept
<1>3. CASE phase[j] # "done"
  <2>1. ~Pool!Cancel(j)
    <3> SUFFICES ASSUME Pool!Cancel(j) PROVE FALSE
      OBVIOUS
    <3>1. phase[j] = "waiting" /\ j \in successOnly
      BY DEF Pool!Cancel, Pool!DependencyFailed, Pool!Move
    <3>2. j \in program.successOnly
      BY <1>1, <3>1 DEF JobOK
    <3> QED  BY <3>2 DEF Parent
  <2>2. LeaveJob(j)
    BY <1>3, <2>1, Completes
  <2>3. BodyEnds(j)
    BY <2>2 DEF LeaveJob, Parent
  <2>4. phase[c] # "new" /\ (j \in program.waits \cup program.helps => phase[c] = "done")
    BY <1>1, <2>3 DEF BodyEnds
  <2> QED  BY <1>1, <2>4 DEF Kept
<1> QED  BY <1>2, <1>3

(* The wrapped job of a node is entered with the job and never goes back.  *)
LEMMA StepsNext ==
  ASSUME BuildInv, RunInv, FamiliesOK, [Next]_vars, ~Recording, NEW j \in Nodes
  PROVE  StepOK(j)' /\ (step[j] = "recorded" => step'[j] = "recorded")
<1>1. /\ j \in Jobs /\ phase \in [Jobs -> States] /\ step \in [Nodes -> Steps] /\ StepOK(j)
      /\ \A i \in Nodes : i \in Jobs
  BY RunFacts DEF RunInv, TypeInv, TypeOK, States, Steps, FamiliesOK
<1>2. ASSUME step' = step, phase'[j] = phase[j] \/ phase[j] \in {"new", "waiting", "queued"} \/ phase'[j] = "done"
      PROVE  StepOK(j)' /\ (step[j] = "recorded" => step'[j] = "recorded")
  BY <1>1, <1>2 DEF StepOK
<1>3. CASE Build /\ UNCHANGED <<script, poolVars, helper, now, recordVars, report>>
  BY <1>2, <1>3 DEF poolVars, recordVars
<1>4. CASE \/ BeginRun \/ Wait \/ Get \/ WaitAll \/ ReportTimed \/ ReportFailure \/ CopyRecords \/ Tick
           \/ UNCHANGED vars
  BY <1>2, <1>4 DEF BeginRun, Wait, Get, WaitAll, ReportTimed, ReportFailure, CopyRecords, Tick, vars, poolVars,
       recordVars
<1>5. CASE DestroyPool
  BY <1>2, <1>5 DEF DestroyPool, Pool!Close, recordVars
<1>6. ASSUME NEW i, \E after, needsSuccess : Pool!Submit(i, after, needsSuccess), step' = step
      PROVE  StepOK(j)' /\ (step[j] = "recorded" => step'[j] = "recorded")
  <2>1. PICK s \in {"waiting", "queued"} : phase' = [phase EXCEPT ![i] = s]
    BY <1>6 DEF Pool!Submit, Pool!Move
  <2>2. phase[i] = "new"
    BY <1>6 DEF Pool!Submit, Pool!Move
  <2>3. phase'[j] = phase[j] \/ phase[j] = "new"
    BY <1>1, <2>1, <2>2
  <2> QED  BY <1>2, <1>6, <2>3
<1>7. CASE SubmitNode
  BY <1>6, <1>7 DEF SubmitNode, recordVars
<1>8. ASSUME NEW i \in Nodes, JobStep(i)
      PROVE  StepOK(j)' /\ (step[j] = "recorded" => step'[j] = "recorded")
  <2>1. CASE Resolve(i) \/ LeaveJob(i)
    <3>1. /\ step' = step
          /\ phase'[j] = phase[j] \/ phase[j] = "waiting" \/ phase'[j] = "done"
      BY <1>1, <2>1 DEF Resolve, LeaveJob, Pool!Queue, Pool!Cancel, Pool!Finish, Pool!Move, recordVars
    <3> QED  BY <1>2, <3>1
  <2>2. CASE EnterJob(i)
    <3>1. /\ phase[i] = "queued" /\ phase' = [phase EXCEPT ![i] = "running"]
          /\ \E s \in {"entered", "body"} : step' = [step EXCEPT ![i] = s]
      BY <2>2 DEF EnterJob, CallJob, Pool!Start, Pool!Move
    <3>2. CASE i = j
      <4>1. step[j] = "none" /\ phase'[j] = "running"
        BY <1>1, <3>1, <3>2 DEF StepOK
      <4> QED  BY <4>1 DEF StepOK
    <3>3. CASE i # j
      <4>1. phase'[j] = phase[j] /\ step'[j] = step[j]
        BY <1>1, <3>1, <3>3
      <4> QED  BY <1>1, <4>1 DEF StepOK
    <3> QED  BY <3>2, <3>3
  <2>3. CASE \E child \in Nodes : SubmitChild(i, child)
    BY <1>6, <2>3 DEF SubmitChild, recordVars
  <2>4. CASE \/ MeasuredJobRuns(i) \/ MeasuredJobEnds(i) \/ RecordExecution(i)
             \/ TracedJobRuns(i) \/ TracedJobEnds(i) \/ FulfilFuture(i)
    <3>1. /\ \E to : step' = [step EXCEPT ![i] = to]
          /\ step[i] \in {"entered", "body"} /\ phase' = phase
      BY <2>4, RecordStepIs DEF poolVars
    <3>2. step'[j] = step[j] \/ (i = j /\ step[j] \in {"entered", "body"})
      BY <1>1, <3>1
    <3> QED  BY <1>1, <3>1, <3>2 DEF StepOK
  <2> QED  BY <1>8, <2>1, <2>2, <2>3, <2>4 DEF JobStep
<1> QED  BY <1>3, <1>4, <1>5, <1>7, <1>8 DEF Next, MainStep

LEMMA FamiliesNext ==
  ASSUME BuildInv, RunInv, FamiliesOK, [Next]_vars
  PROVE  FamiliesOK'
<1> SUFFICES ASSUME ~Recording PROVE \A j \in Nodes : StepOK(j)' /\ BodyOK(j)'
  BY StepFrame DEF FamiliesOK
<1> SUFFICES ASSUME NEW j \in Nodes PROVE StepOK(j)' /\ BodyOK(j)'
  OBVIOUS
<1> QED  BY BodiesNext, StepsNext

(* What a call has seen stays true.                                        *)
LEMMA GoneStays ==
  ASSUME BuildInv, RunInv, [Next]_vars, NEW j \in Nodes, Gone(j)
  PROVE  Gone(j)'
<1>1. Kept(j) /\ \A c \in Family(j) : Kept(c)
  BY Monotone DEF Family
<1> QED  BY <1>1, FamilyConstant DEF Gone, Kept

LEMMA AnsweredStays ==
  ASSUME BuildInv, RunInv, FamiliesOK, [Next]_vars, ~Recording, main = "run", NEW k \in 1 .. Len(Full), Answered(k)
  PROVE  Answered(k)'
<1>1. FullShape
  BY FullIs DEF RunInv, IdleOK, Settled
<1>2. Full' = Full
  BY StepFrame, FullConstant
<1>3. /\ Len(Full) \in Nat /\ \A l \in 1 .. Len(Full) : Full[l] \in Call
  BY <1>1 DEF FullShape
<1>4. ASSUME Full[k][1] = "get" PROVE step'[Full[k][2]] = "recorded"
  <2>1. Full[k][2] \in Nodes
    BY <1>3, <1>4 DEF Call
  <2>2. PICK j \in Nodes : j = Full[k][2]
    BY <2>1
  <2>3. step[j] = "recorded"
    BY <1>4, <2>2 DEF Answered
  <2> QED  BY <2>2, <2>3, StepsNext
<1>5. ASSUME Full[k][1] = "waitAll", NEW l \in 1 .. k - 1, Full[l][1] = "submit" PROVE Gone(Full[l][2])'
  <2>1. l \in 1 .. Len(Full)
    BY <1>3
  <2>2. Full[l][2] \in Nodes
    BY <1>3, <1>5, <2>1 DEF Call
  <2>3. PICK j \in Nodes : j = Full[l][2]
    BY <2>2
  <2>4. Gone(j)'
    BY <1>5, <2>3, GoneStays DEF Answered
  <2>5. (j = Full[l][2])'
    BY <1>2, <2>3
  <2> QED  BY <2>4, <2>5
<1> QED  BY <1>2, <1>4, <1>5 DEF Answered

(* A call that is taken from the script is made.                           *)
LEMMA CalledIs ==
  ASSUME BuildInv, RunInv, [Next]_vars, main = "run", script' # script
  PROVE  /\ script # <<>>
         /\ Head(script)[1] = "get" => Get
         /\ Head(script)[1] = "waitAll" => WaitAll
<1>1. CASE Build /\ UNCHANGED <<script, poolVars, helper, now, recordVars, report>>
  BY <1>1
<1>2. CASE BeginRun
  BY <1>2 DEF BeginRun
<1>3. CASE SubmitNode
  BY <1>3 DEF SubmitNode, Calling, recordVars
<1>4. CASE Wait \/ Get \/ WaitAll \/ CopyRecords
  BY <1>4 DEF Wait, Get, WaitAll, CopyRecords, Calling, recordVars, poolVars
<1>5. CASE ReportTimed \/ ReportFailure
  BY <1>5 DEF ReportTimed, ReportFailure, Calling, poolVars
<1>6. CASE DestroyPool \/ Tick \/ UNCHANGED vars
  BY <1>6 DEF DestroyPool, Tick, vars
<1>7. ASSUME NEW j \in Nodes, JobStep(j) PROVE script' = script
  BY <1>7 DEF JobStep, Resolve, EnterJob, CallJob, LeaveJob, MeasuredJobRuns, MeasuredJobEnds,
       RecordExecution, TracedJobRuns, TracedJobEnds, FulfilFuture, SubmitChild, Record
<1> QED  BY <1>1, <1>2, <1>3, <1>4, <1>5, <1>6, <1>7 DEF Next, MainStep

(* When WaitAll returns, no job is on its way, and a body that has ended   *)
(* has submitted its jobs.                                                 *)
LEMMA WaitAllCovers ==
  ASSUME BuildInv, RunInv, FamiliesOK, ~Recording, WaitAll, NEW j \in Nodes, phase[j] # "new"
  PROVE  Gone(j)
<1>1. \A i \in Nodes : phase[i] \in {"new", "done"}
  BY RunFacts DEF WaitAll
<1>2. phase[j] = "done" /\ BodyOK(j)
  BY <1>1 DEF FamiliesOK
<1>3. \A c \in Family(j) : c \in Nodes
  BY DEF Family
<1> QED  BY <1>1, <1>2, <1>3 DEF Gone, BodyOK

LEMMA AnswersNext ==
  ASSUME BuildInv, RunInv, FamiliesOK, AnswersOK, [Next]_vars
  PROVE  AnswersOK'
<1> SUFFICES ASSUME main' = "run", ~Recording, NEW k \in (1 .. Made)' PROVE Answered(k)'
  BY StepFrame DEF AnswersOK
<1>1. CASE main = "run"
  <2>1. FullShape /\ Full' = Full /\ Len(Full) \in Nat
    <3>1. FullShape
      BY <1>1, FullIs DEF RunInv, IdleOK, Settled
    <3>2. Full' = Full
      BY <1>1, StepFrame, FullConstant
    <3>3. Full \in Seq(Call)
      BY <3>1 DEF FullShape
    <3> QED  BY <3>1, <3>2, <3>3
  <2>2. /\ Made \in Nat /\ Made' \in Nat /\ (script' # script => Made' = Made + 1)
        /\ script' = script => Made' = Made
    BY <1>1, <2>1, MadeGrows DEF Made
  <2>3. ASSUME k \in 1 .. Made PROVE Answered(k)'
    <3>1. Len(script) \in Nat
      BY DEF RunInv, ScriptType
    <3>2. k \in 1 .. Len(Full)
      BY <2>1, <2>2, <2>3, <3>1 DEF Made
    <3>3. Answered(k)
      BY <1>1, <2>3 DEF AnswersOK
    <3> QED  BY <1>1, <3>2, <3>3, AnsweredStays
  <2>4. ASSUME k \notin 1 .. Made PROVE Answered(k)'
    <3>1. k = Made + 1 /\ script' # script
      BY <2>2, <2>4
    <3>2. /\ script # <<>> /\ Head(script) = Full[k] /\ k \in 1 .. Len(Full)
          /\ \A l \in 1 .. Len(Full) : Full[l] \in Call
      <4>1. script # <<>>
        BY <1>1, <3>1, CalledIs
      <4> QED  BY <1>1, <2>1, <3>1, <4>1, CallIs DEF FullShape
    <3>3. Answered(k)
      <4>1. ASSUME Full[k][1] = "get" PROVE step[Full[k][2]] = "recorded"
        <5>1. Get
          BY <1>1, <3>1, <3>2, <4>1, CalledIs
        <5> QED  BY <3>2, <5>1 DEF Get, Argument
      <4>2. ASSUME Full[k][1] = "waitAll", NEW l \in 1 .. k - 1, Full[l][1] = "submit" PROVE Gone(Full[l][2])
        <5>1. WaitAll
          BY <1>1, <3>1, <3>2, <4>2, CalledIs
        <5>2. l \in 1 .. Made /\ l \in 1 .. Len(Full)
          BY <2>1, <2>2, <3>1, <3>2
        <5>3. Passed(Full[l])
          BY <1>1, <5>2 DEF RunInv, ScriptOK
        <5>4. Full[l][2] \in Nodes
          BY <3>2, <4>2, <5>2 DEF Call
        <5>5. phase[Full[l][2]] # "new"
          BY <4>2, <5>3 DEF Passed
        <5>6. PICK j \in Nodes : j = Full[l][2]
          BY <5>4
        <5> QED  BY <5>1, <5>5, <5>6, WaitAllCovers
      <4> QED  BY <4>1, <4>2 DEF Answered
    <3> QED  BY <1>1, <3>2, <3>3, AnsweredStays
  <2> QED  BY <2>3, <2>4
<1>2. CASE main # "run"
  <2>1. BeginRun /\ program' = program /\ order' = order
    <3>1. CASE BeginRun
      BY <3>1 DEF BeginRun, searchVars
    <3>2. CASE Build
      BY <3>2 DEF Build, Declare, ValidateAndBuildAdjacency, VisitRoot, VisitDependency, VisitReturns, Leave,
           SearchEnds
    <3>3. CASE \/ SubmitNode \/ Wait \/ Get \/ WaitAll \/ ReportTimed \/ ReportFailure \/ CopyRecords
               \/ DestroyPool \/ Tick \/ UNCHANGED vars
      BY <1>2, <3>3 DEF SubmitNode, Wait, Get, WaitAll, ReportTimed, ReportFailure, CopyRecords, Calling,
           DestroyPool, Tick, vars, buildVars
    <3>4. ASSUME NEW j \in Nodes, JobStep(j) PROVE main' = main
      BY <3>4 DEF JobStep, Resolve, EnterJob, CallJob, LeaveJob, MeasuredJobRuns, MeasuredJobEnds,
           RecordExecution, TracedJobRuns, TracedJobEnds, FulfilFuture, SubmitChild, Record, buildVars
    <3> QED  BY <1>2, <3>1, <3>2, <3>3, <3>4 DEF Next, MainStep
  <2>2. script' = Full /\ Full' = Full /\ cycles = {} /\ main \in Settled
    BY <2>1, FullConstant DEF BeginRun, IsValid, Full, Settled
  <2>3. Len(Full) \in Nat
    BY <2>2, FullIs DEF FullShape
  <2>4. Made' = 0
    BY <2>2, <2>3 DEF Made
  <2> QED  BY <2>4
<1> QED  BY <1>1, <1>2

LEMMA AcceptedNext ==
  ASSUME BuildInv, RunInv, AcceptedOK, [Next]_vars
  PROVE  AcceptedOK'
<1>1. /\ program' = program /\ Nodes' = Nodes /\ phase \in [Jobs -> States] /\ \A j \in Nodes : j \in Jobs
      /\ main = "run" => badEdges' = badEdges
  BY RunFacts, StepFrame DEF RunInv, TypeInv, TypeOK, States
<1>2. main' = "run" => program.runs /\ badEdges' = {}
  <2>1. CASE BeginRun
    BY <2>1 DEF BeginRun, IsValid
  <2>2. CASE Build
    BY <2>2 DEF Build, Declare, ValidateAndBuildAdjacency, VisitRoot, VisitDependency, VisitReturns, Leave,
         SearchEnds
  <2>3. CASE \/ SubmitNode \/ Wait \/ Get \/ WaitAll \/ ReportTimed \/ ReportFailure \/ CopyRecords
             \/ DestroyPool \/ Tick \/ UNCHANGED vars
    <3>1. main' = "run" => main = "run"
      BY <2>3 DEF SubmitNode, Wait, Get, WaitAll, ReportTimed, ReportFailure, CopyRecords, Calling,
           DestroyPool, Tick, vars, buildVars
    <3> QED  BY <1>1, <3>1 DEF AcceptedOK
  <2>4. ASSUME NEW j \in Nodes, JobStep(j) PROVE main' = "run" => program.runs /\ badEdges' = {}
    <3>1. main' = main
      BY <2>4 DEF JobStep, Resolve, EnterJob, CallJob, LeaveJob, MeasuredJobRuns, MeasuredJobEnds,
           RecordExecution, TracedJobRuns, TracedJobEnds, FulfilFuture, SubmitChild, Record, buildVars
    <3> QED  BY <1>1, <3>1 DEF AcceptedOK
  <2> QED  BY <2>1, <2>2, <2>3, <2>4 DEF Next, MainStep
<1>3. ASSUME NEW j \in Jobs \ Nodes PROVE phase'[j] = "new"
  <2>1. phase[j] = "new"
    BY <1>3 DEF AcceptedOK
  <2>2. CASE phase' = phase
    BY <2>1, <2>2
  <2>3. CASE Build /\ UNCHANGED <<script, poolVars, helper, now, recordVars, report>>
    BY <2>2, <2>3 DEF poolVars
  <2>4. CASE \/ BeginRun \/ Wait \/ Get \/ WaitAll \/ ReportTimed \/ ReportFailure \/ CopyRecords \/ Tick
             \/ UNCHANGED vars
    BY <2>2, <2>4 DEF BeginRun, Wait, Get, WaitAll, ReportTimed, ReportFailure, CopyRecords, Tick, vars, poolVars
  <2>5. CASE DestroyPool
    BY <2>2, <2>5 DEF DestroyPool, Pool!Close
  <2>6. CASE SubmitNode
    <3>1. Head(script)[1] = "submit" /\ Head(script) \in Call
      BY <2>6, CallIs DEF SubmitNode, Calling
    <3>2. Argument \in Nodes
      BY <3>1 DEF Argument, Call
    <3>3. PICK s \in {"waiting", "queued"} : phase' = [phase EXCEPT ![Argument] = s]
      BY <2>6 DEF SubmitNode, Pool!Submit, Pool!Move
    <3> QED  BY <1>1, <1>3, <2>1, <3>2, <3>3
  <2>7. ASSUME NEW i \in Nodes, JobStep(i) PROVE phase'[j] = "new"
    <3>1. CASE Resolve(i) \/ LeaveJob(i) \/ EnterJob(i)
      BY <1>1, <1>3, <2>1, <3>1 DEF Resolve, LeaveJob, EnterJob, CallJob, Pool!Queue, Pool!Cancel, Pool!Finish,
           Pool!Start, Pool!Move
    <3>2. CASE \E child \in Nodes : SubmitChild(i, child)
      BY <1>1, <1>3, <2>1, <3>2 DEF SubmitChild, Pool!Submit, Pool!Move
    <3>3. CASE \/ MeasuredJobRuns(i) \/ MeasuredJobEnds(i) \/ RecordExecution(i)
               \/ TracedJobRuns(i) \/ TracedJobEnds(i) \/ FulfilFuture(i)
      BY <2>2, <3>3, RecordStepIs DEF poolVars
    <3> QED  BY <2>7, <3>1, <3>2, <3>3 DEF JobStep
  <2> QED  BY <2>3, <2>4, <2>5, <2>6, <2>7 DEF Next, MainStep
<1> QED  BY <1>1, <1>2, <1>3 DEF AcceptedOK

(* A valid graph that runs keeps all its edges, none from a node to itself.*)
LEMMA AcceptedEdges ==
  ASSUME BuildInv, main = "run", badEdges = {}
  PROVE  /\ Used = DOMAIN Edges
         /\ \A i \in DOMAIN Edges : /\ Edges[i][1] # Edges[i][2] /\ Edges[i] = <<Edges[i][1], Edges[i][2]>>
                                    /\ Edges[i][1] \in Nodes /\ Edges[i][2] \in Nodes
<1>1. program \in Programs /\ \A i \in DOMAIN Edges : Accepted(i)
  BY DEF BuildInv, ControlOK, Listed
<1>2. Used = DOMAIN Edges
  <2>1. Used \subseteq DOMAIN Edges
    BY DEF Used
  <2>2. Class = "ValidatedJobGraph" => DOMAIN Edges \ Used = {}
    BY DEF BuildInv, ControlOK, Listed
  <2>3. Class # "ValidatedJobGraph" => Used = DOMAIN Edges
    BY DEF Used
  <2> QED  BY <2>1, <2>2, <2>3
<1>3. \A i \in DOMAIN Edges : i \in 1 .. Len(Edges) /\ Edges[i][1] \in Nodes /\ Edges[i][2] \in Nodes
  BY <1>1, <1>2, UsedEdges
<1>4. \A i \in DOMAIN Edges : Edges[i] = <<Edges[i][1], Edges[i][2]>>
  BY <1>1, <1>3, ProgramFacts
<1>5. ASSUME NEW i \in DOMAIN Edges PROVE Edges[i][1] # Edges[i][2]
  <2>1. Accepted(i) /\ i \in Used /\ Edges[i][1] \in Nat /\ Edges[i][2] \in Nat
    BY <1>1, <1>2, <1>3, ProgramFacts
  <2>2. CASE Class = "ValidatedJobGraph"
    BY <2>1, <2>2 DEF Used, Keeps
  <2>3. CASE Class = "ThreadPool"
    <3>1. Edges[i][2] < Edges[i][1]
      BY <1>1, <2>3, BuildAssumption DEF Class, Edges
    <3> QED  BY <2>1, <3>1
  <2>4. CASE Class \in {"JobGraphBuilder", "TimedJobGraph", "TraceJobGraph", "FailureCancelGraph"}
    BY <2>1, <2>4 DEF Accepted, BuilderAccepts, TimedAccepts, TraceAccepts, FailureAccepts
  <2>5. Class \in {"ThreadPool", "JobGraphBuilder", "ValidatedJobGraph", "TimedJobGraph", "TraceJobGraph",
                   "FailureCancelGraph"}
    BY <1>1, BuildAssumption DEF Class
  <2> QED  BY <2>2, <2>3, <2>4, <2>5
<1> QED  BY <1>2, <1>3, <1>4, <1>5

(* A call of the program has its place among the calls that main makes.    *)
LEMMA OwnCallMade ==
  ASSUME BuildInv, RunInv, main = "run", script = <<>>, NEW k \in DOMAIN program.calls
  PROVE  \E m \in 1 .. Made : /\ m = Len(Run) + k /\ Full[m] = program.calls[k] /\ Passed(Full[m])
                              /\ m \in Nat /\ Len(Run) \in Nat /\ k \in Nat
<1>1. OwnCalls
  BY FullIs DEF RunInv, IdleOK, Settled
<1>2. k \in 1 .. Len(program.calls) /\ Len(program.calls) \in Nat /\ Len(Run) \in Nat
  BY <1>1 DEF OwnCalls
<1>3. Made = Len(Run) + Len(program.calls)
  BY <1>1 DEF Made, OwnCalls
<1>4. Len(Run) + k \in 1 .. Made /\ k \in Nat /\ Len(Run) + k \in Nat
  <2>1. k \in Nat /\ 1 <= k /\ k <= Len(program.calls)
    BY <1>2
  <2>2. Len(Run) + k \in Nat /\ 1 <= Len(Run) + k /\ Len(Run) + k <= Len(Run) + Len(program.calls)
    BY <1>2, <2>1
  <2>3. Made \in Nat
    BY <1>2, <1>3
  <2> QED  BY <1>3, <2>1, <2>2, <2>3
<1>5. PICK m \in 1 .. Made : m = Len(Run) + k
  BY <1>4
<1>6. Full[m] = program.calls[k]
  BY <1>1, <1>2, <1>5 DEF OwnCalls
<1>7. Passed(Full[m])
  BY <1>5 DEF RunInv, ScriptOK
<1> QED  BY <1>2, <1>4, <1>5, <1>6, <1>7

(* What main has awaited by the end.                                       *)
LEMMA AwaitedIs ==
  ASSUME BuildInv, RunInv, LookInv, main = "run", script = <<>>, ~Recording, NEW j \in Nodes
  PROVE  /\ AwaitsHandle(program, j) => phase[j] = "done"
         /\ AwaitsAll(program, j) => Gone(j)
<1>1. ASSUME AwaitsHandle(program, j) PROVE phase[j] = "done"
  <2>1. PICK k \in DOMAIN program.calls : program.calls[k] = <<"wait", j>>
    BY <1>1 DEF AwaitsHandle
  <2>2. PICK m \in 1 .. Made : Full[m] = program.calls[k] /\ Passed(Full[m])
    BY OwnCallMade
  <2>3. PICK call : call = <<"wait", j>>
    OBVIOUS
  <2> QED  BY <2>1, <2>2, <2>3 DEF Passed
<1>2. ASSUME AwaitsAll(program, j) PROVE Gone(j)
  <2>1. PICK k \in DOMAIN program.calls :
          /\ program.calls[k] = <<"waitAll", 0>>
          /\ program.class = "ThreadPool" => \E l \in 1 .. k - 1 : program.calls[l] = <<"submit", j>>
    BY <1>2 DEF AwaitsAll
  <2>2. PICK m \in 1 .. Made :
          m = Len(Run) + k /\ Full[m] = program.calls[k] /\ m \in Nat /\ Len(Run) \in Nat /\ k \in Nat
    BY OwnCallMade
  <2>3. OwnCalls /\ RunShape /\ ToSet(order) = Nodes /\ Len(order) \in Nat /\ DOMAIN order = 1 .. Len(order)
    <3>1. order \in Seq(Nodes)
      BY DEF BuildInv, SearchTypeOK
    <3>2. Len(order) \in Nat /\ DOMAIN order = 1 .. Len(order)
      BY <3>1
    <3>3. ToSet(order) = Nodes
      BY DEF BuildInv, SettledOK, RunInv, IdleOK, Settled
    <3> QED  BY <3>2, <3>3, FullIs, RunIs DEF RunInv, IdleOK, Settled
  <2>4. \E l \in 1 .. m - 1 : Full[l] = <<"submit", j>>
    <3>1. CASE Class = "ThreadPool"
      <4>1. PICK l \in 1 .. k - 1 : program.calls[l] = <<"submit", j>>
        BY <2>1, <3>1 DEF Class
      <4>2. l \in 1 .. Len(program.calls) /\ Len(Run) + l \in 1 .. m - 1
        BY <2>2, <2>3 DEF OwnCalls
      <4> QED  BY <2>3, <4>1, <4>2 DEF OwnCalls
    <3>2. CASE Class # "ThreadPool"
      <4>1. PICK l \in 1 .. Len(order) : order[l] = j
        BY <2>3 DEF ToSet
      <4>2. Len(Run) >= Len(order) /\ Run[l] = <<"submit", order[l]>>
        BY <2>3, <3>2 DEF RunShape
      <4>3. l \in 1 .. Len(Run) /\ l \in 1 .. m - 1 /\ k >= 1
        <5>1. k >= 1
          BY <2>3 DEF OwnCalls
        <5> QED  BY <2>2, <2>3, <4>2, <5>1
      <4>4. Full[l] = Run[l]
        <5>1. Run \in Seq(Call)
          BY <2>3 DEF RunShape
        <5>2. program.calls \in Seq(({"submit", "wait", "get"} \X (1 .. program.n)) \cup {<<"waitAll", 0>>})
          BY CallsAssumption, RunFacts
        <5>3. PICK own : own = program.calls
          OBVIOUS
        <5> QED  BY <4>3, <5>1, <5>2, <5>3 DEF Full
      <4> QED  BY <4>1, <4>2, <4>3, <4>4
    <3> QED  BY <3>1, <3>2
  <2>5. PICK l \in 1 .. m - 1 : Full[l] = <<"submit", j>>
    BY <2>4
  <2>6. Answered(m)
    BY DEF LookInv, AnswersOK
  <2>7. PICK call, given : call = <<"waitAll", 0>> /\ given = <<"submit", j>>
    OBVIOUS
  <2>8. Full[m] = call /\ Full[l] = given /\ call[1] = "waitAll" /\ given[1] = "submit" /\ given[2] = j
    BY <2>1, <2>2, <2>5, <2>7
  <2> QED  BY <2>6, <2>8 DEF Answered
<1> QED  BY <1>1, <1>2

(* By the end every job has ended, a task with a future apart that may     *)
(* still be leaving its body, or something depends on it.                  *)
LEMMA EndedOrNeeded ==
  ASSUME BuildInv, RunInv, LookInv, main = "run", script = <<>>, NEW j \in Nodes
  PROVE  phase[j] \in {"running", "done"} \/ \E c \in Nodes : j \in Needs(c)
<1>1. /\ program \in Programs /\ program.runs /\ Used = DOMAIN Edges
      /\ \A i \in DOMAIN Edges : /\ Edges[i][1] # Edges[i][2] /\ Edges[i] = <<Edges[i][1], Edges[i][2]>>
                                 /\ Edges[i][1] \in Nodes
  BY AcceptedEdges DEF BuildInv, ControlOK, LookInv, AcceptedOK
<1>2. CASE Recording
  <2>1. FullShape /\ Made = Len(Full)
    <3>1. FullShape /\ OwnCalls
      BY FullIs DEF RunInv, IdleOK, Settled
    <3> QED  BY <3>1 DEF Made, OwnCalls
  <2>2. PICK k \in 1 .. Len(Run) - 1 : Full[k] = <<Closing, j>>
    BY <1>2, <2>1 DEF FullShape
  <2>3. k \in 1 .. Made
    <3>1. Len(Run) \in Nat /\ Len(Full) \in Nat /\ Len(Run) <= Len(Full)
      BY <2>1 DEF FullShape
    <3> QED  BY <2>1, <2>2, <3>1
  <2>4. Passed(Full[k])
    BY <2>3 DEF RunInv, ScriptOK
  <2>5. PICK call : call = <<Closing, j>>
    OBVIOUS
  <2>6. call[1] \in {"wait", "reportTimed", "reportFailure"} /\ call[2] = j
    BY <2>5 DEF Closing
  <2> QED  BY <2>2, <2>4, <2>5, <2>6 DEF Passed
<1>3. CASE ~Recording
  <2>1. LookedAfter(program, j)
    BY <1>1, <1>3, WaitsAssumption DEF Recording, Class, Edges, Nodes
  <2>2. CASE \E i \in DOMAIN program.edges : program.edges[i][2] = j
    <3>1. PICK i \in DOMAIN Edges : Edges[i][2] = j
      BY <2>2 DEF Edges
    <3>2. PICK c \in Nodes : Edges[i] = <<c, j>>
      BY <1>1, <3>1
    <3>3. j \in ToSet(dependencies[c])
      BY <1>1, <3>2 DEF BuildInv, ListsOK, Listed
    <3> QED  BY <3>3 DEF Needs
  <2>3. CASE AwaitsHandle(program, j) \/ AwaitsAll(program, j)
    BY <1>3, <2>3, AwaitedIs DEF Gone
  <2>4. CASE j \in program.futures /\ \E k \in DOMAIN program.calls : program.calls[k] = <<"get", j>>
    <3>1. PICK k \in DOMAIN program.calls : program.calls[k] = <<"get", j>>
      BY <2>4
    <3>2. PICK m \in 1 .. Made : Full[m] = program.calls[k]
      BY OwnCallMade
    <3>3. Answered(m) /\ StepOK(j)
      BY <1>3 DEF LookInv, AnswersOK, FamiliesOK
    <3>4. PICK call : call = <<"get", j>>
      OBVIOUS
    <3>5. step[j] = "recorded"
      BY <3>1, <3>2, <3>3, <3>4 DEF Answered
    <3> QED  BY <3>3, <3>5 DEF StepOK
  <2>5. ASSUME NEW i \in 1 .. program.n, <<i, j>> \in program.children,
               i \notin program.successOnly \cup program.futures,
               AwaitsAll(program, i) \/ (AwaitsHandle(program, i) /\ i \in program.waits \cup program.helps)
        PROVE  phase[j] = "done"
    <3>1. i \in Nodes /\ Parent(i) /\ j \in Family(i)
      BY <2>5 DEF Nodes, Parent, Family
    <3>2. CASE AwaitsAll(program, i)
      <4>1. Gone(i)
        BY <1>3, <3>1, <3>2, AwaitedIs
      <4> QED  BY <3>1, <4>1 DEF Gone
    <3>3. CASE AwaitsHandle(program, i) /\ i \in program.waits \cup program.helps
      <4>1. phase[i] = "done" /\ BodyOK(i)
        BY <1>3, <3>1, <3>3, AwaitedIs DEF LookInv, FamiliesOK
      <4> QED  BY <3>1, <3>3, <4>1 DEF BodyOK
    <3> QED  BY <2>5, <3>2, <3>3
  <2> QED  BY <2>1, <2>2, <2>3, <2>4, <2>5 DEF LookedAfter
<1> QED  BY <1>2, <1>3

(* The last node of the order that had not ended would be needed by a      *)
(* later one, which ends after it.                                         *)
LEMMA AllEnded ==
  ASSUME BuildInv, RunInv, LookInv, main = "run", script = <<>>
  PROVE  \A j \in Nodes : phase[j] \in {"running", "done"}
<1> DEFINE n == Len(order)
           S == {k \in 1 .. n : phase[order[k]] \notin {"running", "done"}}
           f == [k \in S |-> k]
<1>1. /\ n \in Nat /\ DOMAIN order = 1 .. n /\ (\A k \in 1 .. n : order[k] \in Nodes)
      /\ IsInjective(order) /\ ToSet(order) = Nodes /\ Sorted
  <2>1. order \in Seq(Nodes)
    BY DEF BuildInv, SearchTypeOK
  <2>2. IsInjective(order) /\ ToSet(order) = Nodes /\ Sorted
    BY DEF BuildInv, SettledOK, RunInv, IdleOK, Settled
  <2> QED  BY <2>1, <2>2
<1>2. SUFFICES ASSUME S # {} PROVE FALSE
  BY <1>1 DEF ToSet
<1>3. IsFiniteSet(S)
  <2>1. S \subseteq 1 .. n /\ IsFiniteSet(1 .. n)
    BY <1>1, FS_Interval
  <2> QED  BY <2>1, FS_Subset
<1>4. PICK m \in S : \A k \in S : k <= m
  <2>1. \A k \in S : f[k] = k /\ f[k] \in Int
    BY <1>1
  <2> HIDE DEF S, f
  <2>2. PICK m \in S : \A k \in S : f[k] <= f[m]
    BY <1>2, <1>3, <2>1, Greatest
  <2> QED  BY <2>1, <2>2
<1>5. m \in 1 .. n /\ order[m] \in Nodes /\ phase[order[m]] \notin {"running", "done"}
  BY <1>1
<1>6. PICK j \in Nodes : j = order[m]
  BY <1>5
<1>7. PICK c \in Nodes : j \in Needs(c)
  BY <1>5, <1>6, EndedOrNeeded
<1>8. PICK k \in 1 .. n : order[k] = c
  BY <1>1 DEF ToSet
<1>9. PICK l \in 1 .. k - 1 : order[l] = j
  BY <1>1, <1>7, <1>8 DEF Sorted, Needs
<1>10. l = m
  <2>1. l \in 1 .. n
    BY <1>1, <1>8
  <2> QED  BY <1>1, <1>5, <1>6, <1>9, <2>1 DEF IsInjective
<1>11. k \notin S
  BY <1>1, <1>4, <1>8, <1>9, <1>10
<1>12. phase[c] \in {"running", "done"}
  BY <1>8, <1>11
<1>13. phase[j] = "done"
  BY <1>7, <1>12 DEF RunInv, JobsOK, JobOK
<1> QED  BY <1>5, <1>6, <1>13

LEMMA NothingWaitsNext ==
  ASSUME BuildInv, RunInv, LookInv, [Next]_vars
  PROVE  NothingWaitsAtDestruction'
<1> SUFFICES ASSUME closed', NEW j \in Jobs PROVE phase'[j] # "waiting"
  BY DEF NothingWaitsAtDestruction, Jobs
<1>1. phase \in [Jobs -> States]
  BY DEF RunInv, TypeInv, TypeOK, States
<1>2. closed => phase[j] # "waiting"
  BY DEF LookInv, NothingWaitsAtDestruction
<1>3. CASE poolVars' = poolVars
  BY <1>2, <1>3 DEF poolVars
<1>4. CASE Build /\ UNCHANGED <<script, poolVars, helper, now, recordVars, report>>
  BY <1>3, <1>4
<1>5. CASE \/ BeginRun \/ Wait \/ Get \/ WaitAll \/ ReportTimed \/ ReportFailure \/ CopyRecords \/ Tick
           \/ UNCHANGED vars
  BY <1>3, <1>5 DEF BeginRun, Wait, Get, WaitAll, ReportTimed, ReportFailure, CopyRecords, Tick, vars
<1>6. CASE SubmitNode
  BY <1>6 DEF SubmitNode, Pool!Submit
<1>7. CASE DestroyPool
  <2>1. main = "run" /\ script = <<>> /\ phase' = phase
    BY <1>7 DEF DestroyPool, Pool!Close
  <2>2. \A i \in Nodes : phase[i] \in {"running", "done"}
    BY <2>1, AllEnded
  <2>3. \A i \in Jobs \ Nodes : phase[i] = "new"
    BY DEF LookInv, AcceptedOK
  <2> QED  BY <2>1, <2>2, <2>3
<1>8. ASSUME NEW i \in Nodes, JobStep(i) PROVE phase'[j] # "waiting"
  <2>1. CASE Resolve(i) \/ LeaveJob(i) \/ EnterJob(i)
    BY <1>1, <1>2, <2>1 DEF Resolve, LeaveJob, EnterJob, CallJob, Pool!Queue, Pool!Cancel, Pool!Finish,
         Pool!Start, Pool!Move
  <2>2. CASE \E child \in Nodes : SubmitChild(i, child)
    BY <2>2 DEF SubmitChild, Pool!Submit
  <2>3. CASE \/ MeasuredJobRuns(i) \/ MeasuredJobEnds(i) \/ RecordExecution(i)
             \/ TracedJobRuns(i) \/ TracedJobEnds(i) \/ FulfilFuture(i)
    BY <1>3, <2>3, RecordStepIs
  <2> QED  BY <1>8, <2>1, <2>2, <2>3 DEF JobStep
<1> QED  BY <1>4, <1>5, <1>6, <1>7, <1>8 DEF Next, MainStep

LEMMA LookInitial == RunInit => LookInv
<1> SUFFICES ASSUME RunInit PROVE LookInv
  OBVIOUS
<1>1. BuildInv
  BY BuildInit
<1>2. /\ main = "declare" /\ ~closed /\ \A j \in Jobs : phase[j] = "new"
      /\ \A j \in Nodes : j \in Jobs /\ step[j] = "none"
  BY <1>1, RunFacts DEF RunInit, Init, Pool!Init
<1> QED  BY <1>2 DEF LookInv, FamiliesOK, StepOK, BodyOK, AnswersOK, AcceptedOK, NothingWaitsAtDestruction

(* No program destroys its pool while a job still waits for its            *)
(* dependencies: a body that waits ends after the jobs it submitted,       *)
(* WaitAll returns after the bodies and what they submitted, and what a    *)
(* later job depends on has ended when that one has.                       *)
THEOREM NothingIsWaiting == Spec => []NothingWaitsAtDestruction
<1>1. RunInit => LookInv
  BY LookInitial
<1>2. BuildInv /\ RunInv /\ LookInv /\ [Next]_vars => LookInv'
  <2> SUFFICES ASSUME BuildInv, RunInv, LookInv, [Next]_vars PROVE LookInv'
    OBVIOUS
  <2>1. FamiliesOK'
    BY FamiliesNext DEF LookInv
  <2>2. AnswersOK'
    BY AnswersNext DEF LookInv
  <2>3. AcceptedOK'
    BY AcceptedNext DEF LookInv
  <2>4. NothingWaitsAtDestruction'
    BY NothingWaitsNext
  <2> QED  BY <2>1, <2>2, <2>3, <2>4 DEF LookInv
<1>3. LookInv => NothingWaitsAtDestruction
  BY DEF LookInv
<1> QED  BY <1>1, <1>2, <1>3, RunInvariance, PTL DEF Spec

=============================================================================
