----------------------------- MODULE GraphBuild -----------------------------
(***************************************************************************)
(* How the graph classes of the experiments turn declared nodes and edges  *)
(* into a submission order: JobGraphBuilder (Day 17), ValidatedJobGraph    *)
(* (Day 18), TimedJobGraph (Day 19), TraceJobGraph (Day 20) and            *)
(* FailureCancelGraph (Day 27).                                            *)
(*                                                                         *)
(* An edge <<j, d>> makes node j depend on node d.  Nodes are numbered     *)
(* from 1 in the order of AddJob; a number above program.n names no node.  *)
(* Programs without a graph class submit their jobs in order themselves.   *)
(***************************************************************************)
EXTENDS Integers, Sequences, FiniteSets, SequencesExt

CONSTANT Programs  \* the programs to run, records made by Experiments!Program

(* Dependencies that come with AddJob or SubmitAfter belong to the job     *)
(* that is added; without a class they are handles, which exist already.   *)
ASSUME BuildAssumption ==
  \A p \in Programs :
    /\ p.n \in Nat
    /\ p.class \in {"ThreadPool", "JobGraphBuilder", "ValidatedJobGraph", "TimedJobGraph",
                    "TraceJobGraph", "FailureCancelGraph"}
    /\ p.edges \in Seq((Nat \ {0}) \X (Nat \ {0}))
    /\ \A i \in DOMAIN p.edges :
         /\ p.class \in {"ThreadPool", "JobGraphBuilder"} => p.edges[i][1] <= p.n
         /\ p.class = "ThreadPool" => p.edges[i][2] < p.edges[i][1]

VARIABLES
  program,      \* the program that runs
  main,         \* what its main thread does next
  dependencies, \* the dependency lists of the nodes
  badEdges,     \* edges Validate reported as structural errors
  cycles,       \* cycle paths Validate reported
  visited,      \* VisitState of the depth-first search
  stack,        \* its recursion: node and position in the node's dependencies
  order         \* topologicalOrder, the order of submission

searchVars == <<visited, stack, order, cycles>>
buildVars  == <<program, main, dependencies, badEdges, searchVars>>

Nodes == 1 .. program.n
Edges == program.edges
Class == program.class

Init ==
  /\ program \in Programs
  /\ main = "declare"
  /\ dependencies = [j \in Nodes |-> <<>>]
  /\ badEdges = {} /\ cycles = {}
  /\ visited = [j \in Nodes |-> "Unvisited"]
  /\ stack = <<>>
  /\ order = <<>>

-----------------------------------------------------------------------------
(* Declaration.                                                            *)

Exists(j) == j \in Nodes
Repeated(i) == \E k \in 1 .. i - 1 : Edges[k] = Edges[i]

(* Dependencies come with AddJob and must name earlier nodes.              *)
BuilderAccepts(i) == Edges[i][2] < Edges[i][1]

TimedAccepts(i) ==
  /\ Exists(Edges[i][1]) /\ Exists(Edges[i][2])
  /\ Edges[i][1] # Edges[i][2]
  /\ ~Repeated(i)

TraceAccepts(i) == Exists(Edges[i][1]) /\ Exists(Edges[i][2]) /\ Edges[i][2] < Edges[i][1]

FailureAccepts(i) ==
  /\ Exists(Edges[i][1]) /\ Exists(Edges[i][2]) /\ Edges[i][2] < Edges[i][1]
  /\ ~Repeated(i)

Accepted(i) == CASE Class = "JobGraphBuilder"    -> BuilderAccepts(i)
                 [] Class = "TimedJobGraph"      -> TimedAccepts(i)
                 [] Class = "TraceJobGraph"      -> TraceAccepts(i)
                 [] Class = "FailureCancelGraph" -> FailureAccepts(i)
                 [] OTHER                        -> TRUE

(* The dependency lists that a set of edges, by position, gives: each      *)
(* edge is pushed to the list of its node.                                 *)
Adjacency(used) ==
  [j \in Nodes |->
     LET List[k \in 0 .. Len(Edges)] ==
           IF k = 0 THEN <<>>
           ELSE IF k \in used /\ Edges[k][1] = j THEN Append(List[k - 1], Edges[k][2])
           ELSE List[k - 1]
     IN  List[Len(Edges)]]

(* Classes that need earlier dependencies submit in the order of the       *)
(* nodes; the others search for an order.                                  *)
Declare ==
  /\ main = "declare"
  /\ \/ /\ \E i \in DOMAIN Edges : ~Accepted(i)
        /\ main' = "refused"
        /\ UNCHANGED <<dependencies, order>>
     \/ /\ \A i \in DOMAIN Edges : Accepted(i)
        /\ \/ /\ Class = "ValidatedJobGraph"
              /\ main' = "collect"
              /\ UNCHANGED <<dependencies, order>>
           \/ /\ Class = "TimedJobGraph"
              /\ main' = "search"
              /\ dependencies' = Adjacency(DOMAIN Edges)
              /\ UNCHANGED order
           \/ /\ Class \notin {"ValidatedJobGraph", "TimedJobGraph"}
              /\ main' = "ordered"
              /\ dependencies' = Adjacency(DOMAIN Edges)
              /\ order' = [k \in Nodes |-> k]
  /\ UNCHANGED <<program, badEdges, visited, stack, cycles>>

-----------------------------------------------------------------------------
(* ValidatedJobGraph::Validate.  An edge with a structural error is        *)
(* reported and left out of the search.                                    *)

(* Bug: an edge that is declared twice is kept twice.                      *)
KeepsRepeated(i) ==
  Exists(Edges[i][1]) /\ Exists(Edges[i][2]) /\ Edges[i][1] # Edges[i][2]

Keeps(i) ==
  /\ Exists(Edges[i][1]) /\ Exists(Edges[i][2])
  /\ Edges[i][1] # Edges[i][2]
  /\ ~Repeated(i)

ValidateAndBuildAdjacency ==
  LET kept == {i \in DOMAIN Edges : Keeps(i)}
  IN  /\ main = "collect"
      /\ main' = "search"
      /\ dependencies' = Adjacency(kept)
      /\ badEdges' = DOMAIN Edges \ kept
      /\ UNCHANGED <<program, searchVars>>

(* The calls of visit on the stack, innermost last.                        *)
Path == [k \in DOMAIN stack |-> stack[k].node]

Enter(id, frames) ==
  /\ visited' = [visited EXCEPT ![id] = "Visiting"]
  /\ stack' = Append(frames, [node |-> id, next |-> 1])

VisitRoot ==
  LET unvisited == {id \in Nodes : visited[id] = "Unvisited"}
  IN  /\ main = "search" /\ stack = <<>> /\ unvisited # {}
      /\ Enter(Min(unvisited), <<>>)
      /\ UNCHANGED <<program, main, dependencies, badEdges, order, cycles>>

CyclePath(dependency) ==
  SubSeq(Path, SelectInSeq(Path, LAMBDA id : id = dependency), Len(Path))

(* What is recorded when a dependency is on the stack already: Day 18      *)
(* reports the path and goes on, Day 19 throws.                            *)
VisitDependency ==
  /\ main = "search" /\ stack # <<>>
  /\ LET top    == Last(stack)
         list   == dependencies[top.node]
         caller == [stack EXCEPT ![Len(stack)].next = @ + 1]
     IN  /\ top.next <= Len(list)
         /\ \/ /\ visited[list[top.next]] = "Unvisited"
               /\ Enter(list[top.next], caller)
               /\ UNCHANGED <<main, cycles>>
            \/ /\ visited[list[top.next]] = "Visiting"
               /\ stack' = caller
               /\ IF Class = "TimedJobGraph"
                  THEN main' = "threw" /\ UNCHANGED cycles
                  ELSE cycles' = cycles \cup {CyclePath(list[top.next])} /\ UNCHANGED main
               /\ UNCHANGED visited
            \/ /\ visited[list[top.next]] = "Visited"
               /\ stack' = caller
               /\ UNCHANGED <<main, visited, cycles>>
  /\ UNCHANGED <<program, dependencies, badEdges, order>>

Leave(newOrder) ==
  /\ main = "search" /\ stack # <<>>
  /\ Last(stack).next > Len(dependencies[Last(stack).node])
  /\ stack' = Front(stack)
  /\ visited' = [visited EXCEPT ![Last(stack).node] = "Visited"]
  /\ order' = newOrder
  /\ UNCHANGED <<program, main, dependencies, badEdges, cycles>>

(* Bug: the order lists a node before the dependencies it waits for.       *)
VisitReturnsReversed == Leave(<<Last(stack).node>> \o order)

VisitReturns == Leave(Append(order, Last(stack).node))

(* An order that a cycle made meaningless is thrown away.                  *)
SearchEnds ==
  /\ main = "search" /\ stack = <<>>
  /\ \A id \in Nodes : visited[id] # "Unvisited"
  /\ main' = "ordered"
  /\ order' = IF cycles = {} THEN order ELSE <<>>
  /\ UNCHANGED <<program, dependencies, badEdges, visited, stack, cycles>>

IsValid == badEdges = {} /\ cycles = {}

Build == \/ Declare \/ ValidateAndBuildAdjacency
         \/ VisitRoot \/ VisitDependency \/ VisitReturns \/ SearchEnds

-----------------------------------------------------------------------------
(* Properties.                                                             *)

(* The edges that mean something, and the graph they make.                 *)
TrueEdges == {<<Edges[i][1], Edges[i][2]>> :
                i \in {k \in DOMAIN Edges : Exists(Edges[k][1]) /\ Exists(Edges[k][2])}}

Above(j) ==  \* the nodes that j depends on, directly or not
  LET Reach[k \in 0 .. program.n] ==
        IF k = 0 THEN {}
        ELSE LET near == Reach[k - 1]
             IN  {e[2] : e \in {f \in TrueEdges : f[1] \in near \cup {j}}}
  IN  Reach[program.n]

Acyclic == \A j \in Nodes : j \notin Above(j)

(* Every class submits in an order in which dependencies come first, each  *)
(* node once: a handle that is looked up before it is assigned is empty,   *)
(* and its dependency would be lost without an error.                      *)
OrderIsTopological ==
  main = "ordered" /\ cycles = {} =>
    /\ Len(order) = program.n /\ ToSet(order) = Nodes
    /\ \A k \in DOMAIN order : ToSet(dependencies[order[k]]) \subseteq ToSet(SubSeq(order, 1, k - 1))

(* The search finds a cycle exactly when there is one, also when edges     *)
(* with structural errors are around it: Day 18 by its result, Day 19 by   *)
(* its exception.  A path that is reported can be followed in the graph.   *)
ValidationIsExact ==
  /\ Class = "ValidatedJobGraph" /\ main = "ordered"
       => (IsValid <=> Acyclic /\ Cardinality(TrueEdges) = Len(Edges))
  /\ Class = "TimedJobGraph" /\ main = "threw" => ~Acyclic
  /\ Class = "TimedJobGraph" /\ main = "ordered" => Acyclic
  /\ \A p \in cycles : /\ Len(p) > 1
                       /\ \A k \in DOMAIN p :
                            <<p[k], p[IF k = Len(p) THEN 1 ELSE k + 1]>> \in TrueEdges

=============================================================================
