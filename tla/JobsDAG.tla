------------------------------ MODULE JobsDAG ------------------------------
(***************************************************************************)
(* How the validator looks for cycles among the jobs of one workflow or    *)
(* job group: buildJobsDAG (pkg/parser/job_invocation.go) makes a graph of *)
(* the `requires' lists, isValidDAG (pkg/parser/validate/cycles.go) runs   *)
(* Kahn's algorithm on it, and validateDAG (job_invocation.go) reports the *)
(* jobs it could not visit.                                                *)
(*                                                                         *)
(* Go iterates over maps in a random order, so the order in which nodes    *)
(* leave the queue is arbitrary: the queue is a set.                       *)
(***************************************************************************)
EXTENDS Naturals, Sequences, FiniteSets

CONSTANTS
  Names,        \* names of jobs, job groups and invocations
  Ids,          \* the invocations a workflow lists
  MaxRequires,  \* length of the longest `requires' list
  Invocations   \* what an invocation may be

RequireLists == UNION {[1..n -> Names] : n \in 0..MaxRequires}
JobInvocation == [job : Names, step : Names, requires : RequireLists]

ASSUME IdsAssumption == IsFiniteSet(Ids)
ASSUME RequiresAssumption ==
  MaxRequires \in Nat /\ Invocations \subseteq JobInvocation

VARIABLES
  invocations,  \* workflow.JobInvocations
  pc,
  in_degree, queue, visited,  \* the variables of isValidDAG
  todo,         \* edges of the visited node that remain to be followed
  reported      \* invocations validateDAG reports
vars == <<invocations, pc, in_degree, queue, visited, todo, reported>>

(* buildJobsDAG: an edge for each element of each `requires' list, from the *)
(* name it requires to the name the requiring invocation has.  A name may   *)
(* be required twice.                                                       *)
Edges == {e \in Ids \X (1..MaxRequires) : e[2] \in 1..Len(invocations[e[1]].requires)}
From(e) == invocations[e[1]].requires[e[2]]
To(e)   == invocations[e[1]].step

Nodes    == {From(e) : e \in Edges} \union {To(e) : e \in Edges}
Into(n)  == {e \in Edges : To(e) = n}
OutOf(n) == {e \in Edges : From(e) = n}

Init ==
  /\ invocations \in [Ids -> Invocations]
  /\ pc = "count"
  /\ in_degree = [n \in Names |-> 0] /\ queue = {} /\ visited = {} /\ todo = {}
  /\ reported = {}

(* The first loops of isValidDAG: count the edges into each node, and queue *)
(* the nodes that have none.                                                *)
CountDegrees ==
  /\ pc = "count" /\ pc' = "visit"
  /\ in_degree' = [n \in Names |-> Cardinality(Into(n))]
  /\ queue' = {n \in Nodes : in_degree'[n] = 0}
  /\ UNCHANGED <<invocations, visited, todo, reported>>

VisitNode ==
  /\ pc = "visit" /\ todo = {}
  /\ \E n \in queue :
       /\ queue' = queue \ {n}
       /\ visited' = visited \union {n}
       /\ todo' = IF n \in visited THEN {} ELSE OutOf(n)
  /\ UNCHANGED <<invocations, pc, in_degree, reported>>

FirstEdge(degree) == TRUE      \* mutation: a node is ready after any edge
NeverReady(degree) == FALSE    \* mutation: only nodes without edges are visited
Ready(degree) == degree = 0

FollowEdge ==
  /\ pc = "visit"
  /\ \E e \in todo :
       /\ todo' = todo \ {e}
       /\ in_degree' = [in_degree EXCEPT ![To(e)] = @ - 1]
       /\ queue' = IF Ready(in_degree'[To(e)]) THEN queue \union {To(e)} ELSE queue
  /\ UNCHANGED <<invocations, pc, visited, reported>>

(* validateDAG: the invocations of the jobs named like an unvisited node.   *)
NamedAsVisited(i) == invocations[i].job \in visited  \* mutation: the wrong half
NamedInCycle(i) == invocations[i].job \in Nodes \ visited

Report ==
  /\ pc = "visit" /\ queue = {} /\ todo = {}
  /\ reported' = {i \in Ids : NamedInCycle(i)}
  /\ pc' = "done"
  /\ UNCHANGED <<invocations, in_degree, queue, visited, todo>>

Next == CountDegrees \/ VisitNode \/ FollowEdge \/ Report
Spec == Init /\ [][Next]_vars
-----------------------------------------------------------------------------
(* n is on a cycle: every set that contains what n leads to, and what its   *)
(* own members lead to, contains n.                                         *)
LeadsInto(S, T) == \A e \in Edges : From(e) \in S => To(e) \in T
OnCycle(n) ==
  n \in Nodes /\ \A T \in SUBSET Nodes : LeadsInto({n} \union T, T) => n \in T

(* Every node of S is led to from S: a cycle, or several.                   *)
SelfFed(S) == \A n \in S : \E e \in Into(n) : From(e) \in S

(* Every variable keeps its type. *)
TypeOK ==
  /\ invocations \in [Ids -> Invocations]
  /\ pc \in {"count", "visit", "done"}
  /\ in_degree \in [Names -> Nat]
  /\ queue \subseteq Nodes /\ visited \subseteq Nodes
  /\ todo \subseteq Edges /\ reported \subseteq Ids

(* No cycle is missed: whatever the order of the visits, a node on a cycle  *)
(* is never taken for visited (cycles.go:25-38).                            *)
CyclesNeverVisited == \A S \in SUBSET Nodes : SelfFed(S) => S \intersect visited = {}

(* No acyclic graph is refused: what is left when the queue runs empty is   *)
(* fed by itself (cycles.go:40-46).                                         *)
RestIsCyclic == pc = "done" => SelfFed(Nodes \ visited)

(* Every invocation on a cycle that has not been renamed is reported        *)
(* (job_invocation.go:314-321).                                             *)
CyclesReported ==
  pc = "done" =>
    \A i \in Ids : invocations[i].job = invocations[i].step /\ OnCycle(invocations[i].step)
      => i \in reported

(* "maps each job invocation to its requirements, should be a directed      *)
(* acyclic graph" (ast/workflow.go:11): a workflow the validator is silent  *)
(* about has no cycle.                                                      *)
SilenceMeansAcyclic ==
  pc = "done" /\ reported = {} => \A n \in Nodes : ~OnCycle(n)
-----------------------------------------------------------------------------
(* The degree of a node counts the edges into it not yet followed; it is    *)
(* zero exactly if the node is queued or visited.                           *)
Unfollowed(n) == {e \in Into(n) : From(e) \notin visited \/ e \in todo}

DegreesCount ==
  pc # "count" => \A n \in Nodes :
    /\ in_degree[n] = Cardinality(Unfollowed(n))
    /\ in_degree[n] = 0 <=> n \in queue \union visited

(* The inductive invariant. *)
IInv ==
  /\ TypeOK /\ DegreesCount /\ CyclesNeverVisited /\ RestIsCyclic
  /\ \A e \in todo : From(e) \in visited
  /\ queue \intersect visited = {}
  /\ pc = "count" => queue = {} /\ visited = {} /\ todo = {}
  /\ pc = "done" => queue = {} /\ todo = {} /\ reported = {i \in Ids : NamedInCycle(i)}
=============================================================================
