--------------------------- MODULE JobsDAGProofs ---------------------------
(***************************************************************************)
(* Proofs about JobsDAG for every set of names and every finite workflow:  *)
(* isValidDAG visits no node of a cycle and every node that is not fed by  *)
(* one, in whatever order the queue is emptied.                            *)
(***************************************************************************)
EXTENDS JobsDAG, TLAPS, FiniteSetTheorems

(* A workflow has finitely many requirements. *)
LEMMA EdgesFinite == IsFiniteSet(Edges)
<1>1. IsFiniteSet(1..MaxRequires)
  BY RequiresAssumption, FS_Interval
<1>2. IsFiniteSet(Ids \X (1..MaxRequires))
  BY <1>1, IdsAssumption, FS_Product
<1> QED BY <1>2, FS_Subset DEF Edges

(* The names edges connect are among Names. *)
LEMMA EdgeTypes ==
  ASSUME invocations \in [Ids -> Invocations]
  PROVE  /\ \A e \in Edges : From(e) \in Nodes /\ To(e) \in Nodes
         /\ Nodes \subseteq Names
<1>1. ASSUME NEW e \in Edges PROVE From(e) \in Names /\ To(e) \in Names
  <2>1. /\ e[1] \in Ids /\ e[2] \in 1..Len(invocations[e[1]].requires)
    BY DEF Edges
  <2>2. invocations[e[1]] \in JobInvocation
    BY <2>1, RequiresAssumption
  <2>3. invocations[e[1]].step \in Names /\ invocations[e[1]].requires \in RequireLists
    BY <2>2 DEF JobInvocation
  <2>4. PICK k \in 0..MaxRequires : invocations[e[1]].requires \in [1..k -> Names]
    BY <2>3 DEF RequireLists
  <2>5. Len(invocations[e[1]].requires) = k
    BY <2>4, RequiresAssumption
  <2>6. invocations[e[1]].requires[e[2]] \in Names
    BY <2>1, <2>4, <2>5
  <2> QED BY <2>3, <2>6 DEF From, To
<1> QED BY <1>1 DEF Nodes

(* No step changes the workflow, hence none changes the graph. *)
LEMMA SameGraph ==
  ASSUME UNCHANGED invocations
  PROVE  /\ Edges' = Edges /\ Nodes' = Nodes
         /\ \A e : From(e)' = From(e) /\ To(e)' = To(e)
         /\ \A n : Into(n)' = Into(n) /\ OutOf(n)' = OutOf(n)
<1>1. Edges' = Edges
  BY DEF Edges
<1>2. \A e : From(e)' = From(e) /\ To(e)' = To(e)
  BY DEF From, To
<1> QED BY <1>1, <1>2 DEF Nodes, Into, OutOf

(* An edge that has not been followed counts: its target has a degree. *)
LEMMA UnfollowedFinite ==
  ASSUME NEW n
  PROVE  /\ IsFiniteSet(Unfollowed(n))
         /\ Cardinality(Unfollowed(n)) \in Nat
         /\ Cardinality(Unfollowed(n)) = 0 <=> Unfollowed(n) = {}
<1>1. Unfollowed(n) \subseteq Edges
  BY DEF Unfollowed, Into
<1>2. IsFiniteSet(Unfollowed(n))
  BY <1>1, EdgesFinite, FS_Subset
<1> QED BY <1>2, FS_CardinalityType, FS_EmptySet

-----------------------------------------------------------------------------
(* The initial states. *)
LEMMA InitIInv == Init => IInv
<1> SUFFICES ASSUME Init PROVE IInv
  OBVIOUS
<1> USE DEF Init
<1>1. TypeOK
  BY DEF TypeOK
<1>2. DegreesCount /\ CyclesNeverVisited /\ RestIsCyclic
  BY DEF DegreesCount, CyclesNeverVisited, RestIsCyclic
<1> QED BY <1>1, <1>2 DEF IInv

(* The first loops. *)
LEMMA CountStep == IInv /\ CountDegrees => IInv'
<1> SUFFICES ASSUME IInv, CountDegrees PROVE IInv'
  OBVIOUS
<1> USE DEF IInv, CountDegrees
<1>1. /\ Edges' = Edges /\ Nodes' = Nodes
      /\ \A e : From(e)' = From(e) /\ To(e)' = To(e)
      /\ \A n : Into(n)' = Into(n)
  BY SameGraph
<1>2. visited' = {} /\ todo' = {} /\ pc' = "visit" /\ invocations' = invocations
  OBVIOUS
<1>3. \A n : Unfollowed(n)' = Into(n)
  BY <1>1, <1>2 DEF Unfollowed
<1>4. \A n \in Names : Cardinality(Into(n)) \in Nat
  <2> TAKE n \in Names
  <2>1. IsFiniteSet(Into(n))
    BY EdgesFinite, FS_Subset DEF Into
  <2> QED BY <2>1, FS_CardinalityType
<1>5. Nodes \subseteq Names
  BY EdgeTypes DEF TypeOK
<1>6. in_degree' \in [Names -> Nat]
  BY <1>4
<1>7. queue' \subseteq Nodes
  OBVIOUS
<1>8. TypeOK'
  BY <1>1, <1>2, <1>6, <1>7 DEF TypeOK
<1>9. DegreesCount'
  BY <1>1, <1>2, <1>3, <1>5 DEF DegreesCount
<1>10. CyclesNeverVisited' /\ RestIsCyclic'
  BY <1>2 DEF CyclesNeverVisited, RestIsCyclic
<1> QED BY <1>2, <1>8, <1>9, <1>10

(* A queued node has had all its edges followed, so it closes no cycle. *)
LEMMA VisitStep == IInv /\ VisitNode => IInv'
<1> SUFFICES ASSUME IInv, VisitNode PROVE IInv'
  OBVIOUS
<1>1. PICK n \in queue : /\ queue' = queue \ {n}
                         /\ visited' = visited \union {n}
                         /\ todo' = IF n \in visited THEN {} ELSE OutOf(n)
  BY DEF VisitNode
<1>2. /\ pc = "visit" /\ todo = {}
      /\ UNCHANGED <<invocations, pc, in_degree, reported>>
  BY DEF VisitNode
<1>3. /\ Edges' = Edges /\ Nodes' = Nodes
      /\ \A e : From(e)' = From(e) /\ To(e)' = To(e)
      /\ \A m : Into(m)' = Into(m) /\ OutOf(m)' = OutOf(m)
  BY <1>2, SameGraph
<1>4. TypeOK /\ DegreesCount /\ CyclesNeverVisited /\ queue \intersect visited = {}
  BY DEF IInv
<1>5. n \notin visited /\ n \in Nodes /\ todo' = OutOf(n)
  BY <1>1, <1>4 DEF TypeOK
<1>6. TypeOK'
  <2>1. OutOf(n) \subseteq Edges
    BY DEF OutOf
  <2> QED BY <1>1, <1>2, <1>3, <1>4, <1>5, <2>1 DEF TypeOK
<1>7. \A m : Unfollowed(m)' = Unfollowed(m)
  <2> TAKE m
  <2>1. \A e \in Into(m) :
          (From(e) \notin visited' \/ e \in todo') <=> (From(e) \notin visited \/ e \in todo)
    BY <1>1, <1>2, <1>5 DEF OutOf, Into
  <2> QED BY <1>3, <2>1 DEF Unfollowed
<1>8. DegreesCount'
  <2>1. queue' \union visited' = queue \union visited
    BY <1>1
  <2> QED BY <1>2, <1>3, <1>4, <1>7, <2>1 DEF DegreesCount
<1>9. \A e \in Into(n) : From(e) \in visited
  <2>1. Unfollowed(n) = {}
    BY <1>2, <1>4, <1>5, <1>1, UnfollowedFinite DEF DegreesCount
  <2> QED BY <2>1 DEF Unfollowed
<1>10. CyclesNeverVisited'
  <2> SUFFICES ASSUME NEW S \in SUBSET Nodes, SelfFed(S)' PROVE S \intersect visited' = {}
    BY <1>3 DEF CyclesNeverVisited
  <2>1. SelfFed(S)
    BY <1>3 DEF SelfFed
  <2>2. S \intersect visited = {}
    BY <2>1, <1>4 DEF CyclesNeverVisited
  <2>3. n \notin S
    BY <2>1, <2>2, <1>9 DEF SelfFed
  <2> QED BY <1>1, <2>2, <2>3
<1>11. \A e \in todo' : From(e)' \in visited'
  BY <1>1, <1>3, <1>5 DEF OutOf
<1>12. RestIsCyclic'
  BY <1>2 DEF RestIsCyclic
<1> QED BY <1>1, <1>2, <1>4, <1>6, <1>8, <1>10, <1>11, <1>12 DEF IInv

(* Following an edge removes it from the count of its target alone. *)
LEMMA FollowStep == IInv /\ FollowEdge => IInv'
<1> SUFFICES ASSUME IInv, FollowEdge PROVE IInv'
  OBVIOUS
<1>1. PICK e \in todo :
        /\ todo' = todo \ {e}
        /\ in_degree' = [in_degree EXCEPT ![To(e)] = @ - 1]
        /\ queue' = IF Ready(in_degree'[To(e)]) THEN queue \union {To(e)} ELSE queue
  BY DEF FollowEdge
<1>2. /\ pc = "visit" /\ UNCHANGED <<invocations, pc, visited, reported>>
  BY DEF FollowEdge
<1>3. /\ Edges' = Edges /\ Nodes' = Nodes
      /\ \A d : From(d)' = From(d) /\ To(d)' = To(d)
      /\ \A m : Into(m)' = Into(m)
  BY <1>2, SameGraph
<1>4. /\ TypeOK /\ DegreesCount /\ CyclesNeverVisited
      /\ queue \intersect visited = {} /\ \A d \in todo : From(d) \in visited
  BY DEF IInv
<1>5. e \in Edges /\ To(e) \in Nodes /\ To(e) \in Names /\ Nodes \subseteq Names
  BY <1>1, <1>4, EdgeTypes DEF TypeOK
<1>6. e \in Unfollowed(To(e))
  BY <1>1, <1>5 DEF Unfollowed, Into
<1>7. \A m : m = To(e) => Unfollowed(m)' = Unfollowed(m) \ {e}
  BY <1>1, <1>2, <1>3, <1>4 DEF Unfollowed
<1>8. \A m : m # To(e) => Unfollowed(m)' = Unfollowed(m)
  <2> SUFFICES ASSUME NEW m, m # To(e) PROVE Unfollowed(m)' = Unfollowed(m)
    OBVIOUS
  <2>1. e \notin Into(m)
    BY DEF Into
  <2> QED BY <1>1, <1>2, <1>3, <2>1 DEF Unfollowed
<1>9. /\ in_degree[To(e)] = Cardinality(Unfollowed(To(e)))
      /\ in_degree[To(e)] \in Nat /\ in_degree[To(e)] # 0
      /\ To(e) \notin queue \union visited
  <2>1. in_degree[To(e)] = Cardinality(Unfollowed(To(e)))
    BY <1>2, <1>4, <1>5 DEF DegreesCount
  <2>2. in_degree[To(e)] # 0
    BY <2>1, <1>6, UnfollowedFinite
  <2> QED BY <2>1, <2>2, <1>2, <1>4, <1>5 DEF DegreesCount, TypeOK
<1>10. Cardinality(Unfollowed(To(e)) \ {e}) = in_degree[To(e)] - 1
  BY <1>6, <1>9, UnfollowedFinite, FS_RemoveElement
<1>11. /\ in_degree' \in [Names -> Nat]
       /\ in_degree'[To(e)] = in_degree[To(e)] - 1
       /\ \A m \in Nodes : m # To(e) => in_degree'[m] = in_degree[m]
  BY <1>1, <1>4, <1>5, <1>9 DEF TypeOK
<1>12. TypeOK'
  BY <1>1, <1>2, <1>3, <1>4, <1>5, <1>11 DEF TypeOK
<1>13. DegreesCount'
  <2> SUFFICES ASSUME NEW m \in Nodes
               PROVE  /\ in_degree'[m] = Cardinality(Unfollowed(m)')
                      /\ in_degree'[m] = 0 <=> m \in queue' \union visited'
    BY <1>3 DEF DegreesCount
  <2>1. CASE m = To(e)
    <3>1. in_degree'[m] = Cardinality(Unfollowed(m)')
      <4>1. Unfollowed(m)' = Unfollowed(m) \ {e}
        BY <2>1, <1>7
      <4>2. Cardinality(Unfollowed(m) \ {e}) = in_degree[m] - 1
        BY <2>1, <1>10
      <4> QED BY <2>1, <4>1, <4>2, <1>11
    <3>2. in_degree'[To(e)] = 0 <=> To(e) \in queue' \union visited'
      BY <1>1, <1>2, <1>9 DEF Ready
    <3> QED BY <2>1, <3>1, <3>2
  <2>2. CASE m # To(e)
    <3>1. m \in queue' \union visited' <=> m \in queue \union visited
      BY <2>2, <1>1, <1>2
    <3>2. Unfollowed(m)' = Unfollowed(m) /\ in_degree'[m] = in_degree[m]
      BY <2>2, <1>8, <1>11
    <3> QED BY <3>1, <3>2, <1>2, <1>4 DEF DegreesCount
  <2> QED BY <2>1, <2>2
<1>14. CyclesNeverVisited'
  BY <1>2, <1>3, <1>4 DEF CyclesNeverVisited, SelfFed
<1>15. queue' \intersect visited' = {} /\ \A d \in todo' : From(d)' \in visited'
  BY <1>1, <1>2, <1>3, <1>4, <1>9
<1>16. RestIsCyclic'
  BY <1>2 DEF RestIsCyclic
<1> QED BY <1>2, <1>12, <1>13, <1>14, <1>15, <1>16 DEF IInv

(* When the queue is empty every node left has an edge from one that is left. *)
LEMMA ReportStep == IInv /\ Report => IInv'
<1> SUFFICES ASSUME IInv, Report PROVE IInv'
  OBVIOUS
<1>1. /\ pc = "visit" /\ pc' = "done" /\ queue = {} /\ todo = {}
      /\ reported' = {i \in Ids : NamedInCycle(i)}
      /\ UNCHANGED <<invocations, in_degree, queue, visited, todo>>
  BY DEF Report
<1>2. /\ Edges' = Edges /\ Nodes' = Nodes
      /\ \A e : From(e)' = From(e) /\ To(e)' = To(e)
      /\ \A n : Into(n)' = Into(n)
  BY <1>1, SameGraph
<1>3. TypeOK /\ DegreesCount /\ CyclesNeverVisited
  BY DEF IInv
<1>4. \A i : NamedInCycle(i)' = NamedInCycle(i)
  BY <1>1, <1>2 DEF NamedInCycle
<1>5. TypeOK'
  BY <1>1, <1>2, <1>3 DEF TypeOK
<1>6. \A n : Unfollowed(n)' = Unfollowed(n)
  BY <1>1, <1>2 DEF Unfollowed
<1>7. DegreesCount'
  BY <1>1, <1>2, <1>3, <1>6 DEF DegreesCount
<1>8. CyclesNeverVisited'
  BY <1>1, <1>2, <1>3 DEF CyclesNeverVisited, SelfFed
<1>9. SelfFed(Nodes \ visited)
  <2> SUFFICES ASSUME NEW n \in Nodes \ visited
               PROVE  \E e \in Into(n) : From(e) \in Nodes \ visited
    BY DEF SelfFed
  <2>1. Unfollowed(n) # {}
    BY <1>1, <1>3, UnfollowedFinite DEF DegreesCount
  <2>2. PICK e \in Into(n) : From(e) \notin visited
    BY <2>1, <1>1 DEF Unfollowed
  <2>3. From(e) \in Nodes
    BY <1>3, EdgeTypes DEF Into, TypeOK
  <2> QED BY <2>2, <2>3
<1>10. RestIsCyclic'
  BY <1>1, <1>2, <1>9 DEF RestIsCyclic, SelfFed
<1> QED BY <1>1, <1>4, <1>5, <1>7, <1>8, <1>10 DEF IInv

(* The invariant is inductive. *)
THEOREM Inductive == Spec => []IInv
<1>1. ASSUME IInv, UNCHANGED vars PROVE IInv'
  <2>1. /\ Edges' = Edges /\ Nodes' = Nodes
        /\ \A e : From(e)' = From(e) /\ To(e)' = To(e)
        /\ \A n : Into(n)' = Into(n)
    BY <1>1, SameGraph DEF vars
  <2>2. \A n : Unfollowed(n)' = Unfollowed(n)
    BY <2>1, <1>1 DEF Unfollowed, vars
  <2>3. \A i : NamedInCycle(i)' = NamedInCycle(i)
    BY <2>1, <1>1 DEF NamedInCycle, vars
  <2>4. TypeOK' /\ DegreesCount'
    BY <2>1, <2>2, <1>1 DEF IInv, TypeOK, DegreesCount, vars
  <2>5. CyclesNeverVisited' /\ RestIsCyclic'
    BY <2>1, <1>1 DEF IInv, CyclesNeverVisited, RestIsCyclic, SelfFed, vars
  <2> QED BY <2>1, <2>3, <2>4, <2>5, <1>1 DEF IInv, vars
<1>2. IInv /\ [Next]_vars => IInv'
  BY <1>1, CountStep, VisitStep, FollowStep, ReportStep DEF Next
<1> QED BY <1>2, InitIInv, PTL DEF Spec

-----------------------------------------------------------------------------
(* isValidDAG misses no cycle (cycles.go:25-38). *)
THEOREM NoCycleIsMissed == Spec => []CyclesNeverVisited
<1>1. IInv => CyclesNeverVisited
  BY DEF IInv
<1> QED BY <1>1, Inductive, PTL

(* isValidDAG accepts every acyclic graph (cycles.go:40-46). *)
THEOREM NoGraphIsRefusedForNothing == Spec => []RestIsCyclic
<1>1. IInv => RestIsCyclic
  BY DEF IInv
<1> QED BY <1>1, Inductive, PTL

(* isValidDAG returns the largest set of nodes that feeds itself, so that    *)
(* what is reported does not depend on the order of its maps                 *)
(* (cycles.go:13-24, 42-46); ConfigValidation!NotVisited is that set.        *)
THEOREM RestIsTheLargestSelfFed ==
  Spec => [](pc = "done" => Nodes \ visited = UNION {S \in SUBSET Nodes : SelfFed(S)})
<1>1. IInv => (pc = "done" => Nodes \ visited = UNION {S \in SUBSET Nodes : SelfFed(S)})
  BY DEF IInv, CyclesNeverVisited, RestIsCyclic
<1> QED BY <1>1, Inductive, PTL

(* What a node on a cycle reaches is fed by itself. *)
LEMMA OnCycleNotVisited ==
  ASSUME IInv, NEW n, OnCycle(n)
  PROVE  n \notin visited
<1> DEFINE Closed(T) == LeadsInto({n} \union T, T)
           S == {m \in Nodes : \A T \in SUBSET Nodes : Closed(T) => m \in T}
<1>1. n \in S
  BY DEF OnCycle
<1>2. ASSUME NEW e \in Edges, From(e) \in S PROVE To(e) \in S
  <2>1. To(e) \in Nodes
    BY EdgeTypes DEF IInv, TypeOK
  <2>2. ASSUME NEW T \in SUBSET Nodes, Closed(T) PROVE To(e) \in T
    BY <1>2, <2>2 DEF LeadsInto
  <2> QED BY <2>1, <2>2
<1>3. SelfFed(S)
  <2> SUFFICES ASSUME NEW m \in S, \A e \in Into(m) : From(e) \notin S
               PROVE  FALSE
    BY DEF SelfFed
  <2> DEFINE T == S \ {m}
  <2>1. T \in SUBSET Nodes
    OBVIOUS
  <2>2. Closed(T)
    <3> SUFFICES ASSUME NEW e \in Edges, From(e) \in {n} \union T PROVE To(e) \in T
      BY DEF LeadsInto
    <3>1. From(e) \in S
      BY <1>1
    <3>2. To(e) \in S
      BY <3>1, <1>2
    <3>3. To(e) # m
      BY <3>1 DEF Into
    <3> QED BY <3>2, <3>3
  <2> HIDE DEF T
  <2>3. m \in T
    BY <2>1, <2>2
  <2> QED BY <2>3 DEF T
<1> HIDE DEF S
<1>4. S \subseteq Nodes
  BY DEF S
<1> QED BY <1>1, <1>3, <1>4 DEF IInv, CyclesNeverVisited

(* Every invocation on a cycle that has not been renamed is reported         *)
(* (job_invocation.go:311-323).                                              *)
THEOREM UnrenamedCyclesAreReported == Spec => []CyclesReported
<1>1. IInv => CyclesReported
  <2> SUFFICES ASSUME IInv, pc = "done", NEW i \in Ids,
                      invocations[i].job = invocations[i].step,
                      OnCycle(invocations[i].step)
               PROVE  i \in reported
    BY DEF CyclesReported
  <2>1. invocations[i].step \in Nodes \ visited
    BY OnCycleNotVisited DEF OnCycle
  <2> QED BY <2>1 DEF IInv, NamedInCycle
<1> QED BY <1>1, Inductive, PTL
=============================================================================
