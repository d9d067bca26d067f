-------------------------- MODULE ConfigValidation --------------------------
(***************************************************************************)
(* What the validator (pkg/parser/validate) says about the names in a      *)
(* configuration.  An error is told from others by the place it is at, the *)
(* name it is about, and whether it says that the name is part of a cycle. *)
(***************************************************************************)
EXTENDS ConfigDocument

Error(p, n) == [at |-> p, about |-> n, says |-> "name"]
CycleError(p, n) == [at |-> p, about |-> n, says |-> "cycle"]

(* CheckNames: words that stand for entities of two kinds are warned about. *)
Defined(d, kind) ==
  CASE kind = "workflow" -> DOMAIN d.workflows [] kind = "job" -> DOMAIN d.jobs
    [] kind = "command" -> DOMAIN d.commands [] kind = "group" -> DOMAIN d.groups
Kinds == {"workflow", "job", "command", "group"}
CheckNames(d) ==
  {w \in Words : \E k, l \in Kinds :
                   k # l /\ w \in Defined(d, k) /\ w \in Defined(d, l)}
-----------------------------------------------------------------------------
\* What may be invoked, in the order validateInvocations looks for it.
InvokedAs(d, n) ==
  IF DoesJobGroupExist(d, n) THEN "group"
  ELSE IF DoesJobExist(d, n) THEN "job"
  ELSE IF IsOrbReference(d, n) /\ IsOrbCommand(d, n) THEN "orb command"
  ELSE IF IsOrbReference(d, n) /\ IsOrbJob(d, n) THEN "orb job"
  ELSE "nothing"

\* mutation: what looks like the name of an orb's job is let through
LocalNotDeclared(d, inv) ==
  inv.type = "" /\ ~CouldBeOrbReference(inv.job) /\ InvokedAs(d, inv.job) = "nothing"
NotDeclared(d, inv) ==
  /\ inv.type = "" /\ ~IsFromUnfetchableOrb(d, inv.job)
  /\ InvokedAs(d, inv.job) = "nothing"

BadSingleInvocation(d, p, inv) ==
  \/ p.kind = "group" /\ "serial-group" \in inv.keys
  \/ inv.type = "other"
  \/ NotDeclared(d, inv)

BadGroupInvocation(p, inv) ==
  \/ p.kind = "group"    \* nesting is not supported
  \/ inv.keys \ {"serial-group"} # {} \/ inv.type # "" \/ inv.steps # {}

HasBeenRenamed(inv) == inv.name # inv.job

\* mutation: invocations of different groups are not told apart
InvokedBeside(d, p, inv) ==
  LET invs == Enclosing(d, p)
      Same == DOMAIN invs \ {p.at}
  IN  /\ Same # {}
      /\ HasBeenRenamed(inv) => \E i \in Same : i < p.at /\ invs[i].name = inv.name
\* of the invocations of the same group before or beside it
InvokedTwice(d, p, inv) ==
  LET invs == Enclosing(d, p)
      Same == {i \in DOMAIN invs \ {p.at} : invs[i].job = inv.job}
  IN  /\ Same # {}
      /\ HasBeenRenamed(inv) => \E i \in Same : i < p.at /\ invs[i].name = inv.name

BadInvocation(d, p, inv) ==
  IF DoesJobGroupExist(d, inv.job)
    THEN BadGroupInvocation(p, inv) \/ InvokedTwice(d, p, inv)
    ELSE BadSingleInvocation(d, p, inv)

InvocationErrors(d) ==
  {Error(p, InvocationAt(d, p).job) :
     p \in {q \in InvocationPlaces(d) : BadInvocation(d, q, InvocationAt(d, q))}}
-----------------------------------------------------------------------------
\* mutation: only by the name it goes by
DoesNamedInvocationExist(invs, n) == \E i \in DOMAIN invs : n = invs[i].name
doesJobInvocationExist(invs, n) ==
  \E i \in DOMAIN invs : n = invs[i].job \/ n = invs[i].name

(* A message and the groups it names.                                      *)
Message(text, groups) == [says |-> text, names |-> groups]
NoDeclaration == Message("no declaration", {})

Owner(p, g) ==
  IF p.kind = "workflow" THEN Message("defined inside job group", {g})
  ELSE IF g # p.of THEN Message("not a member of this job group", {}) ELSE NoDeclaration

(* What may be said of a requirement: more than one message only if it      *)
(* depends on the order a map is ranged over.                               *)
RequireVerdicts(d, p, n) ==
  IF doesJobInvocationExist(Enclosing(d, p), n) THEN {}
  ELSE IF FindJobGroupContainingJob(d, n) = {} THEN {NoDeclaration}
  ELSE {Owner(p, g) : g \in FindJobGroupContainingJob(d, n)}

RequireErrors(d) ==
  UNION {{Error(p, n) : n \in {r \in InvocationAt(d, p).requires : RequireVerdicts(d, p, r) # {}}} :
           p \in InvocationPlaces(d)}
-----------------------------------------------------------------------------
(* buildJobsDAG: an edge from a required name to the name of the invocation *)
(* that requires it.                                                       *)
Edge(invs, m, n) == \E i \in DOMAIN invs : m \in invs[i].requires /\ n = invs[i].name

DAGNodes(invs) ==
  UNION {invs[i].requires \union {invs[i].name} :
           i \in {j \in DOMAIN invs : invs[j].requires # {}}}

SelfFed(invs, S) == \A n \in S : \E m \in S : Edge(invs, m, n)

(* What isValidDAG returns, by whatever order it visits the nodes in: the   *)
(* largest set that feeds itself.  JobsDAG is the algorithm.               *)
NotVisited(invs) == UNION {S \in SUBSET DAGNodes(invs) : SelfFed(invs, S)}

(* validateDAG: reported are the invocations of a job of such a name.       *)
CycleErrors(d) ==
  {CycleError(p, InvocationAt(d, p).job) :
     p \in {q \in InvocationPlaces(d) : InvocationAt(d, q).job \in NotVisited(Enclosing(d, q))}}
-----------------------------------------------------------------------------
(* validateNamedStep; aliases have been replaced by the parser.            *)
StepExists(d, n) ==
  DoesJobExist(d, n) \/ DoesCommandExist(d, n) \/ IsBuiltIn(n) \/ IsOrbCommand(d, n)

BadStep(d, n) == ~IsFromUnfetchableOrb(d, n) /\ ~StepExists(d, n)

(* The steps of jobs and commands are validated; pre-steps and post-steps   *)
(* are not.                                                                *)
StepErrors(d) ==
  UNION {{Error(p, n) : n \in {s \in StepsAt(d, p) : BadStep(d, s)}} : p \in BodyPlaces(d)}

(* doesOrbExecutorExist asks the registry even when the orb is local, under *)
(* an identifier the registry does not have.                               *)
InRegistry(o) == IF o \in LocalOrbs THEN Unknown ELSE OrbInfo[o]

(* validateExecutorReference, validateOrbExecutor                           *)
ExecutorVerdict(d, n) ==
  IF DoesExecutorExist(d, n) \/ IsFromUnfetchableOrb(d, n) THEN "fine"
  ELSE IF ~IsOrbReference(d, n) THEN "error"
  ELSE IF InRegistry(n.orb) = Unknown THEN "warning"
  ELSE IF n.word \in InRegistry(n.orb).executors THEN "fine" ELSE "error"

ExecutorPlaces(d) == {p \in BodyPlaces(d) : p.kind = "job" /\ d.jobs[p.of].executor # None}

ExecutorErrors(d) ==
  {Error(p, d.jobs[p.of].executor) :
     p \in {q \in ExecutorPlaces(d) : ExecutorVerdict(d, d.jobs[q.of].executor) = "error"}}

Errors(d) ==
  InvocationErrors(d) \union RequireErrors(d) \union CycleErrors(d)
  \union StepErrors(d) \union ExecutorErrors(d)
-----------------------------------------------------------------------------
InStepsOf(d, kind, n) == \E p \in BodyPlaces(d) : p.kind = kind /\ n \in StepsAt(d, p)

InvokedIn(d, kind, n) ==
  \E p \in InvocationPlaces(d) : p.kind = kind /\ InvocationAt(d, p).job = n

isJobGroupUsedInWorkflows(d, g) == InvokedIn(d, "workflow", Plain(g))

\* mutation: job groups do not count as uses
NotInWorkflows(d, w) == ~InStepsOf(d, "job", Plain(w)) /\ ~InvokedIn(d, "workflow", Plain(w))
(* checkAndReportUnusedJob; a job that only unused groups invoke is         *)
(* reported in other words.                                                *)
JobIsUnused(d, w) ==
  LET n == Plain(w)
  IN  ~InStepsOf(d, "job", n) /\ ~InvokedIn(d, "workflow", n) /\ ~InvokedIn(d, "group", n)

(* checkIfCommandIsUsed *)
CommandIsUnused(d, w) ==
  LET n == Plain(w)
  IN  /\ ~InStepsOf(d, "command", n) /\ ~InStepsOf(d, "job", n)
      /\ \A p \in InvocationPlaces(d) : p.kind = "workflow" => n \notin InvocationAt(d, p).steps

GroupIsUnused(d, g) == ~isJobGroupUsedInWorkflows(d, g)

FirstPart(n) == IF n.orb = NoOrb THEN n.word ELSE n.orb

(* checkIfOrbIsUsed *)
OrbIsUnused(d, o) ==
  LET Uses(n) == IsOrbReference(d, n) /\ n.orb = o
  IN  /\ \A p \in BodyPlaces(d) : \A n \in StepsAt(d, p) : ~Uses(n)
      /\ \A p \in ExecutorPlaces(d) : FirstPart(d.jobs[p.of].executor) # o
      /\ \A p \in InvocationPlaces(d) : p.kind = "workflow" =>
           /\ ~Uses(InvocationAt(d, p).job)
           /\ \A n \in InvocationAt(d, p).steps : ~Uses(n)
=============================================================================
