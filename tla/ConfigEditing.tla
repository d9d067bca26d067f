--------------------------- MODULE ConfigEditing ----------------------------
(***************************************************************************)
(* A configuration being edited, one definition, use or removal at a time, *)
(* and what validation, navigation and completion must agree on after each *)
(* step.  An action is an edit and the parse that follows it.              *)
(***************************************************************************)
EXTENDS ConfigNavigation

CONSTANTS
  Opened,         \* documents the editor may start from
  EditWords,      \* words an edit may define
  JobBodies, CommandBodies, InvocationBodies,   \* what an edit may write
  MaxItems        \* bound on the size of the document

ASSUME OpenedAssumption == \A d \in Opened : IsDocument(d)
ASSUME EditsAssumption ==
  /\ EditWords \subseteq Words /\ JobBodies \subseteq Jobs
  /\ CommandBodies \subseteq SUBSET Names /\ InvocationBodies \subseteq Invocations
ASSUME NoneAssumption == None \notin Names

VARIABLE doc

Size(d) ==
  Cardinality(DOMAIN d.jobs) + Cardinality(DOMAIN d.commands) + Cardinality(d.executors)
  + Cardinality(DOMAIN d.groups) + Cardinality(DOMAIN d.workflows) + Cardinality(d.orbs)
  + Cardinality(InvocationPlaces(d))

With(f, w, x) == [v \in DOMAIN f \union {w} |-> IF v = w THEN x ELSE f[v]]
Without(f, w) == [v \in DOMAIN f \ {w} |-> f[v]]

TypeOK == IsDocument(doc)

Init == doc \in Opened
-----------------------------------------------------------------------------
Room == Size(doc) < MaxItems

(* Of two jobs, commands, executors or workflows of one name the parser     *)
(* keeps the first, of two job groups the second.                          *)
DefineJob(w, job) ==
  /\ Room /\ w \notin DOMAIN doc.jobs
  /\ doc' = [doc EXCEPT !.jobs = With(@, w, job)]

DefineCommand(w, steps) ==
  /\ Room /\ w \notin DOMAIN doc.commands
  /\ doc' = [doc EXCEPT !.commands = With(@, w, steps)]

DefineExecutor(w) ==
  /\ Room /\ w \notin doc.executors
  /\ doc' = [doc EXCEPT !.executors = @ \union {w}]

DefineGroup(w) == Room /\ doc' = [doc EXCEPT !.groups = With(@, w, <<>>)]

DefineWorkflow(w) ==
  /\ Room /\ w \notin DOMAIN doc.workflows
  /\ doc' = [doc EXCEPT !.workflows = With(@, w, <<>>)]

ImportOrb(o) == Room /\ doc' = [doc EXCEPT !.orbs = @ \union {o}]

InvokeInWorkflow(w, inv) ==
  /\ Room /\ w \in DOMAIN doc.workflows
  /\ doc' = [doc EXCEPT !.workflows[w] = Append(@, inv)]

InvokeInGroup(g, inv) ==
  /\ Room /\ g \in DOMAIN doc.groups
  /\ doc' = [doc EXCEPT !.groups[g] = Append(@, inv)]
-----------------------------------------------------------------------------
(* The user deletes a definition.                                          *)
RemoveJob(w) == w \in DOMAIN doc.jobs /\ doc' = [doc EXCEPT !.jobs = Without(@, w)]
RemoveCommand(w) == w \in DOMAIN doc.commands /\ doc' = [doc EXCEPT !.commands = Without(@, w)]
RemoveExecutor(w) == w \in doc.executors /\ doc' = [doc EXCEPT !.executors = @ \ {w}]
RemoveGroup(w) == w \in DOMAIN doc.groups /\ doc' = [doc EXCEPT !.groups = Without(@, w)]
RemoveWorkflow(w) ==
  w \in DOMAIN doc.workflows /\ doc' = [doc EXCEPT !.workflows = Without(@, w)]
RemoveOrb(o) == o \in doc.orbs /\ doc' = [doc EXCEPT !.orbs = @ \ {o}]

Define ==
  \/ \E w \in EditWords :
       \/ \E job \in JobBodies : DefineJob(w, job)
       \/ \E steps \in CommandBodies : DefineCommand(w, steps)
       \/ DefineExecutor(w) \/ DefineGroup(w) \/ DefineWorkflow(w)
       \/ \E inv \in InvocationBodies : InvokeInWorkflow(w, inv) \/ InvokeInGroup(w, inv)
  \/ \E o \in OrbNames : ImportOrb(o)

Remove ==
  \/ \E w \in Words :
       \/ RemoveJob(w) \/ RemoveCommand(w) \/ RemoveExecutor(w)
       \/ RemoveGroup(w) \/ RemoveWorkflow(w)
  \/ \E o \in OrbNames : RemoveOrb(o)

Next == Define \/ Remove

Spec == Init /\ [][Next]_doc
-----------------------------------------------------------------------------
(* Go-to-definition and the validator look a name up in different orders;   *)
(* they find different things only where the name is warned about, as the  *)
(* comment of getCommandOrJobLocation promises.                            *)
DefinitionAgrees ==
  \A p \in InvocationPlaces(doc) :
    LET n == InvocationAt(doc, p).job
    IN  n.word \in CheckNames(doc) \/ DefinedAs(doc, n, FALSE) = InvokedAs(doc, n)

(* A step or an invocation that leads nowhere is reported, unless its orb   *)
(* cannot be fetched; and a step is reported although it leads somewhere    *)
(* only if that is a job group or the job of an orb.                       *)
NowhereIsReported ==
  /\ \A p \in InvocationPlaces(doc) :
       LET inv == InvocationAt(doc, p)
       IN  DefinedAs(doc, inv.job, FALSE) = "nothing" /\ inv.type # "approval" =>
             IsFromUnfetchableOrb(doc, inv.job) \/ Error(p, inv.job) \in InvocationErrors(doc)
  /\ \A p \in BodyPlaces(doc) : \A n \in StepsAt(doc, p) :
       LET found == DefinedAs(doc, n, TRUE)
       IN  IF Error(p, n) \in StepErrors(doc)
             THEN found \in {"nothing", "group", "orb job"}
             ELSE found # "nothing" \/ IsBuiltIn(n) \/ IsFromUnfetchableOrb(doc, n)

(* What the validator says of a requirement depends on the order in which   *)
(* it ranges over the map of job groups in one thing alone: which of        *)
(* several groups that hold the job is named, and in workflows only.        *)
VerdictOrderFree ==
  \A p \in InvocationPlaces(doc) : \A n \in InvocationAt(doc, p).requires :
    LET owners == FindJobGroupContainingJob(doc, n)
    IN  \A u, v \in RequireVerdicts(doc, p, n) :
          u # v => /\ p.kind = "workflow" /\ u.says = v.says
                   /\ \E g, h \in owners : g # h /\ u.names = {g} /\ v.names = {h}

(* What is proposed is accepted: but for a job that shares its name with a  *)
(* group, proposed inside a group, and for orb jobs proposed as steps.     *)
CompletionAccepted ==
  /\ \A p \in InvocationPlaces(doc) : \A n \in ProposedInvocations(doc, p.kind) :
       LET inv == [InvocationAt(doc, p) EXCEPT !.job = n, !.type = ""]
       IN  /\ ~NotDeclared(doc, inv)
           /\ p.kind = "group" /\ DoesJobGroupExist(doc, n) => n.word \in CheckNames(doc)
  /\ \A n \in ProposedSteps(doc) : BadStep(doc, n) => IsOrbJob(doc, n)
  /\ \A n \in addExecutorsCompletion(doc) : ExecutorVerdict(doc, n) # "error"
-----------------------------------------------------------------------------
NewErrors == Errors(doc)' \ Errors(doc)

InGroup(e) == e.at.kind = "group"

(* What is reported unused can be removed: no error appears.  Two uses are  *)
(* overlooked: a job that is a step of a command, and an orb that only job  *)
(* groups invoke.                                                          *)
UnusedRemovalsAreSafe ==
  [][/\ \A w \in Words :
          \/ RemoveJob(w) /\ JobIsUnused(doc, w) /\ ~InStepsOf(doc, "command", Plain(w))
          \/ RemoveCommand(w) /\ CommandIsUnused(doc, w)
          \/ RemoveGroup(w) /\ GroupIsUnused(doc, w)
          => NewErrors = {}
     /\ \A o \in OrbNames :
          RemoveOrb(o) /\ OrbIsUnused(doc, o) => \A e \in NewErrors : InGroup(e)]_doc

(* Whoever removes a definition finds every use that breaks among its       *)
(* references; those inside job groups are not listed, nor the executors    *)
(* of an orb, nor anything of a local orb.                                 *)
RemovalShowsInReferences ==
  [][/\ \A w \in Words :
          /\ RemoveJob(w) =>
               \A e \in NewErrors : e \in getReferenceFromSteps(doc, w) \/ InGroup(e)
          /\ RemoveCommand(w) => NewErrors \subseteq getReferenceFromSteps(doc, w)
          /\ RemoveExecutor(w) => NewErrors \subseteq getExecutorReferences(doc, w)
     /\ \A o \in OrbNames :
          RemoveOrb(o) /\ o \notin LocalOrbs =>
            \A e \in NewErrors :
              \/ e \in OrbReferences(doc, o)
              \/ InGroup(e)
              \/ e \in ExecutorErrors(doc)' /\ e.about.orb = o]_doc

(* n can be reached from m.                                                *)
LedTo(invs, m, n) ==
  \A T \in SUBSET DAGNodes(invs) :
    /\ m \in T
    /\ \A k \in T, l \in DAGNodes(invs) : Edge(invs, k, l) => l \in T
    => n \in T

(* What an invocation appended to a list may be the cause of: errors of its *)
(* own, errors about the job it invokes, and, when it is itself never       *)
(* visited, cycle errors about what it leads to.                           *)
DueToInvocation(e, kind, w, inv, invs) ==
  /\ e.at.kind = kind /\ e.at.of = w
  /\ \/ e.at.at = Len(invs)
     \/ e.says = "name" /\ e.about = inv.job
     \/ e.says = "cycle" /\ inv.name \in NotVisited(invs) /\ LedTo(invs, inv.name, e.about)

(* What is added makes only its own kind of thing wrong: a job itself, a    *)
(* group the uses of its name, an invocation itself, the other invocations  *)
(* of its job, and those it leads to once it closes a cycle.                *)
AdditionsErrLocally ==
  [][/\ \A w \in Words :
          /\ \A job \in JobBodies :
               DefineJob(w, job) => \A e \in NewErrors : e.at = [kind |-> "job", of |-> w]
          /\ \A inv \in InvocationBodies :
               /\ InvokeInWorkflow(w, inv) =>
                    \A e \in NewErrors : DueToInvocation(e, "workflow", w, inv, doc'.workflows[w])
               /\ InvokeInGroup(w, inv) =>
                    \A e \in NewErrors : DueToInvocation(e, "group", w, inv, doc'.groups[w])
          /\ DefineGroup(w) => \A e \in NewErrors : e.about = Plain(w)
     /\ \A o \in OrbNames : ImportOrb(o) => NewErrors = {}]_doc

=============================================================================
