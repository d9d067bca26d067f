---------------------------- MODULE ConfigProofs ----------------------------
(***************************************************************************)
(* Theorems about ConfigEditing: they hold for every vocabulary, every set  *)
(* of orbs and every sequence of edits.                                    *)
(***************************************************************************)
EXTENDS ConfigEditing, SequenceTheorems, TLAPS

LEMMA WithTyping ==
  ASSUME NEW S, NEW T, NEW f, IsPartialFunction(f, S, T), NEW w \in S, NEW x \in T
  PROVE  IsPartialFunction(With(f, w, x), S, T)
BY DEF IsPartialFunction, With

LEMMA WithoutTyping ==
  ASSUME NEW S, NEW T, NEW f, IsPartialFunction(f, S, T), NEW w
  PROVE  IsPartialFunction(Without(f, w), S, T)
BY DEF IsPartialFunction, Without

(* An invocation is appended to the sequence of its workflow or group.      *)
LEMMA AppendTyping ==
  ASSUME NEW S, NEW T, NEW f, IsPartialFunction(f, S, Seq(T)), NEW w \in DOMAIN f, NEW x \in T
  PROVE  IsPartialFunction([f EXCEPT ![w] = Append(@, x)], S, Seq(T))
<1>1. f[w] \in Seq(T)
  BY DEF IsPartialFunction
<1>2. Append(f[w], x) \in Seq(T)
  BY <1>1
<1> QED
  BY <1>2 DEF IsPartialFunction

(* The parser's tables stay tables of what they hold, whatever is edited.   *)
THEOREM TypeCorrect == Spec => []TypeOK
<1>1. Init => TypeOK
  BY OpenedAssumption DEF Init, TypeOK
<1>2. TypeOK /\ [Next]_doc => TypeOK'
  <2> SUFFICES ASSUME TypeOK, [Next]_doc
               PROVE  TypeOK'
    OBVIOUS
  <2> USE EditsAssumption, OrbNamesAssumption
  <2>e. <<>> \in Seq(Invocations)
    OBVIOUS
  <2>1. ASSUME NEW w \in EditWords, NEW job \in JobBodies, DefineJob(w, job)
        PROVE  TypeOK'
    BY <2>1, WithTyping DEF DefineJob, TypeOK, IsDocument
  <2>2. ASSUME NEW w \in EditWords, NEW steps \in CommandBodies, DefineCommand(w, steps)
        PROVE  TypeOK'
    BY <2>2, WithTyping DEF DefineCommand, TypeOK, IsDocument
  <2>3. ASSUME NEW w \in EditWords, DefineExecutor(w)
        PROVE  TypeOK'
    BY <2>3 DEF DefineExecutor, TypeOK, IsDocument
  <2>4. ASSUME NEW w \in EditWords, DefineGroup(w)
        PROVE  TypeOK'
    BY <2>4, <2>e, WithTyping DEF DefineGroup, TypeOK, IsDocument
  <2>5. ASSUME NEW w \in EditWords, DefineWorkflow(w)
        PROVE  TypeOK'
    BY <2>5, <2>e, WithTyping DEF DefineWorkflow, TypeOK, IsDocument
  <2>6. ASSUME NEW w \in EditWords, NEW inv \in InvocationBodies, InvokeInWorkflow(w, inv)
        PROVE  TypeOK'
    <3>1. IsPartialFunction([doc.workflows EXCEPT ![w] = Append(@, inv)], Words, Seq(Invocations))
      BY <2>6, AppendTyping DEF InvokeInWorkflow, TypeOK, IsDocument
    <3> QED
      BY <2>6, <3>1 DEF InvokeInWorkflow, TypeOK, IsDocument
  <2>7. ASSUME NEW w \in EditWords, NEW inv \in InvocationBodies, InvokeInGroup(w, inv)
        PROVE  TypeOK'
    <3>1. IsPartialFunction([doc.groups EXCEPT ![w] = Append(@, inv)], Words, Seq(Invocations))
      BY <2>7, AppendTyping DEF InvokeInGroup, TypeOK, IsDocument
    <3> QED
      BY <2>7, <3>1 DEF InvokeInGroup, TypeOK, IsDocument
  <2>8. ASSUME NEW o \in OrbNames, ImportOrb(o) \/ RemoveOrb(o)
        PROVE  TypeOK'
    BY <2>8 DEF ImportOrb, RemoveOrb, TypeOK, IsDocument
  <2>9. ASSUME NEW w \in Words,
               RemoveJob(w) \/ RemoveCommand(w) \/ RemoveExecutor(w)
                 \/ RemoveGroup(w) \/ RemoveWorkflow(w)
        PROVE  TypeOK'
    BY <2>9, WithoutTyping
       DEF RemoveJob, RemoveCommand, RemoveExecutor, RemoveGroup, RemoveWorkflow, TypeOK, IsDocument
  <2>10. CASE UNCHANGED doc
    BY <2>10 DEF TypeOK
  <2> QED
    BY <2>1, <2>2, <2>3, <2>4, <2>5, <2>6, <2>7, <2>8, <2>9, <2>10 DEF Next, Define, Remove
<1> QED
  BY <1>1, <1>2, PTL DEF Spec
-----------------------------------------------------------------------------
(* A word defined as two kinds of thing is warned about.                    *)
LEMMA Ambiguous ==
  ASSUME NEW d, NEW w \in Words, NEW k \in Kinds, NEW l \in Kinds, k # l,
         w \in Defined(d, k), w \in Defined(d, l)
  PROVE  w \in CheckNames(d)
BY DEF CheckNames

(* Go-to-definition (definition/utils.go:12-51) and the validator           *)
(* (validate/job_invocation.go:148-243) take an invocation for the same     *)
(* thing, unless names.go warns about its name.                            *)
THEOREM NavigationAgreesWithValidation == Spec => []DefinitionAgrees
<1>1. TypeOK => DefinitionAgrees
  <2> SUFFICES ASSUME TypeOK, NEW n, DoesJobExist(doc, n), DoesJobGroupExist(doc, n)
               PROVE  n.word \in CheckNames(doc)
    BY Zenon DEF DefinitionAgrees, DefinedAs, InvokedAs
  <2>1. n.word \in Words
    BY DEF DoesJobExist, TypeOK, IsDocument, IsPartialFunction
  <2>2. n.word \in Defined(doc, "job") /\ n.word \in Defined(doc, "group")
    BY DEF DoesJobExist, DoesJobGroupExist, Defined
  <2> QED
    BY <2>1, <2>2, Ambiguous DEF Kinds
<1> QED
  BY <1>1, TypeCorrect, PTL
-----------------------------------------------------------------------------
(* What validateInvocations says of a requirement                           *)
(* (validate/job_invocation.go:157-177) depends on the order in which       *)
(* FindJobGroupContainingJob (yamlparser.go:363-372) ranges over the groups *)
(* in the group it names, and in nothing else: a job of the requiring group *)
(* exists there, so that in a group no owner is the group itself.           *)
THEOREM OnlyTheGroupVaries == Spec => []VerdictOrderFree
<1>1. VerdictOrderFree
  <2> SUFFICES ASSUME NEW p \in InvocationPlaces(doc), NEW n,
                      NEW u \in RequireVerdicts(doc, p, n), NEW v \in RequireVerdicts(doc, p, n),
                      u # v
               PROVE  /\ p.kind = "workflow" /\ u.says = v.says
                      /\ \E g, h \in FindJobGroupContainingJob(doc, n) :
                           g # h /\ u.names = {g} /\ v.names = {h}
    BY DEF VerdictOrderFree
  <2>1. ~doesJobInvocationExist(Enclosing(doc, p), n)
    BY DEF RequireVerdicts
  <2>2. FindJobGroupContainingJob(doc, n) # {}
    BY <2>1 DEF RequireVerdicts
  <2>3. PICK g \in FindJobGroupContainingJob(doc, n),
             h \in FindJobGroupContainingJob(doc, n) :
          u = Owner(p, g) /\ v = Owner(p, h)
    BY <2>1, <2>2 DEF RequireVerdicts
  <2>4. CASE p.kind = "workflow"
    BY <2>3, <2>4 DEF Owner, Message
  <2>5. CASE p.kind # "workflow"
    <3>1. p.of \notin FindJobGroupContainingJob(doc, n)
      BY <2>1, <2>5 DEF FindJobGroupContainingJob, doesJobInvocationExist, Enclosing
    <3> QED
      BY <2>3, <2>5, <3>1 DEF Owner
  <2> QED
    BY <2>4, <2>5
<1> QED
  BY <1>1, PTL
-----------------------------------------------------------------------------
LEMMA PlainIsUnique ==
  ASSUME NEW n \in Names, n.orb = NoOrb
  PROVE  n = Plain(n.word)
BY DEF Names, Plain

LEMMA Placed ==
  ASSUME NEW d, NEW p \in InvocationPlaces(d)
  PROVE  \/ /\ p.kind = "workflow" /\ p.of \in DOMAIN d.workflows
            /\ p.at \in DOMAIN d.workflows[p.of]
         \/ /\ p.kind = "group" /\ p.of \in DOMAIN d.groups
            /\ p.at \in DOMAIN d.groups[p.of]
<1>1. CASE p \in WorkflowPlaces(d)
  <2>1. PICK w \in DOMAIN d.workflows : p \in PlacesIn("workflow", w, d.workflows[w])
    BY <1>1 DEF WorkflowPlaces
  <2> QED
    BY <2>1 DEF PlacesIn
<1>2. CASE p \in GroupPlaces(d)
  <2>1. PICK g \in DOMAIN d.groups : p \in PlacesIn("group", g, d.groups[g])
    BY <1>2 DEF GroupPlaces
  <2> QED
    BY <2>1 DEF PlacesIn
<1> QED
  BY <1>1, <1>2 DEF InvocationPlaces

(* The names that occur in a typed document are names.                      *)
LEMMA OccurringNames ==
  ASSUME NEW d, IsDocument(d)
  PROVE  /\ \A p \in InvocationPlaces(d) : InvocationAt(d, p) \in Invocations
         /\ \A p \in BodyPlaces(d) : StepsAt(d, p) \subseteq Names
<1>1. ASSUME NEW p \in InvocationPlaces(d)
      PROVE  InvocationAt(d, p) \in Invocations
  <2>1. CASE p.kind = "workflow"
    <3>1. p.of \in DOMAIN d.workflows /\ p.at \in DOMAIN d.workflows[p.of]
      BY <2>1, Placed
    <3>2. d.workflows[p.of] \in Seq(Invocations)
      BY <3>1 DEF IsDocument, IsPartialFunction
    <3> QED
      BY <2>1, <3>1, <3>2 DEF InvocationAt, Enclosing
  <2>2. CASE p.kind # "workflow"
    <3>1. p.of \in DOMAIN d.groups /\ p.at \in DOMAIN d.groups[p.of]
      BY <2>2, Placed
    <3>2. d.groups[p.of] \in Seq(Invocations)
      BY <3>1 DEF IsDocument, IsPartialFunction
    <3> QED
      BY <2>2, <3>1, <3>2 DEF InvocationAt, Enclosing
  <2> QED
    BY <2>1, <2>2
<1>2. ASSUME NEW p \in BodyPlaces(d)
      PROVE  StepsAt(d, p) \subseteq Names
  BY <1>2 DEF BodyPlaces, StepsAt, IsDocument, IsPartialFunction, Jobs
<1> QED
  BY <1>1, <1>2
-----------------------------------------------------------------------------
(* What an orb is found to have, it has been imported for.                  *)
LEMMA OrbHasIsReference ==
  ASSUME NEW d, NEW n, NEW kind, OrbHas(d, n, kind)
  PROVE  IsOrbReference(d, n) /\ OrbInfo[n.orb] # Unknown /\ n.word \in OrbInfo[n.orb][kind]
BY DEF OrbHas, GetOrbInfoFromName, IsOrbReference

(* A place and a name tell the errors of the steps apart.                   *)
LEMMA StepErrorAt ==
  ASSUME NEW d, NEW p \in BodyPlaces(d), NEW n \in StepsAt(d, p)
  PROVE  Error(p, n) \in StepErrors(d) <=> BadStep(d, n)
<1>1. BadStep(d, n) => Error(p, n) \in StepErrors(d)
  BY DEF StepErrors
<1>2. ASSUME Error(p, n) \in StepErrors(d)
      PROVE  BadStep(d, n)
  <2>1. PICK q \in BodyPlaces(d) :
          Error(p, n) \in {Error(q, m) : m \in {s \in StepsAt(d, q) : BadStep(d, s)}}
    BY <1>2 DEF StepErrors
  <2>2. PICK m \in StepsAt(d, q) : BadStep(d, m) /\ Error(p, n) = Error(q, m)
    BY <2>1
  <2>3. n = Error(p, n).about /\ m = Error(q, m).about
    BY DEF Error
  <2> QED
    BY <2>2, <2>3
<1> QED
  BY <1>1, <1>2

(* Where go-to-definition finds nothing the validator reports an error, and  *)
(* a step it reports leads nowhere, to a group or to the job of an orb       *)
(* (validate/job_invocation.go:223-248, validate/steps.go:158-173).          *)
THEOREM NothingGoesUnreported == Spec => []NowhereIsReported
<1>1. ASSUME TypeOK, NEW p \in InvocationPlaces(doc),
             DefinedAs(doc, InvocationAt(doc, p).job, FALSE) = "nothing",
             InvocationAt(doc, p).type # "approval",
             ~IsFromUnfetchableOrb(doc, InvocationAt(doc, p).job)
      PROVE  Error(p, InvocationAt(doc, p).job) \in InvocationErrors(doc)
  <2> DEFINE inv == InvocationAt(doc, p)
  <2>1. inv.type \in {"", "other"}
    BY <1>1, OccurringNames DEF TypeOK, Invocations
  <2>2. InvokedAs(doc, inv.job) = "nothing" /\ ~DoesJobGroupExist(doc, inv.job)
    BY <1>1 DEF DefinedAs, InvokedAs
  <2> HIDE DEF inv
  <2>3. BadInvocation(doc, p, inv)
    BY <1>1, <2>1, <2>2 DEF inv, BadInvocation, BadSingleInvocation, NotDeclared
  <2> QED
    BY <2>3 DEF inv, InvocationErrors
<1>2. ASSUME NEW p \in BodyPlaces(doc), NEW n \in StepsAt(doc, p), BadStep(doc, n)
      PROVE  DefinedAs(doc, n, TRUE) \in {"nothing", "group", "orb job"}
  BY <1>2 DEF BadStep, StepExists, DefinedAs
<1>3. ASSUME NEW p \in BodyPlaces(doc), NEW n \in StepsAt(doc, p), ~BadStep(doc, n)
      PROVE  \/ DefinedAs(doc, n, TRUE) # "nothing"
             \/ IsBuiltIn(n) \/ IsFromUnfetchableOrb(doc, n)
  <2>1. IsOrbCommand(doc, n) => IsOrbReference(doc, n)
    BY OrbHasIsReference DEF IsOrbCommand
  <2> QED
    BY <1>3, <2>1 DEF BadStep, StepExists, DefinedAs
<1>4. TypeOK => NowhereIsReported
  BY <1>1, <1>2, <1>3, StepErrorAt, Zenon DEF NowhereIsReported
<1> QED
  BY <1>4, TypeCorrect, PTL

(* What is proposed for an invocation, a step or an executor is accepted     *)
(* there (complete/job_groups.go:12-51, complete/steps.go:10-46,             *)
(* complete/jobs.go:44-74), but for what names.go warns about and for the    *)
(* jobs of orbs, which no list of steps takes.                              *)
THEOREM ProposalsAreAccepted == Spec => []CompletionAccepted
<1>1. ASSUME NEW n \in ProposedJobs(doc)
      PROVE  \/ DoesJobExist(doc, n)
             \/ n.orb # NoOrb /\ IsOrbReference(doc, n) /\ IsOrbJob(doc, n)
  <2>1. CASE n \in OrbsHave(doc, "jobs")
    BY <2>1, OrbHasIsReference DEF OrbsHave, IsOrbJob, OrbHas
  <2>2. CASE n \in {Plain(w) : w \in DOMAIN doc.jobs}
    BY <2>2 DEF Plain, DoesJobExist
  <2> QED
    BY <2>1, <2>2 DEF ProposedJobs
<1>2. ASSUME TypeOK, NEW p \in InvocationPlaces(doc), NEW n \in ProposedInvocations(doc, p.kind)
      PROVE  ~NotDeclared(doc, [InvocationAt(doc, p) EXCEPT !.job = n, !.type = ""])
  <2> DEFINE inv == [InvocationAt(doc, p) EXCEPT !.job = n, !.type = ""]
  <2>1. inv.job = n
    BY <1>2, OccurringNames DEF TypeOK, Invocations
  <2>2. n \in ProposedJobs(doc) \/ DoesJobGroupExist(doc, n)
    BY DEF ProposedInvocations, DoesJobGroupExist, Plain
  <2>3. InvokedAs(doc, n) # "nothing"
    BY <1>1, <2>2 DEF InvokedAs
  <2> QED
    BY <2>1, <2>3 DEF NotDeclared
<1>3. ASSUME TypeOK, NEW n \in ProposedInvocations(doc, "group"), DoesJobGroupExist(doc, n)
      PROVE  n.word \in CheckNames(doc)
  <2>1. DoesJobExist(doc, n)
    BY <1>1, <1>3 DEF ProposedInvocations, DoesJobGroupExist
  <2>2. n.word \in Words
    BY <1>3, <2>1 DEF DoesJobExist, TypeOK, IsDocument, IsPartialFunction
  <2>3. n.word \in Defined(doc, "job") /\ n.word \in Defined(doc, "group")
    BY <1>3, <2>1 DEF DoesJobExist, DoesJobGroupExist, Defined
  <2> QED
    BY <2>2, <2>3, Ambiguous DEF Kinds
<1>4. ASSUME NEW n \in ProposedSteps(doc), BadStep(doc, n)
      PROVE  IsOrbJob(doc, n)
  <2>1. CASE n \in {Plain(w) : w \in DOMAIN doc.commands \union BuiltIn}
    BY <1>4, <2>1 DEF Plain, BadStep, StepExists, DoesCommandExist, IsBuiltIn
  <2>2. CASE n \in ProposedJobs(doc)
    BY <1>1, <1>4, <2>2 DEF BadStep, StepExists
  <2>3. CASE n \in OrbsHave(doc, "commands")
    BY <1>4, <2>3 DEF OrbsHave, BadStep, StepExists, IsOrbCommand
  <2> QED
    BY <2>1, <2>2, <2>3 DEF ProposedSteps
<1>5. ASSUME NEW n \in addExecutorsCompletion(doc)
      PROVE  ExecutorVerdict(doc, n) # "error"
  <2>1. CASE n \in {Plain(w) : w \in doc.executors}
    BY <2>1 DEF Plain, ExecutorVerdict, DoesExecutorExist
  <2>2. CASE n \in OrbsHave(doc, "executors")
    <3>1. IsOrbReference(doc, n) /\ n.word \in OrbInfo[n.orb].executors
      BY <2>2, OrbHasIsReference DEF OrbsHave
    <3> QED
      BY <3>1 DEF ExecutorVerdict, InRegistry
  <2> QED
    BY <2>1, <2>2 DEF addExecutorsCompletion
<1>6. TypeOK => CompletionAccepted
  BY <1>2, <1>3, <1>4, <1>5, Zenon DEF CompletionAccepted
<1> QED
  BY <1>6, TypeCorrect, PTL
-----------------------------------------------------------------------------
(* What an edit can make wrong.  A new error is at a place the edit brought  *)
(* or about a name that the validator judges otherwise than before.         *)
SameInvocation(d, e, p) ==
  p \in InvocationPlaces(d) /\ InvocationAt(d, p) = InvocationAt(e, p)

NewInvocationError(d, e, x) ==
  \E p \in InvocationPlaces(e) :
    /\ x = Error(p, InvocationAt(e, p).job)
    /\ BadInvocation(e, p, InvocationAt(e, p))
    /\ SameInvocation(d, e, p) => ~BadInvocation(d, p, InvocationAt(d, p))

NewRequireError(d, e, x) ==
  \E p \in InvocationPlaces(e) :
    /\ \E n \in InvocationAt(e, p).requires :
         /\ x = Error(p, n) /\ ~doesJobInvocationExist(Enclosing(e, p), n)
         /\ SameInvocation(d, e, p) => doesJobInvocationExist(Enclosing(d, p), n)

NewCycleError(d, e, x) ==
  \E p \in InvocationPlaces(e) :
    /\ x = CycleError(p, InvocationAt(e, p).job)
    /\ InvocationAt(e, p).job \in NotVisited(Enclosing(e, p))
    /\ SameInvocation(d, e, p) => InvocationAt(d, p).job \notin NotVisited(Enclosing(d, p))

NewStepError(d, e, x) ==
  \E p \in BodyPlaces(e) :
    /\ \E n \in StepsAt(e, p) :
         /\ x = Error(p, n) /\ BadStep(e, n)
         /\ p \in BodyPlaces(d) /\ n \in StepsAt(d, p) => ~BadStep(d, n)

NewExecutorError(d, e, x) ==
  \E p \in ExecutorPlaces(e) :
    /\ x = Error(p, e.jobs[p.of].executor)
    /\ ExecutorVerdict(e, e.jobs[p.of].executor) = "error"
    /\ p \in ExecutorPlaces(d) /\ d.jobs[p.of].executor = e.jobs[p.of].executor
         => ExecutorVerdict(d, d.jobs[p.of].executor) # "error"

(* A requirement is judged undeclared exactly when no invocation beside it   *)
(* goes by its name.                                                       *)
LEMMA RequirementMissing ==
  ASSUME NEW d, NEW p, NEW n
  PROVE  RequireVerdicts(d, p, n) # {} <=> ~doesJobInvocationExist(Enclosing(d, p), n)
BY DEF RequireVerdicts

LEMMA NewErrorCases ==
  ASSUME NEW d, NEW e, NEW x \in Errors(e), x \notin Errors(d)
  PROVE  \/ NewInvocationError(d, e, x) \/ NewRequireError(d, e, x)
         \/ NewCycleError(d, e, x)
         \/ NewStepError(d, e, x) \/ NewExecutorError(d, e, x)
<1>1. CASE x \in InvocationErrors(e)
  <2>1. PICK p \in InvocationPlaces(e) :
          x = Error(p, InvocationAt(e, p).job) /\ BadInvocation(e, p, InvocationAt(e, p))
    BY <1>1 DEF InvocationErrors
  <2>2. SameInvocation(d, e, p) => ~BadInvocation(d, p, InvocationAt(d, p))
    BY <2>1 DEF SameInvocation, InvocationErrors, Errors
  <2> QED
    BY <2>1, <2>2 DEF NewInvocationError
<1>2. CASE x \in RequireErrors(e)
  <2>1. PICK p \in InvocationPlaces(e) : \E n \in InvocationAt(e, p).requires :
          x = Error(p, n) /\ RequireVerdicts(e, p, n) # {}
    BY <1>2 DEF RequireErrors
  <2>2. PICK n \in InvocationAt(e, p).requires :
          x = Error(p, n) /\ RequireVerdicts(e, p, n) # {}
    BY <2>1
  <2>3. SameInvocation(d, e, p) => RequireVerdicts(d, p, n) = {}
    BY <2>2 DEF SameInvocation, RequireErrors, Errors
  <2> QED
    BY <2>2, <2>3, RequirementMissing DEF NewRequireError
<1>3. CASE x \in StepErrors(e)
  <2>1. PICK p \in BodyPlaces(e) : \E n \in StepsAt(e, p) : x = Error(p, n) /\ BadStep(e, n)
    BY <1>3 DEF StepErrors
  <2>2. PICK n \in StepsAt(e, p) : x = Error(p, n) /\ BadStep(e, n)
    BY <2>1
  <2>3. p \in BodyPlaces(d) /\ n \in StepsAt(d, p) => ~BadStep(d, n)
    BY <2>2 DEF StepErrors, Errors
  <2> QED
    BY <2>2, <2>3 DEF NewStepError
<1>4. CASE x \in ExecutorErrors(e)
  BY <1>4 DEF ExecutorErrors, Errors, NewExecutorError
<1>5. CASE x \in CycleErrors(e)
  <2>1. PICK p \in InvocationPlaces(e) :
          /\ x = CycleError(p, InvocationAt(e, p).job)
          /\ InvocationAt(e, p).job \in NotVisited(Enclosing(e, p))
    BY <1>5 DEF CycleErrors
  <2>2. SameInvocation(d, e, p) => InvocationAt(d, p).job \notin NotVisited(Enclosing(d, p))
    BY <2>1 DEF SameInvocation, CycleErrors, Errors
  <2> QED
    BY <2>1, <2>2 DEF NewCycleError
<1> QED
  BY <1>1, <1>2, <1>3, <1>4, <1>5 DEF Errors
-----------------------------------------------------------------------------
(* The questions the validator asks about a name; two documents that answer  *)
(* them alike judge it alike.                                              *)
OrbsAlike(d, e, n) ==
  /\ IsOrbReference(d, n) <=> IsOrbReference(e, n)
  /\ IsFromUnfetchableOrb(d, n) <=> IsFromUnfetchableOrb(e, n)
  /\ IsOrbCommand(d, n) <=> IsOrbCommand(e, n)
  /\ IsOrbJob(d, n) <=> IsOrbJob(e, n)

JobsAlike(d, e, n) == DoesJobExist(d, n) <=> DoesJobExist(e, n)
GroupsAlike(d, e, n) == DoesJobGroupExist(d, n) <=> DoesJobGroupExist(e, n)
CommandsAlike(d, e, n) == DoesCommandExist(d, n) <=> DoesCommandExist(e, n)
ExecutorsAlike(d, e, n) == DoesExecutorExist(d, n) <=> DoesExecutorExist(e, n)

LEMMA AlikeIfSame ==
  ASSUME NEW d, NEW e, NEW n
  PROVE  /\ d.orbs = e.orbs => OrbsAlike(d, e, n)
         /\ d.jobs = e.jobs => JobsAlike(d, e, n)
         /\ d.groups = e.groups => GroupsAlike(d, e, n)
         /\ d.commands = e.commands => CommandsAlike(d, e, n)
         /\ d.executors = e.executors => ExecutorsAlike(d, e, n)
BY DEF OrbsAlike, JobsAlike, GroupsAlike, CommandsAlike, ExecutorsAlike, IsOrbReference,
       IsFromUnfetchableOrb, IsOrbCommand, IsOrbJob, OrbHas, GetOrbInfoFromName,
       DoesJobExist, DoesJobGroupExist, DoesCommandExist, DoesExecutorExist

LEMMA OtherOrbsAlike ==
  ASSUME NEW d, NEW e, NEW o, NEW n, n.orb # o,
         e.orbs = d.orbs \ {o} \/ e.orbs = d.orbs \union {o}
  PROVE  OrbsAlike(d, e, n)
BY DEF OrbsAlike, IsOrbReference, IsFromUnfetchableOrb, IsOrbCommand, IsOrbJob, OrbHas,
       GetOrbInfoFromName

LEMMA InvocationsJudgedAlike ==
  ASSUME NEW d, NEW e, NEW p, NEW inv, Enclosing(d, p) = Enclosing(e, p),
         OrbsAlike(d, e, inv.job), JobsAlike(d, e, inv.job), GroupsAlike(d, e, inv.job)
  PROVE  BadInvocation(d, p, inv) <=> BadInvocation(e, p, inv)
<1>1. InvokedAs(d, inv.job) = InvokedAs(e, inv.job)
  BY DEF InvokedAs, OrbsAlike, JobsAlike, GroupsAlike
<1>2. BadSingleInvocation(d, p, inv) <=> BadSingleInvocation(e, p, inv)
  BY <1>1 DEF BadSingleInvocation, NotDeclared, OrbsAlike
<1>3. InvokedTwice(d, p, inv) <=> InvokedTwice(e, p, inv)
  BY DEF InvokedTwice
<1> QED
  BY <1>2, <1>3 DEF BadInvocation, GroupsAlike

LEMMA StepsJudgedAlike ==
  ASSUME NEW d, NEW e, NEW n,
         OrbsAlike(d, e, n), JobsAlike(d, e, n), CommandsAlike(d, e, n)
  PROVE  BadStep(d, n) <=> BadStep(e, n)
BY DEF BadStep, StepExists, OrbsAlike, JobsAlike, CommandsAlike

LEMMA ExecutorsJudgedAlike ==
  ASSUME NEW d, NEW e, NEW n, OrbsAlike(d, e, n), ExecutorsAlike(d, e, n)
  PROVE  ExecutorVerdict(d, n) = ExecutorVerdict(e, n)
BY DEF ExecutorVerdict, OrbsAlike, ExecutorsAlike

LEMMA InvocationsKept ==
  ASSUME NEW d, NEW e, e.workflows = d.workflows, e.groups = d.groups
  PROVE  /\ InvocationPlaces(e) = InvocationPlaces(d)
         /\ \A p : Enclosing(e, p) = Enclosing(d, p)
         /\ \A p \in InvocationPlaces(e) : SameInvocation(d, e, p)
BY DEF InvocationPlaces, WorkflowPlaces, GroupPlaces, Enclosing, SameInvocation, InvocationAt

(* Lists that stay as they are give no new requirement and no new cycle.    *)
LEMMA NoNewListError ==
  ASSUME NEW d, NEW e, NEW x,
         \A p \in InvocationPlaces(e) :
           SameInvocation(d, e, p) /\ Enclosing(e, p) = Enclosing(d, p)
  PROVE  ~NewRequireError(d, e, x) /\ ~NewCycleError(d, e, x)
<1>1. ~NewRequireError(d, e, x)
  BY DEF NewRequireError
<1>2. ~NewCycleError(d, e, x)
  BY DEF NewCycleError, SameInvocation
<1> QED
  BY <1>1, <1>2

(* The error x is at a use of the name it is about.                         *)
InvokedAt(d, x) ==
  /\ x = Error(x.at, x.about)
  /\ x.at \in InvocationPlaces(d) /\ InvocationAt(d, x.at).job = x.about
SteppedAt(d, x) ==
  /\ x = Error(x.at, x.about)
  /\ x.at \in BodyPlaces(d) /\ x.about \in StepsAt(d, x.at)

(* Without a job, the steps and the invocations that name it may be wrong.  *)
LEMMA JobRemovalErrors ==
  ASSUME NEW d, IsDocument(d), NEW w,
         NEW e, e.jobs = Without(d.jobs, w), e.commands = d.commands,
         e.executors = d.executors, e.groups = d.groups,
         e.workflows = d.workflows, e.orbs = d.orbs,
         NEW x \in Errors(e), x \notin Errors(d)
  PROVE  x.about = Plain(w) /\ (InvokedAt(d, x) \/ SteppedAt(d, x))
<1>1. \A n \in Names : n # Plain(w) => JobsAlike(d, e, n)
  BY PlainIsUnique DEF JobsAlike, DoesJobExist, Without
<1>2. \A n : OrbsAlike(d, e, n) /\ GroupsAlike(d, e, n) /\ CommandsAlike(d, e, n)
             /\ ExecutorsAlike(d, e, n)
  BY AlikeIfSame
<1>3. CASE NewInvocationError(d, e, x)
  <2>1. PICK p \in InvocationPlaces(d) :
          /\ x = Error(p, InvocationAt(d, p).job) /\ Enclosing(d, p) = Enclosing(e, p)
          /\ BadInvocation(e, p, InvocationAt(d, p)) /\ ~BadInvocation(d, p, InvocationAt(d, p))
    BY <1>3, InvocationsKept DEF NewInvocationError, SameInvocation
  <2>2. InvocationAt(d, p).job = Plain(w)
    BY <1>1, <1>2, <2>1, InvocationsJudgedAlike, OccurringNames DEF Invocations
  <2> QED
    BY <2>1, <2>2 DEF Error, InvokedAt
<1>4. ~NewRequireError(d, e, x) /\ ~NewCycleError(d, e, x)
  BY InvocationsKept, NoNewListError
<1>5. CASE NewStepError(d, e, x)
  <2>1. PICK p \in BodyPlaces(e) : \E n \in StepsAt(e, p) :
          /\ x = Error(p, n) /\ BadStep(e, n)
          /\ p \in BodyPlaces(d) /\ n \in StepsAt(d, p) => ~BadStep(d, n)
    BY <1>5 DEF NewStepError
  <2>2. p \in BodyPlaces(d) /\ StepsAt(e, p) = StepsAt(d, p)
    BY <2>1 DEF BodyPlaces, StepsAt, Without
  <2>3. PICK n \in StepsAt(d, p) : x = Error(p, n) /\ BadStep(e, n) /\ ~BadStep(d, n)
    BY <2>1, <2>2
  <2>4. n = Plain(w)
    BY <1>1, <1>2, <2>2, <2>3, StepsJudgedAlike, OccurringNames
  <2> QED
    BY <2>2, <2>3, <2>4 DEF Error, SteppedAt
<1>6. ~NewExecutorError(d, e, x)
  <2>1. \A p \in ExecutorPlaces(e) :
          p \in ExecutorPlaces(d) /\ d.jobs[p.of].executor = e.jobs[p.of].executor
    BY DEF ExecutorPlaces, BodyPlaces, Without
  <2> QED
    BY <1>2, <2>1, ExecutorsJudgedAlike DEF NewExecutorError
<1> QED
  BY <1>3, <1>4, <1>5, <1>6, NewErrorCases

(* Without a command, the steps that name it may be wrong.                  *)
LEMMA CommandRemovalErrors ==
  ASSUME NEW d, IsDocument(d), NEW w,
         NEW e, e.jobs = d.jobs, e.commands = Without(d.commands, w),
         e.executors = d.executors, e.groups = d.groups,
         e.workflows = d.workflows, e.orbs = d.orbs,
         NEW x \in Errors(e), x \notin Errors(d)
  PROVE  x.about = Plain(w) /\ SteppedAt(d, x)
<1>1. \A n \in Names : n # Plain(w) => CommandsAlike(d, e, n)
  BY PlainIsUnique DEF CommandsAlike, DoesCommandExist, Without
<1>2. \A n : OrbsAlike(d, e, n) /\ GroupsAlike(d, e, n) /\ JobsAlike(d, e, n)
             /\ ExecutorsAlike(d, e, n)
  BY AlikeIfSame
<1>3. ~NewInvocationError(d, e, x)
  BY <1>2, InvocationsKept, InvocationsJudgedAlike DEF NewInvocationError, SameInvocation
<1>4. ~NewRequireError(d, e, x) /\ ~NewCycleError(d, e, x)
  BY InvocationsKept, NoNewListError
<1>5. CASE NewStepError(d, e, x)
  <2>1. PICK p \in BodyPlaces(e) : \E n \in StepsAt(e, p) :
          /\ x = Error(p, n) /\ BadStep(e, n)
          /\ p \in BodyPlaces(d) /\ n \in StepsAt(d, p) => ~BadStep(d, n)
    BY <1>5 DEF NewStepError
  <2>2. p \in BodyPlaces(d) /\ StepsAt(e, p) = StepsAt(d, p)
    BY <2>1 DEF BodyPlaces, StepsAt, Without
  <2>3. PICK n \in StepsAt(d, p) : x = Error(p, n) /\ BadStep(e, n) /\ ~BadStep(d, n)
    BY <2>1, <2>2
  <2>4. n = Plain(w)
    BY <1>1, <1>2, <2>2, <2>3, StepsJudgedAlike, OccurringNames
  <2> QED
    BY <2>2, <2>3, <2>4 DEF Error, SteppedAt
<1>6. ~NewExecutorError(d, e, x)
  BY <1>2, ExecutorsJudgedAlike DEF NewExecutorError, ExecutorPlaces, BodyPlaces
<1> QED
  BY <1>3, <1>4, <1>5, <1>6, NewErrorCases

(* Without an executor, the jobs that run in it are wrong.                  *)
LEMMA ExecutorRemovalErrors ==
  ASSUME NEW d, IsDocument(d), NEW w,
         NEW e, e.jobs = d.jobs, e.commands = d.commands,
         e.executors = d.executors \ {w}, e.groups = d.groups,
         e.workflows = d.workflows, e.orbs = d.orbs,
         NEW x \in Errors(e), x \notin Errors(d)
  PROVE  x \in getExecutorReferences(d, w)
<1>1. \A n \in Names : n # Plain(w) => ExecutorsAlike(d, e, n)
  BY PlainIsUnique DEF ExecutorsAlike, DoesExecutorExist
<1>2. \A n : OrbsAlike(d, e, n) /\ GroupsAlike(d, e, n) /\ JobsAlike(d, e, n)
             /\ CommandsAlike(d, e, n)
  BY AlikeIfSame
<1>3. ~NewInvocationError(d, e, x)
  BY <1>2, InvocationsKept, InvocationsJudgedAlike DEF NewInvocationError, SameInvocation
<1>4. ~NewRequireError(d, e, x) /\ ~NewCycleError(d, e, x)
  BY InvocationsKept, NoNewListError
<1>5. ~NewStepError(d, e, x)
  BY <1>2, StepsJudgedAlike DEF NewStepError, BodyPlaces, StepsAt
<1>6. CASE NewExecutorError(d, e, x)
  <2>1. ExecutorPlaces(e) = ExecutorPlaces(d)
    BY DEF ExecutorPlaces, BodyPlaces
  <2>2. PICK p \in ExecutorPlaces(d) :
          /\ x = Error(p, d.jobs[p.of].executor)
          /\ ExecutorVerdict(e, d.jobs[p.of].executor) = "error"
          /\ ExecutorVerdict(d, d.jobs[p.of].executor) # "error"
    BY <1>6, <2>1 DEF NewExecutorError
  <2>3. d.jobs[p.of].executor \in Names
    BY DEF ExecutorPlaces, BodyPlaces, IsDocument, IsPartialFunction, Jobs
  <2>4. d.jobs[p.of].executor = Plain(w)
    BY <1>1, <1>2, <2>2, <2>3, ExecutorsJudgedAlike
  <2> QED
    BY <2>2, <2>4 DEF getExecutorReferences
<1> QED
  BY <1>3, <1>4, <1>5, <1>6, NewErrorCases

(* Without an orb, the uses of what it has are wrong.                       *)
LEMMA OrbRemovalErrors ==
  ASSUME NEW d, NEW o,
         NEW e, e.jobs = d.jobs, e.commands = d.commands,
         e.executors = d.executors, e.groups = d.groups,
         e.workflows = d.workflows, e.orbs = d.orbs \ {o},
         NEW x \in Errors(e), x \notin Errors(d)
  PROVE  x.about.orb = o /\ (InvokedAt(d, x) \/ SteppedAt(d, x) \/ x \in ExecutorErrors(e))
<1>1. \A n : n.orb # o => OrbsAlike(d, e, n)
  BY OtherOrbsAlike
<1>2. \A n : GroupsAlike(d, e, n) /\ JobsAlike(d, e, n) /\ CommandsAlike(d, e, n)
             /\ ExecutorsAlike(d, e, n)
  BY AlikeIfSame
<1>3. CASE NewInvocationError(d, e, x)
  <2>1. PICK p \in InvocationPlaces(d) :
          /\ x = Error(p, InvocationAt(d, p).job) /\ Enclosing(d, p) = Enclosing(e, p)
          /\ BadInvocation(e, p, InvocationAt(d, p)) /\ ~BadInvocation(d, p, InvocationAt(d, p))
    BY <1>3, InvocationsKept DEF NewInvocationError, SameInvocation
  <2>2. InvocationAt(d, p).job.orb = o
    BY <1>1, <1>2, <2>1, InvocationsJudgedAlike
  <2> QED
    BY <2>1, <2>2 DEF Error, InvokedAt
<1>4. ~NewRequireError(d, e, x) /\ ~NewCycleError(d, e, x)
  BY InvocationsKept, NoNewListError
<1>5. CASE NewStepError(d, e, x)
  <2>1. BodyPlaces(e) = BodyPlaces(d) /\ \A p : StepsAt(e, p) = StepsAt(d, p)
    BY DEF BodyPlaces, StepsAt
  <2>2. PICK p \in BodyPlaces(d) : \E n \in StepsAt(d, p) :
          x = Error(p, n) /\ BadStep(e, n) /\ ~BadStep(d, n)
    BY <1>5, <2>1 DEF NewStepError
  <2>3. PICK n \in StepsAt(d, p) : x = Error(p, n) /\ BadStep(e, n) /\ ~BadStep(d, n)
    BY <2>2
  <2>4. n.orb = o
    BY <1>1, <1>2, <2>3, StepsJudgedAlike
  <2> QED
    BY <2>3, <2>4 DEF Error, SteppedAt
<1>6. CASE NewExecutorError(d, e, x)
  <2>1. PICK p \in ExecutorPlaces(e) :
          /\ x = Error(p, e.jobs[p.of].executor)
          /\ ExecutorVerdict(e, e.jobs[p.of].executor) = "error"
          /\ p \in ExecutorPlaces(d) /\ d.jobs[p.of].executor = e.jobs[p.of].executor
               => ExecutorVerdict(d, d.jobs[p.of].executor) # "error"
    BY <1>6 DEF NewExecutorError
  <2>2. p \in ExecutorPlaces(d)
    BY <2>1 DEF ExecutorPlaces, BodyPlaces
  <2>3. e.jobs[p.of].executor.orb = o
    BY <1>1, <1>2, <2>1, <2>2, ExecutorsJudgedAlike
  <2> QED
    BY <2>1, <2>3 DEF Error, ExecutorErrors
<1> QED
  BY <1>3, <1>4, <1>5, <1>6, NewErrorCases

(* Without a group, the workflows that invoke it are wrong; where another    *)
(* group invokes it, that was an error already.                             *)
LEMMA GroupRemovalErrors ==
  ASSUME NEW d, IsDocument(d), NEW w,
         NEW e, e.jobs = d.jobs, e.commands = d.commands,
         e.executors = d.executors, e.groups = Without(d.groups, w),
         e.workflows = d.workflows, e.orbs = d.orbs,
         NEW x \in Errors(e), x \notin Errors(d)
  PROVE  x.about = Plain(w) /\ InvokedAt(d, x) /\ x.at.kind = "workflow"
<1>1. \A n \in Names : n # Plain(w) => GroupsAlike(d, e, n)
  BY PlainIsUnique DEF GroupsAlike, DoesJobGroupExist, Without
<1>2. \A n : OrbsAlike(d, e, n) /\ JobsAlike(d, e, n) /\ CommandsAlike(d, e, n)
             /\ ExecutorsAlike(d, e, n)
  BY AlikeIfSame
<1>3. ASSUME NEW p \in InvocationPlaces(e)
      PROVE  SameInvocation(d, e, p) /\ Enclosing(e, p) = Enclosing(d, p)
  <2>1. CASE p \in WorkflowPlaces(e)
    BY <2>1 DEF InvocationPlaces, WorkflowPlaces, PlacesIn, SameInvocation, InvocationAt, Enclosing
  <2>2. CASE p \in GroupPlaces(e)
    <3>1. PICK g \in DOMAIN e.groups : p \in PlacesIn("group", g, e.groups[g])
      BY <2>2 DEF GroupPlaces
    <3>2. g \in DOMAIN d.groups /\ e.groups[g] = d.groups[g]
      BY <3>1 DEF Without
    <3>3. p \in InvocationPlaces(d)
      BY <3>1, <3>2 DEF InvocationPlaces, GroupPlaces
    <3> QED
      BY <3>1, <3>2, <3>3 DEF PlacesIn, SameInvocation, InvocationAt, Enclosing
  <2> QED
    BY <2>1, <2>2 DEF InvocationPlaces
<1>4. CASE NewInvocationError(d, e, x)
  <2>1. PICK p \in InvocationPlaces(e) :
          /\ x = Error(p, InvocationAt(d, p).job) /\ SameInvocation(d, e, p)
          /\ BadInvocation(e, p, InvocationAt(d, p)) /\ ~BadInvocation(d, p, InvocationAt(d, p))
    BY <1>3, <1>4 DEF NewInvocationError, SameInvocation
  <2> DEFINE inv == InvocationAt(d, p)
  <2>2. ~GroupsAlike(d, e, inv.job)
    BY <1>2, <1>3, <2>1, InvocationsJudgedAlike
  <2>3. inv.job = Plain(w)
    BY <1>1, <2>1, <2>2, OccurringNames DEF SameInvocation, Invocations
  <2>4. DoesJobGroupExist(d, inv.job)
    BY <2>2 DEF GroupsAlike, DoesJobGroupExist, Without
  <2>5. p.kind # "group"
    BY <2>1, <2>4 DEF BadInvocation, BadGroupInvocation
  <2>6. p.kind = "workflow"
    BY <2>1, <2>5, Placed DEF SameInvocation
  <2> QED
    BY <2>1, <2>3, <2>6 DEF Error, InvokedAt, SameInvocation
<1>5. ~NewRequireError(d, e, x) /\ ~NewCycleError(d, e, x)
  BY <1>3, NoNewListError
<1>6. ~NewStepError(d, e, x)
  BY <1>2, StepsJudgedAlike DEF NewStepError, BodyPlaces, StepsAt
<1>7. ~NewExecutorError(d, e, x)
  BY <1>2, ExecutorsJudgedAlike DEF NewExecutorError, ExecutorPlaces, BodyPlaces
<1> QED
  BY <1>4, <1>5, <1>6, <1>7, NewErrorCases
-----------------------------------------------------------------------------
(* What the removals do to the document, and which errors follow.           *)
LEMMA RemoveJobErrors ==
  ASSUME TypeOK, NEW w, RemoveJob(w), NEW x \in NewErrors
  PROVE  x.about = Plain(w) /\ (InvokedAt(doc, x) \/ SteppedAt(doc, x))
<1>1. /\ doc'.jobs = Without(doc.jobs, w) /\ doc'.commands = doc.commands
      /\ doc'.executors = doc.executors /\ doc'.groups = doc.groups
      /\ doc'.workflows = doc.workflows /\ doc'.orbs = doc.orbs
  BY DEF RemoveJob, TypeOK, IsDocument
<1> QED
  BY <1>1, JobRemovalErrors DEF NewErrors, TypeOK

LEMMA RemoveCommandErrors ==
  ASSUME TypeOK, NEW w, RemoveCommand(w), NEW x \in NewErrors
  PROVE  x.about = Plain(w) /\ SteppedAt(doc, x)
<1>1. /\ doc'.jobs = doc.jobs /\ doc'.commands = Without(doc.commands, w)
      /\ doc'.executors = doc.executors /\ doc'.groups = doc.groups
      /\ doc'.workflows = doc.workflows /\ doc'.orbs = doc.orbs
  BY DEF RemoveCommand, TypeOK, IsDocument
<1> QED
  BY <1>1, CommandRemovalErrors DEF NewErrors, TypeOK

LEMMA RemoveExecutorErrors ==
  ASSUME TypeOK, NEW w, RemoveExecutor(w), NEW x \in NewErrors
  PROVE  x \in getExecutorReferences(doc, w)
<1>1. /\ doc'.jobs = doc.jobs /\ doc'.commands = doc.commands
      /\ doc'.executors = doc.executors \ {w} /\ doc'.groups = doc.groups
      /\ doc'.workflows = doc.workflows /\ doc'.orbs = doc.orbs
  BY DEF RemoveExecutor, TypeOK, IsDocument
<1> QED
  BY <1>1, ExecutorRemovalErrors DEF NewErrors, TypeOK

LEMMA RemoveGroupErrors ==
  ASSUME TypeOK, NEW w, RemoveGroup(w), NEW x \in NewErrors
  PROVE  x.about = Plain(w) /\ InvokedAt(doc, x) /\ x.at.kind = "workflow"
<1>1. /\ doc'.jobs = doc.jobs /\ doc'.commands = doc.commands
      /\ doc'.executors = doc.executors /\ doc'.groups = Without(doc.groups, w)
      /\ doc'.workflows = doc.workflows /\ doc'.orbs = doc.orbs
  BY DEF RemoveGroup, TypeOK, IsDocument
<1> QED
  BY <1>1, GroupRemovalErrors DEF NewErrors, TypeOK

LEMMA RemoveOrbErrors ==
  ASSUME TypeOK, NEW o, RemoveOrb(o), NEW x \in NewErrors
  PROVE  /\ x.about.orb = o
         /\ InvokedAt(doc, x) \/ SteppedAt(doc, x) \/ x \in ExecutorErrors(doc')
<1>1. /\ doc'.jobs = doc.jobs /\ doc'.commands = doc.commands
      /\ doc'.executors = doc.executors /\ doc'.groups = doc.groups
      /\ doc'.workflows = doc.workflows /\ doc'.orbs = doc.orbs \ {o}
  BY DEF RemoveOrb, TypeOK, IsDocument
<1> QED
  BY <1>1, OrbRemovalErrors DEF NewErrors
-----------------------------------------------------------------------------
(* What the validator reports as unused (validate/jobs.go:135,              *)
(* commands.go:31, job_group.go:14, orb.go:147) can be removed without a    *)
(* new error, but for the uses it overlooks.                               *)
THEOREM UnusedCanGo == Spec => UnusedRemovalsAreSafe
<1>1. ASSUME TypeOK, NEW w \in Words,
             RemoveJob(w), JobIsUnused(doc, w), ~InStepsOf(doc, "command", Plain(w))
      PROVE  NewErrors = {}
  <2> SUFFICES ASSUME NEW x \in NewErrors PROVE FALSE
    OBVIOUS
  <2>1. x.about = Plain(w) /\ (InvokedAt(doc, x) \/ SteppedAt(doc, x))
    BY <1>1, RemoveJobErrors
  <2>2. ~InvokedAt(doc, x)
    BY <1>1, <2>1, Placed DEF InvokedAt, JobIsUnused, InvokedIn
  <2>3. ~SteppedAt(doc, x)
    BY <1>1, <2>1 DEF SteppedAt, JobIsUnused, InStepsOf, BodyPlaces
  <2> QED
    BY <2>1, <2>2, <2>3
<1>2. ASSUME TypeOK, NEW w \in Words, RemoveCommand(w), CommandIsUnused(doc, w)
      PROVE  NewErrors = {}
  <2> SUFFICES ASSUME NEW x \in NewErrors PROVE FALSE
    OBVIOUS
  <2>1. x.about = Plain(w) /\ SteppedAt(doc, x)
    BY <1>2, RemoveCommandErrors
  <2> QED
    BY <1>2, <2>1 DEF SteppedAt, CommandIsUnused, InStepsOf, BodyPlaces
<1>3. ASSUME TypeOK, NEW w \in Words, RemoveGroup(w), GroupIsUnused(doc, w)
      PROVE  NewErrors = {}
  <2> SUFFICES ASSUME NEW x \in NewErrors PROVE FALSE
    OBVIOUS
  <2>1. x.about = Plain(w) /\ InvokedAt(doc, x) /\ x.at.kind = "workflow"
    BY <1>3, RemoveGroupErrors
  <2> QED
    BY <1>3, <2>1 DEF InvokedAt, GroupIsUnused, isJobGroupUsedInWorkflows, InvokedIn
<1>4. ASSUME TypeOK, NEW o \in OrbNames, RemoveOrb(o), OrbIsUnused(doc, o),
             NEW x \in NewErrors
      PROVE  InGroup(x)
  <2>1. o \in doc.orbs /\ o # NoOrb
    BY <1>4, OrbNamesAssumption DEF RemoveOrb
  <2>2. /\ x.about.orb = o
        /\ InvokedAt(doc, x) \/ SteppedAt(doc, x) \/ x \in ExecutorErrors(doc')
    BY <1>4, RemoveOrbErrors
  <2>3. IsOrbReference(doc, x.about)
    BY <2>1, <2>2 DEF IsOrbReference
  <2>4. CASE InvokedAt(doc, x)
    BY <1>4, <2>2, <2>3, <2>4, Placed DEF InvokedAt, OrbIsUnused, InGroup
  <2>5. ~SteppedAt(doc, x)
    BY <1>4, <2>2, <2>3 DEF SteppedAt, OrbIsUnused
  <2>6. x \notin ExecutorErrors(doc')
    <3> SUFFICES ASSUME NEW p \in ExecutorPlaces(doc'), x = Error(p, doc'.jobs[p.of].executor)
                 PROVE  FALSE
      BY DEF ExecutorErrors
    <3>1. doc'.jobs = doc.jobs
      BY <1>4 DEF RemoveOrb, TypeOK, IsDocument
    <3>2. p \in ExecutorPlaces(doc) /\ x.about = doc.jobs[p.of].executor
      BY <3>1 DEF ExecutorPlaces, BodyPlaces, Error
    <3>3. FirstPart(x.about) = o
      BY <2>1, <2>2 DEF FirstPart
    <3> QED
      BY <1>4, <3>2, <3>3 DEF OrbIsUnused
  <2> QED
    BY <2>2, <2>4, <2>5, <2>6
<1> DEFINE Safe ==
      /\ \A w \in Words :
           \/ RemoveJob(w) /\ JobIsUnused(doc, w) /\ ~InStepsOf(doc, "command", Plain(w))
           \/ RemoveCommand(w) /\ CommandIsUnused(doc, w)
           \/ RemoveGroup(w) /\ GroupIsUnused(doc, w)
           => NewErrors = {}
      /\ \A o \in OrbNames :
           RemoveOrb(o) /\ OrbIsUnused(doc, o) => \A e \in NewErrors : InGroup(e)
<1>5. TypeOK => Safe
  BY <1>1, <1>2, <1>3, <1>4, Zenon
<1>6. Spec => [][Safe]_doc
  BY <1>5, TypeCorrect, PTL
<1> QED
  BY <1>6 DEF UnusedRemovalsAreSafe
-----------------------------------------------------------------------------
(* A use in a workflow, a job or a command is one that find-references lists. *)
LEMMA UsesAreFound ==
  ASSUME NEW d, NEW x, NEW p, NEW n, x = Error(p, n),
         \/ InvokedAt(d, x) /\ p.kind = "workflow"
         \/ SteppedAt(d, x)
  PROVE  x \in FoundSteps(d)
<1>1. x.at = p /\ x.about = n
  BY DEF Error
<1>2. CASE InvokedAt(d, x) /\ p.kind = "workflow"
  <2>1. p \in {q \in InvocationPlaces(d) : q.kind = "workflow"} /\ n = InvocationAt(d, p).job
    BY <1>1, <1>2 DEF InvokedAt
  <2> QED
    BY <2>1 DEF FoundSteps
<1>3. CASE SteppedAt(d, x)
  <2>1. p \in BodyPlaces(d) /\ n \in StepsAt(d, p)
    BY <1>1, <1>3 DEF SteppedAt
  <2> QED
    BY <2>1 DEF FoundSteps
<1> QED
  BY <1>2, <1>3

(* Whoever removes a job, a command, an executor or an orb finds every use   *)
(* that breaks among its references (references.go:41-59, 125-233), but for  *)
(* those it does not look at: job groups, and the executors of orbs.        *)
THEOREM RemovalsAreFound == Spec => RemovalShowsInReferences
<1>1. ASSUME NEW x \in NewErrors, InvokedAt(doc, x) \/ SteppedAt(doc, x), ~InGroup(x)
      PROVE  x \in FoundSteps(doc)
  <2>1. x = Error(x.at, x.about)
    BY <1>1 DEF InvokedAt, SteppedAt
  <2>2. InvokedAt(doc, x) => x.at.kind = "workflow"
    BY <1>1, Placed DEF InvokedAt, InGroup
  <2> QED
    BY <1>1, <2>1, <2>2, UsesAreFound
<1>2. ASSUME TypeOK, NEW w \in Words, RemoveJob(w), NEW x \in NewErrors
      PROVE  x \in getReferenceFromSteps(doc, w) \/ InGroup(x)
  BY <1>1, <1>2, RemoveJobErrors DEF getReferenceFromSteps
<1>3. ASSUME TypeOK, NEW w \in Words, RemoveCommand(w), NEW x \in NewErrors
      PROVE  x \in getReferenceFromSteps(doc, w)
  <2>1. x.about = Plain(w) /\ SteppedAt(doc, x)
    BY <1>3, RemoveCommandErrors
  <2>2. ~InGroup(x)
    BY <2>1 DEF SteppedAt, BodyPlaces, InGroup
  <2> QED
    BY <1>1, <2>1, <2>2 DEF getReferenceFromSteps
<1>4. ASSUME TypeOK, NEW w \in Words, RemoveExecutor(w)
      PROVE  NewErrors \subseteq getExecutorReferences(doc, w)
  BY <1>4, RemoveExecutorErrors
<1>5. ASSUME TypeOK, NEW o \in OrbNames, RemoveOrb(o), o \notin LocalOrbs, NEW x \in NewErrors
      PROVE  \/ x \in OrbReferences(doc, o)
             \/ InGroup(x)
             \/ x \in ExecutorErrors(doc)' /\ x.about.orb = o
  <2>1. /\ x.about.orb = o
        /\ InvokedAt(doc, x) \/ SteppedAt(doc, x) \/ x \in ExecutorErrors(doc')
    BY <1>5, RemoveOrbErrors
  <2> QED
    BY <1>1, <1>5, <2>1 DEF OrbReferences
<1> DEFINE Shown ==
      /\ \A w \in Words :
           /\ RemoveJob(w) =>
                \A e \in NewErrors : e \in getReferenceFromSteps(doc, w) \/ InGroup(e)
           /\ RemoveCommand(w) => NewErrors \subseteq getReferenceFromSteps(doc, w)
           /\ RemoveExecutor(w) => NewErrors \subseteq getExecutorReferences(doc, w)
      /\ \A o \in OrbNames :
           RemoveOrb(o) /\ o \notin LocalOrbs =>
             \A e \in NewErrors :
               \/ e \in OrbReferences(doc, o)
               \/ InGroup(e)
               \/ e \in ExecutorErrors(doc)' /\ e.about.orb = o
<1>6. TypeOK => Shown
  BY <1>2, <1>3, <1>4, <1>5, Zenon
<1>7. Spec => [][Shown]_doc
  BY <1>6, TypeCorrect, PTL
<1> QED
  BY <1>7 DEF RemovalShowsInReferences
-----------------------------------------------------------------------------
(* A new job can be wrong itself; it makes nothing else wrong.              *)
LEMMA JobAdditionErrors ==
  ASSUME NEW d, NEW w, w \notin DOMAIN d.jobs, NEW job,
         NEW e, e.jobs = With(d.jobs, w, job), e.commands = d.commands,
         e.executors = d.executors, e.groups = d.groups,
         e.workflows = d.workflows, e.orbs = d.orbs,
         NEW x \in Errors(e), x \notin Errors(d)
  PROVE  x.at = [kind |-> "job", of |-> w]
<1>1. \A n : DoesJobExist(d, n) => DoesJobExist(e, n)
  BY DEF DoesJobExist, With
<1>2. \A n : OrbsAlike(d, e, n) /\ GroupsAlike(d, e, n) /\ CommandsAlike(d, e, n)
             /\ ExecutorsAlike(d, e, n)
  BY AlikeIfSame
<1>3. ~NewInvocationError(d, e, x)
  <2> SUFFICES ASSUME NEW p \in InvocationPlaces(e), NEW inv,
                      BadInvocation(e, p, inv)
               PROVE  BadInvocation(d, p, inv)
    BY InvocationsKept DEF NewInvocationError, SameInvocation
  <2>1. InvokedAs(e, inv.job) = "nothing" => InvokedAs(d, inv.job) = "nothing"
    BY <1>1, <1>2 DEF InvokedAs, OrbsAlike, GroupsAlike
  <2>2. BadSingleInvocation(e, p, inv) => BadSingleInvocation(d, p, inv)
    BY <1>2, <2>1 DEF BadSingleInvocation, NotDeclared, OrbsAlike
  <2>3. InvokedTwice(e, p, inv) <=> InvokedTwice(d, p, inv)
    BY InvocationsKept DEF InvokedTwice
  <2> QED
    BY <1>2, <2>2, <2>3 DEF BadInvocation, GroupsAlike
<1>4. ~NewRequireError(d, e, x) /\ ~NewCycleError(d, e, x)
  BY InvocationsKept, NoNewListError
<1>5. ASSUME NEW p \in BodyPlaces(e), p # [kind |-> "job", of |-> w]
      PROVE  /\ p \in BodyPlaces(d) /\ StepsAt(e, p) = StepsAt(d, p)
             /\ p.kind = "job" => e.jobs[p.of] = d.jobs[p.of]
  BY <1>5 DEF BodyPlaces, StepsAt, With
<1>6. ASSUME NewStepError(d, e, x)
      PROVE  x.at = [kind |-> "job", of |-> w]
  <2>1. PICK p \in BodyPlaces(e) : \E n \in StepsAt(e, p) :
          /\ x = Error(p, n) /\ BadStep(e, n)
          /\ p \in BodyPlaces(d) /\ n \in StepsAt(d, p) => ~BadStep(d, n)
    BY <1>6 DEF NewStepError
  <2>2. PICK n \in StepsAt(e, p) :
          /\ x = Error(p, n) /\ BadStep(e, n)
          /\ p \in BodyPlaces(d) /\ n \in StepsAt(d, p) => ~BadStep(d, n)
    BY <2>1
  <2>3. BadStep(d, n)
    BY <1>1, <1>2, <2>2 DEF BadStep, StepExists, OrbsAlike, CommandsAlike
  <2>4. p = [kind |-> "job", of |-> w]
    BY <1>5, <2>2, <2>3
  <2> QED
    BY <2>2, <2>4 DEF Error
<1>7. ASSUME NewExecutorError(d, e, x)
      PROVE  x.at = [kind |-> "job", of |-> w]
  <2>1. PICK p \in ExecutorPlaces(e) :
          /\ x = Error(p, e.jobs[p.of].executor)
          /\ ExecutorVerdict(e, e.jobs[p.of].executor) = "error"
          /\ p \in ExecutorPlaces(d) /\ d.jobs[p.of].executor = e.jobs[p.of].executor
               => ExecutorVerdict(d, d.jobs[p.of].executor) # "error"
    BY <1>7 DEF NewExecutorError
  <2>2. p \in ExecutorPlaces(d) => d.jobs[p.of].executor # e.jobs[p.of].executor
    BY <1>2, <2>1, ExecutorsJudgedAlike
  <2>3. p = [kind |-> "job", of |-> w]
    BY <1>5, <2>1, <2>2 DEF ExecutorPlaces
  <2> QED
    BY <2>1, <2>3 DEF Error
<1> QED
  BY <1>3, <1>4, <1>6, <1>7, NewErrorCases

(* A new group hides whatever went by its name.                             *)
LEMMA GroupAdditionErrors ==
  ASSUME NEW d, IsDocument(d), NEW w,
         NEW e, e.jobs = d.jobs, e.commands = d.commands,
         e.executors = d.executors, e.groups = With(d.groups, w, <<>>),
         e.workflows = d.workflows, e.orbs = d.orbs,
         NEW x \in Errors(e), x \notin Errors(d)
  PROVE  x.about = Plain(w)
<1>1. \A n \in Names : n # Plain(w) => GroupsAlike(d, e, n)
  BY PlainIsUnique DEF GroupsAlike, DoesJobGroupExist, With
<1>2. \A n : OrbsAlike(d, e, n) /\ JobsAlike(d, e, n) /\ CommandsAlike(d, e, n)
             /\ ExecutorsAlike(d, e, n)
  BY AlikeIfSame
<1>3. ASSUME NEW p \in InvocationPlaces(e)
      PROVE  SameInvocation(d, e, p) /\ Enclosing(e, p) = Enclosing(d, p)
  <2>1. CASE p \in WorkflowPlaces(e)
    BY <2>1 DEF InvocationPlaces, WorkflowPlaces, PlacesIn, SameInvocation, InvocationAt, Enclosing
  <2>2. CASE p \in GroupPlaces(e)
    <3>1. PICK g \in DOMAIN e.groups : p \in PlacesIn("group", g, e.groups[g])
      BY <2>2 DEF GroupPlaces
    <3>2. g # w
      BY <3>1 DEF With, PlacesIn
    <3>3. g \in DOMAIN d.groups /\ e.groups[g] = d.groups[g]
      BY <3>1, <3>2 DEF With
    <3>4. p \in InvocationPlaces(d)
      BY <3>1, <3>3 DEF InvocationPlaces, GroupPlaces
    <3> QED
      BY <3>1, <3>3, <3>4 DEF PlacesIn, SameInvocation, InvocationAt, Enclosing
  <2> QED
    BY <2>1, <2>2 DEF InvocationPlaces
<1>4. CASE NewInvocationError(d, e, x)
  <2>1. PICK p \in InvocationPlaces(e) :
          /\ x = Error(p, InvocationAt(d, p).job) /\ SameInvocation(d, e, p)
          /\ BadInvocation(e, p, InvocationAt(d, p)) /\ ~BadInvocation(d, p, InvocationAt(d, p))
    BY <1>3, <1>4 DEF NewInvocationError, SameInvocation
  <2>2. ~GroupsAlike(d, e, InvocationAt(d, p).job)
    BY <1>2, <1>3, <2>1, InvocationsJudgedAlike
  <2>3. InvocationAt(d, p).job = Plain(w)
    BY <1>1, <2>1, <2>2, OccurringNames DEF SameInvocation, Invocations
  <2> QED
    BY <2>1, <2>3 DEF Error
<1>5. ~NewRequireError(d, e, x) /\ ~NewCycleError(d, e, x)
  BY <1>3, NoNewListError
<1>6. ~NewStepError(d, e, x)
  BY <1>2, StepsJudgedAlike DEF NewStepError, BodyPlaces, StepsAt
<1>7. ~NewExecutorError(d, e, x)
  BY <1>2, ExecutorsJudgedAlike DEF NewExecutorError, ExecutorPlaces, BodyPlaces
<1> QED
  BY <1>4, <1>5, <1>6, <1>7, NewErrorCases

(* Before its orb is imported, whatever is taken from it is an error; so an  *)
(* import makes nothing wrong.                                             *)
LEMMA OrbAdditionErrors ==
  ASSUME NEW d, NEW o \in OrbNames,
         NEW e, e.jobs = d.jobs, e.commands = d.commands,
         e.executors = d.executors, e.groups = d.groups,
         e.workflows = d.workflows, e.orbs = d.orbs \union {o}
  PROVE  Errors(e) \subseteq Errors(d)
<1> SUFFICES ASSUME NEW x \in Errors(e), x \notin Errors(d)
             PROVE  FALSE
  OBVIOUS
<1>1. \A n : n.orb # o => OrbsAlike(d, e, n)
  BY OtherOrbsAlike
<1>2. \A n : GroupsAlike(d, e, n) /\ JobsAlike(d, e, n) /\ CommandsAlike(d, e, n)
             /\ ExecutorsAlike(d, e, n)
  BY AlikeIfSame
<1>3. CASE o \in d.orbs
  <2>1. \A n : OrbsAlike(d, e, n)
    BY <1>3, AlikeIfSame
  <2>2. ~NewInvocationError(d, e, x)
    BY <1>2, <2>1, InvocationsKept, InvocationsJudgedAlike DEF NewInvocationError, SameInvocation
  <2>3. ~NewRequireError(d, e, x) /\ ~NewCycleError(d, e, x)
    BY InvocationsKept, NoNewListError
  <2>4. ~NewStepError(d, e, x)
    BY <1>2, <2>1, StepsJudgedAlike DEF NewStepError, BodyPlaces, StepsAt
  <2>5. ~NewExecutorError(d, e, x)
    BY <1>2, <2>1, ExecutorsJudgedAlike DEF NewExecutorError, ExecutorPlaces, BodyPlaces
  <2> QED
    BY <2>2, <2>3, <2>4, <2>5, NewErrorCases
<1>4. CASE o \notin d.orbs
  <2>1. ASSUME NEW n, n.orb = o
        PROVE  /\ ~IsOrbReference(d, n) /\ ~IsFromUnfetchableOrb(d, n) /\ ~IsOrbCommand(d, n)
               /\ ~DoesJobGroupExist(d, n) /\ ~DoesJobExist(d, n) /\ ~DoesCommandExist(d, n)
               /\ ~IsBuiltIn(n) /\ ~DoesExecutorExist(d, n)
    BY <1>4, <2>1, OrbNamesAssumption
       DEF IsOrbReference, IsFromUnfetchableOrb, IsOrbCommand, OrbHas, GetOrbInfoFromName,
           DoesJobGroupExist, DoesJobExist, DoesCommandExist, IsBuiltIn, DoesExecutorExist
  <2>2. ~NewInvocationError(d, e, x)
    <3> SUFFICES ASSUME NEW p \in InvocationPlaces(e), NEW inv, BadInvocation(e, p, inv)
                 PROVE  BadInvocation(d, p, inv)
      BY InvocationsKept DEF NewInvocationError, SameInvocation
    <3>1. CASE inv.job.orb # o
      BY <1>1, <1>2, <3>1, InvocationsKept, InvocationsJudgedAlike
    <3>2. CASE inv.job.orb = o
      <4>1. InvokedAs(d, inv.job) = "nothing"
        BY <2>1, <3>2 DEF InvokedAs
      <4>2. BadSingleInvocation(e, p, inv) => BadSingleInvocation(d, p, inv)
        BY <2>1, <3>2, <4>1 DEF BadSingleInvocation, NotDeclared
      <4> QED
        BY <1>2, <2>1, <3>2, <4>2 DEF BadInvocation, GroupsAlike
    <3> QED
      BY <3>1, <3>2
  <2>3. ~NewRequireError(d, e, x) /\ ~NewCycleError(d, e, x)
    BY InvocationsKept, NoNewListError
  <2>4. ~NewStepError(d, e, x)
    <3>1. \A n : BadStep(e, n) => BadStep(d, n)
      BY <1>1, <1>2, <2>1, StepsJudgedAlike DEF BadStep, StepExists
    <3> QED
      BY <3>1 DEF NewStepError, BodyPlaces, StepsAt
  <2>5. ~NewExecutorError(d, e, x)
    <3>1. \A n : ExecutorVerdict(e, n) = "error" => ExecutorVerdict(d, n) = "error"
      BY <1>1, <1>2, <2>1, ExecutorsJudgedAlike DEF ExecutorVerdict
    <3> QED
      BY <3>1 DEF NewExecutorError, ExecutorPlaces, BodyPlaces
  <2> QED
    BY <2>2, <2>3, <2>4, <2>5, NewErrorCases
<1> QED
  BY <1>3, <1>4

(* The list an invocation was appended to, and what its other members see.  *)
LEMMA AppendedList ==
  ASSUME NEW s \in Seq(Invocations), NEW inv \in Invocations
  PROVE  /\ Len(Append(s, inv)) = Len(s) + 1 /\ Len(s) \in Nat
         /\ DOMAIN Append(s, inv) = 1..(Len(s) + 1) /\ DOMAIN s = 1..Len(s)
         /\ \A i \in 1..Len(s) : Append(s, inv)[i] = s[i]
         /\ Append(s, inv)[Len(s) + 1] = inv
OBVIOUS

(* An invocation already in the list is judged as before, unless the added   *)
(* one invokes the same job.                                               *)
LEMMA OthersInvokedAlike ==
  ASSUME NEW d, NEW e, NEW p, NEW s \in Seq(Invocations), NEW inv \in Invocations,
         Enclosing(d, p) = s, Enclosing(e, p) = Append(s, inv), p.at \in DOMAIN s,
         NEW other, other.job # inv.job,
         OrbsAlike(d, e, other.job), JobsAlike(d, e, other.job), GroupsAlike(d, e, other.job)
  PROVE  BadInvocation(d, p, other) <=> BadInvocation(e, p, other)
<1>1. InvokedAs(d, other.job) = InvokedAs(e, other.job)
  BY DEF InvokedAs, OrbsAlike, JobsAlike, GroupsAlike
<1>2. BadSingleInvocation(d, p, other) <=> BadSingleInvocation(e, p, other)
  BY <1>1 DEF BadSingleInvocation, NotDeclared, OrbsAlike
<1> DEFINE Same(t) == {i \in DOMAIN t \ {p.at} : t[i].job = other.job}
<1>3. Same(Append(s, inv)) = Same(s)
  BY AppendedList
<1>4. \A i \in Same(s) : Append(s, inv)[i].name = s[i].name
  BY AppendedList
<1>5. InvokedTwice(d, p, other) <=>
        Same(s) # {} /\ (HasBeenRenamed(other) => \E i \in Same(s) : i < p.at /\ s[i].name = other.name)
  BY DEF InvokedTwice
<1>6. InvokedTwice(e, p, other) <=>
        /\ Same(Append(s, inv)) # {}
        /\ HasBeenRenamed(other) =>
             \E i \in Same(Append(s, inv)) : i < p.at /\ Append(s, inv)[i].name = other.name
  BY DEF InvokedTwice
<1> HIDE DEF Same
<1>7. InvokedTwice(d, p, other) <=> InvokedTwice(e, p, other)
  BY <1>3, <1>4, <1>5, <1>6
<1> QED
  BY <1>2, <1>7 DEF BadInvocation, GroupsAlike

(* The edit that appends inv to the list of the workflow or the group w, and *)
(* that list before it.                                                    *)
Invoked(d, e, kind, w, inv) ==
  \/ /\ kind = "workflow" /\ w \in DOMAIN d.workflows /\ e.groups = d.groups
     /\ e.workflows = [d.workflows EXCEPT ![w] = Append(@, inv)]
  \/ /\ kind = "group" /\ w \in DOMAIN d.groups /\ e.workflows = d.workflows
     /\ e.groups = [d.groups EXCEPT ![w] = Append(@, inv)]

Listed(d, kind, w) == IF kind = "workflow" THEN d.workflows[w] ELSE d.groups[w]

LEMMA OtherPlaces ==
  ASSUME NEW d, NEW kind, NEW w, NEW inv, NEW e, Invoked(d, e, kind, w, inv),
         NEW p \in InvocationPlaces(e), p.kind # kind \/ p.of # w
  PROVE  SameInvocation(d, e, p) /\ Enclosing(e, p) = Enclosing(d, p)
<1>1. CASE p \in WorkflowPlaces(e)
  <2>1. PICK v \in DOMAIN e.workflows : p \in PlacesIn("workflow", v, e.workflows[v])
    BY <1>1 DEF WorkflowPlaces
  <2>2. v \in DOMAIN d.workflows /\ e.workflows[v] = d.workflows[v]
    BY <2>1 DEF PlacesIn, Invoked
  <2>3. p \in InvocationPlaces(d)
    BY <2>1, <2>2 DEF InvocationPlaces, WorkflowPlaces
  <2> QED
    BY <2>1, <2>2, <2>3 DEF PlacesIn, SameInvocation, InvocationAt, Enclosing
<1>2. CASE p \in GroupPlaces(e)
  <2>1. PICK v \in DOMAIN e.groups : p \in PlacesIn("group", v, e.groups[v])
    BY <1>2 DEF GroupPlaces
  <2>2. v \in DOMAIN d.groups /\ e.groups[v] = d.groups[v]
    BY <2>1 DEF PlacesIn, Invoked
  <2>3. p \in InvocationPlaces(d)
    BY <2>1, <2>2 DEF InvocationPlaces, GroupPlaces
  <2> QED
    BY <2>1, <2>2, <2>3 DEF PlacesIn, SameInvocation, InvocationAt, Enclosing
<1> QED
  BY <1>1, <1>2 DEF InvocationPlaces

LEMMA PlacesInTheList ==
  ASSUME NEW d, IsDocument(d), NEW kind, NEW w, NEW inv \in Invocations,
         NEW e, Invoked(d, e, kind, w, inv), NEW p \in InvocationPlaces(e),
         p.kind = kind, p.of = w
  PROVE  /\ Enclosing(d, p) = Listed(d, kind, w)
         /\ Enclosing(e, p) = Append(Listed(d, kind, w), inv)
         /\ p.at # Len(Listed(d, kind, w)) + 1 =>
              SameInvocation(d, e, p) /\ p.at \in DOMAIN Listed(d, kind, w)
<1> DEFINE s == Listed(d, kind, w)
<1>1. s \in Seq(Invocations)
  BY DEF Invoked, Listed, IsDocument, IsPartialFunction
<1>2. Enclosing(d, p) = s /\ Enclosing(e, p) = Append(s, inv)
  BY DEF Enclosing, Listed, Invoked
<1>3. p.at \in DOMAIN Enclosing(e, p)
  BY Placed DEF Enclosing
<1>4. p.at \in DOMAIN s => p \in InvocationPlaces(d)
  <2>1. CASE p \in WorkflowPlaces(e)
    BY <2>1 DEF WorkflowPlaces, InvocationPlaces, PlacesIn, Invoked, Listed
  <2>2. CASE p \in GroupPlaces(e)
    BY <2>2 DEF GroupPlaces, InvocationPlaces, PlacesIn, Invoked, Listed
  <2> QED
    BY <2>1, <2>2 DEF InvocationPlaces
<1> HIDE DEF s
<1>5. p.at # Len(s) + 1 => p.at \in DOMAIN s /\ Append(s, inv)[p.at] = s[p.at]
  BY <1>1, <1>2, <1>3, AppendedList
<1> QED
  BY <1>2, <1>4, <1>5 DEF s, SameInvocation, InvocationAt

(* An invocation brings edges to its own name alone.  So whatever is newly   *)
(* not visited is fed through it.                                           *)
LEMMA NewlyNotVisited ==
  ASSUME NEW s \in Seq(Invocations), NEW inv \in Invocations,
         NEW n \in NotVisited(Append(s, inv)), n \notin NotVisited(s)
  PROVE  /\ inv.name \in NotVisited(Append(s, inv))
         /\ LedTo(Append(s, inv), inv.name, n)
<1> DEFINE t == Append(s, inv)
           V == NotVisited(t)
<1>1. ASSUME NEW k, NEW l, Edge(t, k, l), l # inv.name
      PROVE  Edge(s, k, l)
  BY <1>1, AppendedList DEF Edge
<1>2. ASSUME NEW S, SelfFed(s, S)
      PROVE  S \subseteq NotVisited(s)
  <2>1. S \in SUBSET DAGNodes(s)
    BY <1>2 DEF SelfFed, Edge, DAGNodes
  <2> QED
    BY <1>2, <2>1 DEF NotVisited
<1>3. ASSUME NEW l \in V
      PROVE  l \in DAGNodes(t) /\ \E k \in V : Edge(t, k, l)
  <2>1. PICK S \in SUBSET DAGNodes(t) : SelfFed(t, S) /\ l \in S
    BY <1>3 DEF NotVisited
  <2>2. S \subseteq V
    BY <2>1 DEF NotVisited
  <2> QED
    BY <2>1, <2>2 DEF SelfFed
<1> HIDE DEF V, t
<1>4. ASSUME inv.name \notin V
      PROVE  FALSE
  <2>1. SelfFed(s, V)
    BY <1>1, <1>3, <1>4 DEF SelfFed
  <2> QED
    BY <1>2, <2>1 DEF V, t
<1>5. ASSUME NEW T \in SUBSET DAGNodes(t), inv.name \in T, n \notin T,
             \A k \in T, l \in DAGNodes(t) : Edge(t, k, l) => l \in T
      PROVE  FALSE
  <2>1. SelfFed(s, V \ T)
    BY <1>1, <1>3, <1>5 DEF SelfFed
  <2>2. n \in V \ T
    BY <1>5 DEF V, t
  <2> QED
    BY <1>2, <2>1, <2>2
<1>6. LedTo(t, inv.name, n)
  BY <1>5 DEF LedTo
<1> QED
  BY <1>4, <1>6 DEF V, t

LEMMA InvocationAdditionErrors ==
  ASSUME NEW d, IsDocument(d), NEW kind, NEW w, NEW inv \in Invocations,
         NEW e, e.jobs = d.jobs, e.commands = d.commands,
         e.executors = d.executors, e.orbs = d.orbs, Invoked(d, e, kind, w, inv),
         NEW x \in Errors(e), x \notin Errors(d)
  PROVE  DueToInvocation(x, kind, w, inv, Append(Listed(d, kind, w), inv))
<1> DEFINE s == Listed(d, kind, w)
<1>1. s \in Seq(Invocations)
  BY DEF Invoked, Listed, IsDocument, IsPartialFunction
<1>2. \A n : OrbsAlike(d, e, n) /\ JobsAlike(d, e, n) /\ CommandsAlike(d, e, n)
             /\ ExecutorsAlike(d, e, n) /\ GroupsAlike(d, e, n)
  <2>1. DOMAIN e.groups = DOMAIN d.groups
    BY DEF Invoked
  <2> QED
    BY <2>1, AlikeIfSame DEF GroupsAlike, DoesJobGroupExist
<1>3. ASSUME NewInvocationError(d, e, x)
      PROVE  /\ x.at.kind = kind /\ x.at.of = w
             /\ \/ x.at.at = Len(s) + 1
                \/ x.says = "name" /\ x.about = inv.job
  <2>1. PICK p \in InvocationPlaces(e) :
          /\ x = Error(p, InvocationAt(e, p).job) /\ BadInvocation(e, p, InvocationAt(e, p))
          /\ SameInvocation(d, e, p) => ~BadInvocation(d, p, InvocationAt(d, p))
    BY <1>3 DEF NewInvocationError
  <2>2. x.at = p /\ x.about = InvocationAt(e, p).job /\ x.says = "name"
    BY <2>1 DEF Error
  <2>3. CASE p.kind # kind \/ p.of # w
    <3>1. SameInvocation(d, e, p) /\ Enclosing(e, p) = Enclosing(d, p)
      BY <2>3, OtherPlaces
    <3> QED
      BY <1>2, <2>1, <3>1, InvocationsJudgedAlike DEF SameInvocation
  <2>4. CASE p.kind = kind /\ p.of = w /\ p.at # Len(s) + 1
    <3>1. /\ Enclosing(d, p) = s /\ Enclosing(e, p) = Append(s, inv)
          /\ SameInvocation(d, e, p) /\ p.at \in DOMAIN s
      BY <2>4, PlacesInTheList
    <3> HIDE DEF s
    <3>2. InvocationAt(e, p).job = inv.job
      BY <1>1, <1>2, <2>1, <3>1, OthersInvokedAlike DEF SameInvocation
    <3> QED
      BY <2>2, <2>4, <3>2
  <2> QED
    BY <2>2, <2>3, <2>4
<1>4. ASSUME NewRequireError(d, e, x)
      PROVE  x.at.kind = kind /\ x.at.of = w /\ x.at.at = Len(s) + 1
  <2>1. PICK p \in InvocationPlaces(e) : \E n \in InvocationAt(e, p).requires :
          /\ x = Error(p, n) /\ ~doesJobInvocationExist(Enclosing(e, p), n)
          /\ SameInvocation(d, e, p) => doesJobInvocationExist(Enclosing(d, p), n)
    BY <1>4 DEF NewRequireError
  <2>2. PICK n \in InvocationAt(e, p).requires :
          /\ x = Error(p, n) /\ ~doesJobInvocationExist(Enclosing(e, p), n)
          /\ SameInvocation(d, e, p) => doesJobInvocationExist(Enclosing(d, p), n)
    BY <2>1
  <2>3. x.at = p
    BY <2>2 DEF Error
  <2>4. p.kind = kind /\ p.of = w
    <3>1. ASSUME p.kind # kind \/ p.of # w PROVE FALSE
      <4>1. SameInvocation(d, e, p) /\ Enclosing(e, p) = Enclosing(d, p)
        BY <3>1, OtherPlaces
      <4> QED
        BY <2>2, <4>1
    <3> QED
      BY <3>1
  <2>5. /\ Enclosing(d, p) = s /\ Enclosing(e, p) = Append(s, inv)
        /\ p.at # Len(s) + 1 => SameInvocation(d, e, p)
    BY <2>4, PlacesInTheList
  <2> HIDE DEF s
  <2>6. doesJobInvocationExist(s, n) => doesJobInvocationExist(Append(s, inv), n)
    BY <1>1, AppendedList DEF doesJobInvocationExist
  <2> QED
    BY <2>2, <2>3, <2>4, <2>5, <2>6
<1>5. ~NewStepError(d, e, x)
  BY <1>2, StepsJudgedAlike DEF NewStepError, BodyPlaces, StepsAt
<1>6. ~NewExecutorError(d, e, x)
  BY <1>2, ExecutorsJudgedAlike DEF NewExecutorError, ExecutorPlaces, BodyPlaces
<1>7. ASSUME NewCycleError(d, e, x)
      PROVE  /\ x.at.kind = kind /\ x.at.of = w
             /\ \/ x.at.at = Len(s) + 1
                \/ /\ x.says = "cycle" /\ inv.name \in NotVisited(Append(s, inv))
                   /\ LedTo(Append(s, inv), inv.name, x.about)
  <2>1. PICK p \in InvocationPlaces(e) :
          /\ x = CycleError(p, InvocationAt(e, p).job)
          /\ InvocationAt(e, p).job \in NotVisited(Enclosing(e, p))
          /\ SameInvocation(d, e, p) => InvocationAt(d, p).job \notin NotVisited(Enclosing(d, p))
    BY <1>7 DEF NewCycleError
  <2>2. x.at = p /\ x.about = InvocationAt(e, p).job /\ x.says = "cycle"
    BY <2>1 DEF CycleError
  <2>3. p.kind = kind /\ p.of = w
    BY <2>1, OtherPlaces DEF SameInvocation
  <2>4. /\ Enclosing(d, p) = s /\ Enclosing(e, p) = Append(s, inv)
        /\ p.at # Len(s) + 1 => SameInvocation(d, e, p)
    BY <2>3, PlacesInTheList
  <2> HIDE DEF s
  <2>5. CASE p.at # Len(s) + 1
    <3>1. x.about \in NotVisited(Append(s, inv)) /\ x.about \notin NotVisited(s)
      BY <2>1, <2>2, <2>4, <2>5 DEF SameInvocation
    <3> QED
      BY <1>1, <2>2, <2>3, <3>1, NewlyNotVisited
  <2> QED
    BY <2>2, <2>3, <2>5
<1>8. Len(Append(s, inv)) = Len(s) + 1
  BY <1>1, AppendedList
<1> HIDE DEF s
<1>9. DueToInvocation(x, kind, w, inv, Append(s, inv))
  BY <1>3, <1>4, <1>5, <1>6, <1>7, <1>8, NewErrorCases DEF DueToInvocation
<1> QED
  BY <1>9 DEF s

(* What is added (parser and validator run after every edit) makes wrong: a  *)
(* job what is at its own place; an invocation its own place, those of the   *)
(* same job (InvokedTwice) and, once it closes a cycle, those it leads to    *)
(* (validateDAG); a group the invocations of its name; an imported orb       *)
(* nothing.                                                                *)
THEOREM AdditionsStayLocal == Spec => AdditionsErrLocally
<1>1. ASSUME TypeOK, NEW w \in Words, NEW job \in JobBodies, DefineJob(w, job),
             NEW x \in NewErrors
      PROVE  x.at = [kind |-> "job", of |-> w]
  <2>1. /\ w \notin DOMAIN doc.jobs
        /\ doc'.jobs = With(doc.jobs, w, job) /\ doc'.commands = doc.commands
        /\ doc'.executors = doc.executors /\ doc'.groups = doc.groups
        /\ doc'.workflows = doc.workflows /\ doc'.orbs = doc.orbs
    BY <1>1 DEF DefineJob, TypeOK, IsDocument
  <2> QED
    BY <1>1, <2>1, JobAdditionErrors DEF NewErrors
<1>2. ASSUME TypeOK, NEW w \in Words, NEW inv \in InvocationBodies, InvokeInWorkflow(w, inv),
             NEW x \in NewErrors
      PROVE  DueToInvocation(x, "workflow", w, inv, doc'.workflows[w])
  <2>1. /\ w \in DOMAIN doc.workflows
        /\ doc'.jobs = doc.jobs /\ doc'.commands = doc.commands
        /\ doc'.executors = doc.executors /\ doc'.groups = doc.groups
        /\ doc'.workflows = [doc.workflows EXCEPT ![w] = Append(@, inv)]
        /\ doc'.orbs = doc.orbs
    BY <1>2 DEF InvokeInWorkflow, TypeOK, IsDocument
  <2>2. Invoked(doc, doc', "workflow", w, inv) /\ inv \in Invocations
    BY <2>1, EditsAssumption DEF Invoked
  <2>3. doc.workflows[w] \in Seq(Invocations)
    BY <1>2, <2>1 DEF TypeOK, IsDocument, IsPartialFunction
  <2>4. doc'.workflows[w] = Append(Listed(doc, "workflow", w), inv)
    BY <2>1, <2>3 DEF Listed
  <2>5. x \in Errors(doc') /\ x \notin Errors(doc) /\ IsDocument(doc)
    BY <1>2 DEF NewErrors, TypeOK
  <2>6. DueToInvocation(x, "workflow", w, inv, Append(Listed(doc, "workflow", w), inv))
    BY <2>1, <2>2, <2>5, InvocationAdditionErrors
  <2> QED
    BY <2>4, <2>6
<1>3. ASSUME TypeOK, NEW w \in Words, NEW inv \in InvocationBodies, InvokeInGroup(w, inv),
             NEW x \in NewErrors
      PROVE  DueToInvocation(x, "group", w, inv, doc'.groups[w])
  <2>1. /\ w \in DOMAIN doc.groups
        /\ doc'.jobs = doc.jobs /\ doc'.commands = doc.commands
        /\ doc'.executors = doc.executors /\ doc'.workflows = doc.workflows
        /\ doc'.groups = [doc.groups EXCEPT ![w] = Append(@, inv)]
        /\ doc'.orbs = doc.orbs
    BY <1>3 DEF InvokeInGroup, TypeOK, IsDocument
  <2>2. Invoked(doc, doc', "group", w, inv) /\ inv \in Invocations
    BY <2>1, EditsAssumption DEF Invoked
  <2>3. doc.groups[w] \in Seq(Invocations)
    BY <1>3, <2>1 DEF TypeOK, IsDocument, IsPartialFunction
  <2>4. doc'.groups[w] = Append(Listed(doc, "group", w), inv)
    BY <2>1, <2>3 DEF Listed
  <2>5. x \in Errors(doc') /\ x \notin Errors(doc) /\ IsDocument(doc)
    BY <1>3 DEF NewErrors, TypeOK
  <2>6. DueToInvocation(x, "group", w, inv, Append(Listed(doc, "group", w), inv))
    BY <2>1, <2>2, <2>5, InvocationAdditionErrors
  <2> QED
    BY <2>4, <2>6
<1>4. ASSUME TypeOK, NEW w \in Words, DefineGroup(w), NEW x \in NewErrors
      PROVE  x.about = Plain(w)
  <2>1. /\ doc'.jobs = doc.jobs /\ doc'.commands = doc.commands
        /\ doc'.executors = doc.executors /\ doc'.groups = With(doc.groups, w, <<>>)
        /\ doc'.workflows = doc.workflows /\ doc'.orbs = doc.orbs
    BY <1>4 DEF DefineGroup, TypeOK, IsDocument
  <2> QED
    BY <1>4, <2>1, GroupAdditionErrors DEF NewErrors, TypeOK
<1>5. ASSUME TypeOK, NEW o \in OrbNames, ImportOrb(o)
      PROVE  NewErrors = {}
  <2>1. /\ doc'.jobs = doc.jobs /\ doc'.commands = doc.commands
        /\ doc'.executors = doc.executors /\ doc'.groups = doc.groups
        /\ doc'.workflows = doc.workflows /\ doc'.orbs = doc.orbs \union {o}
    BY <1>5 DEF ImportOrb, TypeOK, IsDocument
  <2> QED
    BY <2>1, OrbAdditionErrors DEF NewErrors
<1> DEFINE Local ==
      /\ \A w \in Words :
           /\ \A job \in JobBodies :
                DefineJob(w, job) => \A e \in NewErrors : e.at = [kind |-> "job", of |-> w]
           /\ \A inv \in InvocationBodies :
                /\ InvokeInWorkflow(w, inv) =>
                     \A e \in NewErrors : DueToInvocation(e, "workflow", w, inv, doc'.workflows[w])
                /\ InvokeInGroup(w, inv) =>
                     \A e \in NewErrors : DueToInvocation(e, "group", w, inv, doc'.groups[w])
           /\ DefineGroup(w) => \A e \in NewErrors : e.about = Plain(w)
      /\ \A o \in OrbNames : ImportOrb(o) => NewErrors = {}
<1>6. TypeOK => Local
  BY <1>1, <1>2, <1>3, <1>4, <1>5, Zenon
<1>7. Spec => [][Local]_doc
  BY <1>6, TypeCorrect, PTL
<1> QED
  BY <1>7 DEF AdditionsErrLocally
=============================================================================
