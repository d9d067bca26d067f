-------------------------- MODULE ConfigNavigation --------------------------
(***************************************************************************)
(* What the language features say about the same names: where a name is    *)
(* defined (pkg/services/definition), where a definition is referenced     *)
(* (pkg/services/references.go), and what is proposed where a name is      *)
(* expected (pkg/services/complete).                                       *)
(***************************************************************************)
EXTENDS ConfigValidation

\* mutation: commands are looked at although invocations cannot name them
DefinedAnyhow(d, n, includeCommands) ==
  IF DoesJobExist(d, n) THEN "job"
  ELSE IF DoesJobGroupExist(d, n) THEN "group"
  ELSE IF DoesCommandExist(d, n) THEN "command"
  ELSE IF IsOrbReference(d, n) /\ IsOrbCommand(d, n) THEN "orb command"
  ELSE IF IsOrbReference(d, n) /\ IsOrbJob(d, n) THEN "orb job"
  ELSE "nothing"
\* getCommandOrJobLocation, getOrbCommandOrJobLocation: the first that matches
DefinedAs(d, n, includeCommands) ==
  IF DoesJobExist(d, n) THEN "job"
  ELSE IF DoesJobGroupExist(d, n) THEN "group"
  ELSE IF DoesCommandExist(d, n) /\ includeCommands THEN "command"
  ELSE IF IsOrbReference(d, n) /\ IsOrbCommand(d, n) THEN "orb command"
  ELSE IF IsOrbReference(d, n) /\ IsOrbJob(d, n) THEN "orb job"
  ELSE "nothing"
-----------------------------------------------------------------------------
\* mutation: the steps of commands are forgotten
NotInCommands(d) ==
  {Error(p, InvocationAt(d, p).job) : p \in {q \in InvocationPlaces(d) : q.kind = "workflow"}}
  \union UNION {{Error(p, n) : n \in StepsAt(d, p)} : p \in {q \in BodyPlaces(d) : q.kind = "job"}}
(* getStepsOfWorkflows, getStepsOfJobs, getStepsOfCommands: job groups are  *)
(* not looked at.                                                          *)
FoundSteps(d) ==
  {Error(p, InvocationAt(d, p).job) : p \in {q \in InvocationPlaces(d) : q.kind = "workflow"}}
  \union UNION {{Error(p, n) : n \in StepsAt(d, p)} : p \in BodyPlaces(d)}

getReferenceFromSteps(d, w) == {r \in FoundSteps(d) : r.about = Plain(w)}

\* asked of a local orb, GetReferences turns to the orb's own text
OrbReferences(d, o) ==
  {r \in FoundSteps(d) : o \notin LocalOrbs /\ (r.about.orb = o \/ r.about = Plain(o))}

getExecutorReferences(d, w) ==
  {Error(p, Plain(w)) : p \in {q \in ExecutorPlaces(d) : d.jobs[q.of].executor = Plain(w)}}
-----------------------------------------------------------------------------
OrbsHave(d, kind) ==
  {n \in Names : n.orb \in d.orbs /\ OrbHas(d, n, kind)}

ProposedJobs(d) == {Plain(w) : w \in DOMAIN d.jobs} \union OrbsHave(d, "jobs")

\* mutation: groups are proposed inside groups
GroupsAnywhere(d, kind) == ProposedJobs(d) \union {Plain(w) : w \in DOMAIN d.groups}
(* completeWorkflows, completeJobGroups                                    *)
ProposedInvocations(d, kind) ==
  ProposedJobs(d) \union
  (IF kind = "workflow" THEN {Plain(w) : w \in DOMAIN d.groups} ELSE {})

(* completeSteps, in jobs as in commands                                   *)
ProposedSteps(d) ==
  {Plain(w) : w \in DOMAIN d.commands \union BuiltIn}
  \union ProposedJobs(d) \union OrbsHave(d, "commands")

addExecutorsCompletion(d) ==
  {Plain(w) : w \in d.executors} \union OrbsHave(d, "executors")
=============================================================================
