--------------------------- MODULE ConfigDocument ---------------------------
(***************************************************************************)
(* A parsed configuration (YamlDocument, pkg/parser/yamlparser.go): what   *)
(* it defines by name, what refers to those names, and the questions the   *)
(* rest of the server asks about a name.  Positions, texts and parameters, *)
(* with the steps given as parameters, are left out.                       *)
(*                                                                         *)
(* A name with one slash is split into the orb and the rest; names with    *)
(* more slashes are left out.  Steps are those that name a command, a job or *)
(* a built-in; what run and checkout steps hold is left out.               *)
(***************************************************************************)
EXTENDS Naturals, Sequences, FiniteSets

CONSTANTS
  Words,          \* names without a slash
  OrbNames,       \* names orbs may go by
  NoOrb,          \* the orb of a name without a slash
  None,           \* no executor
  BuiltIn,        \* steps every configuration has
  OrbInfo,        \* what the server obtains of the orb of each name:
  Unknown,        \* its jobs, commands and executors, or nothing
  LocalOrbs,      \* orbs written out in the configuration itself
  Parameterised   \* orbs whose version is a pipeline parameter

ASSUME OrbNamesAssumption == OrbNames \subseteq Words /\ NoOrb \notin OrbNames
ASSUME ParameterisedAssumption ==
  \A o \in Parameterised : o \notin LocalOrbs /\ OrbInfo[o] = Unknown

Names == [orb : OrbNames \union {NoOrb}, word : Words]
Plain(w) == [orb |-> NoOrb, word |-> w]
InOrb(o, w) == [orb |-> o, word |-> w]

Jobs == [steps : SUBSET Names, executor : Names \union {None}]

(* `name:' and `alias:' of the matrix set another name than the job's.      *)
(* steps: pre-steps and post-steps.  keys: the other keys the validator      *)
(* looks at.                                                               *)
Keys == {"matrix", "override-with", "context", "parameters", "serial-group"}
Invocations ==
  [job : Names, name : Names, requires : SUBSET Names,
   type : {"", "approval", "other"}, steps : SUBSET Names, keys : SUBSET Keys]

IsPartialFunction(f, S, T) == DOMAIN f \subseteq S /\ f \in [DOMAIN f -> T]

IsDocument(d) ==
  /\ d = [jobs |-> d.jobs, commands |-> d.commands, executors |-> d.executors,
          groups |-> d.groups, workflows |-> d.workflows, orbs |-> d.orbs]
  /\ IsPartialFunction(d.jobs, Words, Jobs)
  /\ IsPartialFunction(d.commands, Words, SUBSET Names)
  /\ d.executors \subseteq Words /\ d.orbs \subseteq OrbNames
  /\ IsPartialFunction(d.groups, Words, Seq(Invocations))
  /\ IsPartialFunction(d.workflows, Words, Seq(Invocations))

EmptyDocument ==
  [jobs |-> <<>>, commands |-> <<>>, executors |-> {},
   groups |-> <<>>, workflows |-> <<>>, orbs |-> {}]
-----------------------------------------------------------------------------
IsOrbReference(d, n) == n.orb # NoOrb /\ n.orb \in d.orbs

CouldBeOrbReference(n) == n.orb # NoOrb

IsFromUnfetchableOrb(d, n) == IsOrbReference(d, n) /\ n.orb \in Parameterised

(* GetOrbInfoFromName, GetOrFetchOrbInfo: local orbs are looked up first.   *)
GetOrbInfoFromName(d, o) == IF o \in d.orbs THEN OrbInfo[o] ELSE Unknown

OrbHas(d, n, kind) ==
  /\ n.orb # NoOrb
  /\ GetOrbInfoFromName(d, n.orb) # Unknown
  /\ n.word \in GetOrbInfoFromName(d, n.orb)[kind]
IsOrbCommand(d, n) == OrbHas(d, n, "commands")
IsOrbJob(d, n) == OrbHas(d, n, "jobs")

IsBuiltIn(n) == n.orb = NoOrb /\ n.word \in BuiltIn

DoesJobExist(d, n) == n.orb = NoOrb /\ n.word \in DOMAIN d.jobs
DoesJobGroupExist(d, n) == n.orb = NoOrb /\ n.word \in DOMAIN d.groups
DoesCommandExist(d, n) == n.orb = NoOrb /\ n.word \in DOMAIN d.commands
DoesExecutorExist(d, n) == n.orb = NoOrb /\ n.word \in d.executors

(* The groups it may return: it ranges over a map.                         *)
FindJobGroupContainingJob(d, n) ==
  {g \in DOMAIN d.groups : \E i \in DOMAIN d.groups[g] : d.groups[g][i].job = n}
-----------------------------------------------------------------------------
(* Where names are used: the invocations of workflows and groups, and the   *)
(* bodies of jobs and commands.                                            *)
PlacesIn(kind, name, invs) == [kind : {kind}, of : {name}, at : DOMAIN invs]
WorkflowPlaces(d) ==
  UNION {PlacesIn("workflow", w, d.workflows[w]) : w \in DOMAIN d.workflows}
GroupPlaces(d) == UNION {PlacesIn("group", g, d.groups[g]) : g \in DOMAIN d.groups}
InvocationPlaces(d) == WorkflowPlaces(d) \union GroupPlaces(d)

Enclosing(d, p) == IF p.kind = "workflow" THEN d.workflows[p.of] ELSE d.groups[p.of]
InvocationAt(d, p) == Enclosing(d, p)[p.at]

BodyPlaces(d) ==
  [kind : {"job"}, of : DOMAIN d.jobs] \union [kind : {"command"}, of : DOMAIN d.commands]
StepsAt(d, p) == IF p.kind = "job" THEN d.jobs[p.of].steps ELSE d.commands[p.of]
=============================================================================
