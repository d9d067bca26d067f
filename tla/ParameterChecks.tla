--------------------------- MODULE ParameterChecks ---------------------------
(***************************************************************************)
(* What the server says about parameters: the validator                    *)
(* (pkg/parser/validate/parameters.go, steps.go, jobs.go,                  *)
(* job_invocation.go), go-to-definition, references and completion.        *)
(***************************************************************************)
EXTENDS Parameters

(* The texts that refer to parameters: where, and under which names.  The    *)
(* keys of the sections and of steps are no names of entities.              *)
Occurrence(at, ref, path) == [at |-> at, ref |-> ref, path |-> path]

RefsIn(v) ==
  CASE v = None -> {}
    [] v.kind = "reference" -> {v}
    [] v.kind = "map" /\ v.name # None -> {w \in {v.name} : w.kind = "reference"}
    [] OTHER -> {}

InArguments(at, path, args) ==
  UNION {{Occurrence(at, r, Append(path, n)) : r \in RefsIn(args[n])} : n \in DOMAIN args}
InDefaults(at, path, parameters) ==
  UNION {{Occurrence(at, r, Append(path, n)) : r \in RefsIn(parameters[n].default)} :
           n \in DOMAIN parameters}

InStep(at, s) ==
  CASE s.kind = "call" -> InArguments(at, <<at.name, s.name>>, s.args)
    [] s.kind = "run" -> {Occurrence(at, r, <<at.name>>) : r \in RefsIn(s.text) \union RefsIn(s.when)}
    [] s.kind = "steps" -> {Occurrence(at, Ref("parameters", s.name, TRUE, FALSE), <<at.name>>)}
    [] OTHER -> {}

(* The steps as written: what is dropped when it is parsed is still text.    *)
Written(steps) == UNION {IF s.kind = "when" THEN s.steps ELSE {s} : s \in steps}

InEntity(d, p) ==
  LET b == d.entities[p]
  IN  InDefaults(p, <<p.name>>, b.parameters)
      \union (UNION {InStep(p, s) : s \in Written(b.steps)})
      \union {Occurrence(p, r, <<p.name>>) : r \in b.texts}
      \union (IF b.executor = None THEN {}
              ELSE {Occurrence(p, r, <<p.name>>) : r \in RefsIn(b.executor.name)}
                   \union InArguments(p, <<p.name>>, b.executor.args))

Occurrences(d) ==
  InDefaults(Pipeline, <<>>, d.pipeline)
  \union (UNION {InEntity(d, p) : p \in DOMAIN d.entities})
  \union (UNION {InArguments(Workflow, <<i.job>>, i.args) : i \in d.invocations})
-----------------------------------------------------------------------------
\* mutation: the position is not looked at
OfAnyEntity(d, at) == UNION {DOMAIN ParametersAt(d, p) : p \in DOMAIN d.entities}
(* GetParamsWithPosition: those of the command, job or executor the position *)
(* is in, and none anywhere else.                                          *)
GetParamsWithPosition(d, at) ==
  IF at \in DOMAIN d.entities THEN DOMAIN ParametersAt(d, at) ELSE {}

(* CheckIfParamsExist; texts in quotes are not looked at.                   *)
IsUndefined(d, o) ==
  /\ ~o.ref.quoted
  /\ o.ref.name \notin IF o.ref.scope = "pipeline.parameters"
                         THEN DOMAIN d.pipeline ELSE GetParamsWithPosition(d, o.at)
UndefinedReferences(d) == {o \in Occurrences(d) : IsUndefined(d, o)}

\* mutation: references to pipeline parameters are not looked for
LocalReferences(d, at, n) ==
  {o \in Occurrences(d) : (at # Pipeline => o.at = at) /\ o.ref.name = n /\ o.ref.scope = "parameters"}
(* getParamReferences: by name, in the text of what declares the parameter;  *)
(* in the whole file when it is a pipeline parameter.                       *)
getParamReferences(d, at, n) ==
  {o \in Occurrences(d) : (at # Pipeline => o.at = at) /\ o.ref.name = n}

(* The kinds of an entity, in the order searchParamDefinition looks for it:   *)
(* the first there is decides.                                             *)
KindsInOrder == <<"command", "job", "executor">>
EntityNamed(d, name) ==
  LET Is(i) == Place(KindsInOrder[i], name) \in DOMAIN d.entities
  IN  IF \E i \in 1..3 : Is(i)
        THEN Place(KindsInOrder[CHOOSE i \in 1..3 : Is(i) /\ \A j \in 1..(i - 1) : ~Is(j)], name)
        ELSE Workflow

(* The innermost name on the path whose entity declares the parameter;       *)
(* Workflow stands for nothing found.                                      *)
Declares(d, name, n) == n \in DOMAIN ParametersAt(d, EntityNamed(d, name))
OnPath(d, o) ==
  LET Found == {i \in DOMAIN o.path : Declares(d, o.path[i], o.ref.name)}
  IN  IF Found = {} THEN Workflow
      ELSE EntityNamed(d, o.path[CHOOSE i \in Found : \A j \in Found : j <= i])

\* mutation: the scope of the reference is not looked at
ByNameOnly(d, o) ==
  IF OnPath(d, o) = Workflow /\ o.ref.name \in DOMAIN d.pipeline THEN Pipeline ELSE OnPath(d, o)
searchParamDefinition(d, o) ==
  IF o.ref.scope = "pipeline.parameters" /\ o.ref.name \in DOMAIN d.pipeline
    THEN Pipeline ELSE OnPath(d, o)
-----------------------------------------------------------------------------
(* checkExecutorParamValue, validateExecutorReference: a value of any other   *)
(* type stands for the executor "".                                        *)
NamesExecutor(d, v) ==
  v # None /\ v.kind = "text" /\ v.word \in Entities(d, "executor")
ExecutorValue(d, v) == IF v.kind = "map" THEN NamesExecutor(d, v.name) ELSE NamesExecutor(d, v)

StepsValue(d, v) ==
  /\ v.kind = "list"
  /\ \A i \in Items(v) :
       \/ ValueType(i) = "steps"
       \/ i.kind = "text" /\ i.word \in Entities(d, "command")

(* checkParamType: a text that mentions a parameter is judged by the pipeline *)
(* parameter of that name, whatever its scope, and let through without one.  *)
SimpleValue(d, p, v) ==
  IF IsReference(v)
    THEN v.name \in DOMAIN d.pipeline => GetType(d.pipeline[v.name]) = GetType(p)
    ELSE ValueType(v) = GetType(p)

(* checkParamSimpleType *)
AcceptsValue(d, p, v) ==
  CASE GetType(p) = "enum" -> v.kind = "text" /\ v.word \in p.enum
    [] GetType(p) = "executor" -> ExecutorValue(d, v)
    [] GetType(p) = "steps" -> StepsValue(d, v)
    [] GetType(p) = "env_var_name" -> ValueType(v) \in {"string", "integer"}
    [] OTHER -> SimpleValue(d, p, v)

\* mutation: a string takes any parameter
IntoString(p, q) == GetType(p) \in {GetType(q), "string"}
SameType(p, q) == GetType(p) = GetType(q) \/ (GetType(p) = "string" /\ GetType(q) = "enum")

(* checkParamUsedWithParam: parameters that do not exist are reported        *)
(* elsewhere.                                                              *)
AcceptsReference(d, p, v, usable) ==
  LET params == IF v.scope = "pipeline.parameters" THEN d.pipeline ELSE usable
  IN  v.name \in DOMAIN params => SameType(p, params[v.name])

Error(what, at, entity, name) == [what |-> what, at |-> at, entity |-> entity, name |-> name]

Missing(parameters, args) ==
  {n \in DOMAIN parameters : ~IsOptional(parameters[n]) /\ n \notin DOMAIN args}
Unknown(parameters, args) == DOMAIN args \ DOMAIN parameters
Both(parameters, args) == DOMAIN parameters \intersect DOMAIN args

(* validateParametersValue: a call at a place, whose own parameters are the   *)
(* ones its arguments may use.                                             *)
Fits(d, p, v, usable) ==
  IF CheckIfOnlyParamUsed(v) THEN AcceptsReference(d, p, v, usable) ELSE AcceptsValue(d, p, v)
ArgumentErrors(d, at, entity, parameters, args) ==
  LET Each(what, names) == {Error(what, at, entity, n) : n \in names}
  IN  Each("required", Missing(parameters, args))
      \union Each("not defined", Unknown(parameters, args))
      \union Each("wrong value",
             {n \in Both(parameters, args) : ~Fits(d, parameters[n], args[n], ParametersAt(d, at))})

(* validateNamedStep; orbs and built-in steps are left out.                 *)
CallErrors(d, at, s) ==
  (IF s.name \in Entities(d, "job") \union Entities(d, "command") THEN {}
   ELSE {Error("no declaration", at, s.name, None)})
  \union ArgumentErrors(d, at, s.name, GetDefinedParams(d, s.name), s.args)

(* validateStepSteps: the command that goes by the name of the entity.       *)
StepsFromErrors(d, at, s) ==
  LET params == ParametersAt(d, Place("command", at.name))
  IN  IF s.name \in DOMAIN params /\ GetType(params[s.name]) # "steps"
        THEN {Error("not steps", at, at.name, s.name)} ELSE {}

WhenKeywords == {"on_success", "always", "on_fail"}
ASSUME KeywordAssumption == None \notin WhenKeywords

\* mutation: nothing is said of a parameter without a default
SkipsRequired(d, at, v) ==
  LET params == IF v.scope = "pipeline.parameters" THEN d.pipeline ELSE ParametersAt(d, at)
  IN  /\ v.name \in DOMAIN params /\ IsOptional(params[v.name])
      /\ ~(GetType(params[v.name]) = "string" /\ DefaultWord(params[v.name]) \in WhenKeywords)
(* The `when' of a run step that is a parameter is judged by its default: the *)
(* value of one without is "".                                             *)
WhenParameterIsBad(d, at, v) ==
  LET params == IF v.scope = "pipeline.parameters" THEN d.pipeline ELSE ParametersAt(d, at)
  IN  /\ v.name \in DOMAIN params
      /\ ~(GetType(params[v.name]) = "string" /\ DefaultWord(params[v.name]) \in WhenKeywords)

WhenErrors(d, at, v) ==
  IF v = None \/ (IF CheckIfOnlyParamUsed(v) THEN ~WhenParameterIsBad(d, at, v)
                  ELSE v.kind = "text" /\ v.word \in WhenKeywords)
    THEN {} ELSE {Error("when", at, at.name, None)}

(* The executor of a job.  One that is a parameter is looked for among the    *)
(* job's, and only a parameter of type executor is looked at.              *)
ExecutorErrors(d, at, e) ==
  LET params == ParametersAt(d, at)
      n == e.name.name
  IN  IF CheckIfOnlyParamUsed(e.name)
        THEN IF n \in DOMAIN params /\ GetType(params[n]) = "executor" /\ IsOptional(params[n])
                  /\ ~NamesExecutor(d, params[n].default)
               THEN {Error("executor", at, at.name, n)} ELSE {}
      ELSE IF ~NamesExecutor(d, e.name) THEN {Error("executor", at, at.name, None)}
      ELSE ArgumentErrors(d, at, e.name.word, ParametersAt(d, Place("executor", e.name.word)), Given(e.args))

(* validateSteps *)
StepErrors(d, at, s) ==
  CASE s.kind = "call" -> CallErrors(d, at, s)
    [] s.kind = "run" -> WhenErrors(d, at, s.when)
    [] s.kind = "steps" -> StepsFromErrors(d, at, s)
    [] OTHER -> {}

EntityErrors(d, p) ==
  (UNION {StepErrors(d, p, s) : s \in StepsAt(d, p)})
  \union (IF d.entities[p].executor = None THEN {} ELSE ExecutorErrors(d, p, d.entities[p].executor))

(* validateJobInvocationParameters: a parameter of the matrix takes a list,   *)
(* whose items are judged one by one, or an alias.                         *)
MatrixAccepts(d, p, v) ==
  IF v.kind = "list" THEN \A i \in Items(v) : AcceptsValue(d, p, i) ELSE v.kind = "alias"
InvocationErrors(d, i) ==
  LET params == GetDefinedParams(d, i.job)
      args == Given(i.args)
      matrix == Given(i.matrix)
      Bad(n) == IF n \in DOMAIN matrix THEN ~MatrixAccepts(d, params[n], matrix[n])
                                       ELSE ~AcceptsValue(d, params[n], args[n])
      Each(what, names) == {Error(what, Workflow, i.job, n) : n \in names}
  IN  IF i.job \notin Entities(d, "job") THEN {Error("no declaration", Workflow, i.job, None)}
      ELSE Each("required", Missing(params, args) \ DOMAIN matrix)
           \union Each("not defined", Unknown(params, args))
           \union Each("wrong value",
                  {n \in DOMAIN params \intersect (DOMAIN args \union DOMAIN matrix) : Bad(n)})

EnumErrors(d) ==
  UNION {LET params == ParametersAt(d, p)
         IN  {Error("enum", p, p.name, n) : n \in {m \in DOMAIN params : ~checkEnumTypeDefinition(params[m])}} :
           p \in DOMAIN d.entities \union {Pipeline}}

Errors(d) ==
  EnumErrors(d)
  \union {Error("undefined", o.at, None, o.ref.name) : o \in UndefinedReferences(d)}
  \union (UNION {EntityErrors(d, p) : p \in DOMAIN d.entities})
  \union (UNION {InvocationErrors(d, i) : i \in d.invocations})
-----------------------------------------------------------------------------
(* addParametersDefinitionCompletion: what is offered for a default.         *)
CompletedDefaults(d, p) ==
  CASE GetType(p) = "enum" -> {Text(w) : w \in p.enum}
    [] GetType(p) = "boolean" -> {Scalar("boolean")}
    [] GetType(p) = "executor" -> {Text(n) : n \in Entities(d, "executor")}
    [] OTHER -> {}

\* mutation: the parameters of every entity are offered
CompletedAnywhere(d, at, scope) ==
  IF scope = "pipeline.parameters" THEN DOMAIN d.pipeline ELSE OfAnyEntity(d, at)
(* addParameterReferenceCompletion: what is offered after `parameters.' and   *)
(* `pipeline.parameters.'.                                                 *)
CompletedNames(d, at, scope) ==
  IF scope = "pipeline.parameters" THEN DOMAIN d.pipeline ELSE GetParamsWithPosition(d, at)
=============================================================================
