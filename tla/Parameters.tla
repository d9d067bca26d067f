----------------------------- MODULE Parameters -----------------------------
(***************************************************************************)
(* The parameters of a configuration as the parser leaves them             *)
(* (pkg/parser/parameters.go, steps.go, executors.go, job_invocation.go):  *)
(* who declares what, and which values calls give.  A value is told from   *)
(* others by its kind in the YAML tree, texts by a word; ranges are kept   *)
(* only as the entity a text is in and the keys above it.                  *)
(*                                                                         *)
(* Left out: orbs (ConfigDocument), aliases inside values, references in    *)
(* lists, and lines that hold two references.                              *)
(***************************************************************************)
EXTENDS Naturals, Sequences, FiniteSets

CONSTANTS
  ParamNames,    \* names of parameters
  EntityNames,   \* names of jobs, commands and executors
  Words,         \* what a plain text may say, names of executors included
  None           \* nothing written

ASSUME NoneAssumption == None \notin Words \union ParamNames \union EntityNames

Types == {"string", "boolean", "integer", "enum", "executor", "steps", "env_var_name"}
Scopes == {"parameters", "pipeline.parameters"}

(* Values.  "number": any scalar that is neither text, boolean nor an       *)
(* integer Atoi takes; "nothing": a key with no value.                      *)
Text(w) == [kind |-> "text", word |-> w]
Scalar(k) == [kind |-> k]
ListOf(items) == [kind |-> "list", items |-> items]
MapOf(name) == [kind |-> "map", name |-> name]      \* what its key `name' holds, or None
(* << scope.name >>: the whole text or a part of it, in quotes or not.       *)
Ref(scope, n, whole, quoted) ==
  [kind |-> "reference", scope |-> scope, name |-> n, whole |-> whole, quoted |-> quoted]
References == {Ref(s, n, w, q) : s \in Scopes, n \in ParamNames, w \in BOOLEAN, q \in BOOLEAN}

IsReference(v) == v.kind = "reference"
(* CheckIfOnlyParamUsed *)
CheckIfOnlyParamUsed(v) == IsReference(v) /\ v.whole

(* The Type of the ast.ParameterValue; items of a list that are mappings    *)
(* are steps.                                                              *)
ValueType(v) ==
  CASE v.kind \in {"text", "reference"} -> "string"
    [] v.kind = "list" -> "enum"
    [] v.kind = "step" -> "steps"
    [] v.kind = "flow mapping" -> ""
    [] OTHER -> v.kind             \* boolean, integer, map, alias

(* parseParameterValue: what it returns an error for is dropped.            *)
parseParameterValue(v) == IF v.kind \in {"number", "nothing"} THEN None ELSE v
Given(args) == [n \in {m \in DOMAIN args : parseParameterValue(args[m]) # None} |-> args[n]]
Items(list) == {v \in list.items : parseParameterValue(v) # None}
-----------------------------------------------------------------------------
(* Declarations: what is written under the name of a parameter.             *)
Declared(type, enum, default) == [type |-> type, enum |-> enum, default |-> default]

GetType(p) == IF p.type \in Types THEN p.type ELSE "string"

(* HasDefault, IsOptional *)
IsOptional(p) ==
  /\ p.default # None
  /\ CASE p.type = "integer" -> p.default.kind = "integer"
       [] p.type = "steps" -> p.default.kind = "list"
       [] OTHER -> p.type \in Types

DefaultWord(p) == IF IsOptional(p) /\ p.default.kind = "text" THEN p.default.word ELSE None

(* checkEnumTypeDefinition, and the same check when it is parsed.            *)
checkEnumTypeDefinition(p) ==
  p.type = "enum" /\ IsOptional(p) => p.default.kind = "text" /\ p.default.word \in p.enum
-----------------------------------------------------------------------------
(* Steps, as written.  A step of any other key holds nothing the validator   *)
(* looks at.                                                               *)
Call(n, args) == [kind |-> "call", name |-> n, args |-> args]
Run(text, when) == [kind |-> "run", text |-> text, when |-> when]
StepsFrom(n) == [kind |-> "steps", name |-> n]      \* steps: << parameters.n >>
OtherStep == [kind |-> "other"]
KeyOnly(n) == [kind |-> "key", name |-> n]          \* a key and a colon
When(steps) == [kind |-> "when", steps |-> steps]   \* `when' and `unless'

(* parseStep, for steps that hold no others: a key without a value is no     *)
(* step, a call keeps the arguments that parse.                             *)
parseStep(s) ==
  CASE s.kind = "key" -> {}
    [] s.kind = "call" -> {Call(s.name, Given(s.args))}
    [] OTHER -> {s}

(* parseSteps, parseWhenUnlessStep: the steps of `when' take its place.      *)
parseSteps(steps) ==
  UNION {IF s.kind = "when" THEN UNION {parseStep(t) : t \in s.steps} ELSE parseStep(s) : s \in steps}

NoArguments == [n \in {} |-> None]

(* An executor a job names: parseExecutorRef.                               *)
Executor(name, args) == [name |-> name, args |-> args]

Body(parameters, steps, executor, texts) ==
  [parameters |-> parameters, steps |-> steps, executor |-> executor, texts |-> texts]
(* An invocation of a job; matrix: the values of its matrix.                *)
Invocation(job, args, matrix) == [job |-> job, args |-> args, matrix |-> matrix]

Place(kind, name) == [kind |-> kind, name |-> name]
EntityPlaces == {Place(k, n) : k \in {"job", "command", "executor"}, n \in EntityNames}
Pipeline == Place("pipeline", None)
Workflow == Place("workflow", None)

(* d.pipeline: pipeline parameters; d.entities: a body per job, command and  *)
(* executor; d.invocations: those of the workflows.                        *)
Entities(d, kind) == {p.name : p \in {q \in DOMAIN d.entities : q.kind = kind}}
ParametersAt(d, p) ==
  IF p = Pipeline THEN d.pipeline
  ELSE IF p \in DOMAIN d.entities THEN d.entities[p].parameters ELSE NoArguments
StepsAt(d, p) == parseSteps(d.entities[p].steps)
CallsAt(d, p) == {s \in StepsAt(d, p) : s.kind = "call"}

(* GetDefinedParams *)
GetDefinedParams(d, n) ==
  IF n \in Entities(d, "job") THEN ParametersAt(d, Place("job", n))
                              ELSE ParametersAt(d, Place("command", n))
=============================================================================
