-------------------------- MODULE ParameterEditing --------------------------
(***************************************************************************)
(* A configuration whose parameters the user edits.  Every edit is followed  *)
(* by a parse (ParseFromContent), so the document is the state and what the  *)
(* server says about it is a function of it (ParameterChecks).              *)
(***************************************************************************)
EXTENDS ParameterChecks

CONSTANTS
  Opened,         \* the documents the user may start with
  Declarations,   \* what may be written as a parameter,
  Values,         \* as an argument,
  Steps,          \* as a step,
  Executors,      \* as the executor of a job,
  Invocations,    \* and in a workflow
  MaxItems        \* bound: what may be added to the document opened

ASSUME MaxItemsAssumption == MaxItems \in Nat

(* References in lists are left out (Parameters), so in a matrix too.          *)
PlainMatrix(i) ==
  \A n \in DOMAIN i.matrix :
    i.matrix[n].kind = "list" => \A v \in i.matrix[n].items : ~IsReference(v)

ASSUME InvocationsAssumption == \A i \in Invocations : PlainMatrix(i)

(* Documents the parser produces.                                          *)
Parsed(d) ==
  /\ DOMAIN d = {"pipeline", "entities", "invocations"}
  /\ DOMAIN d.pipeline \subseteq ParamNames
  /\ DOMAIN d.entities \subseteq EntityPlaces
  /\ \A p \in DOMAIN d.entities :
       /\ DOMAIN d.entities[p] = {"parameters", "steps", "executor", "texts"}
       /\ DOMAIN d.entities[p].parameters \subseteq ParamNames
  /\ \A i \in d.invocations : PlainMatrix(i)

ASSUME OpenedAssumption == \A d \in Opened : Parsed(d)

VARIABLE doc

WithName(f, n, v) == [m \in DOMAIN f \union {n} |-> IF m = n THEN v ELSE f[m]]
WithoutName(f, n) == [m \in DOMAIN f \ {n} |-> f[m]]

Declarers(d) == DOMAIN d.entities \union {Pipeline}

(* The arguments of calls are not counted.                                 *)
Size(d) ==
  Cardinality(UNION {{<<p, n>> : n \in DOMAIN ParametersAt(d, p)} : p \in Declarers(d)})
  + Cardinality(UNION {{<<p, s>> : s \in d.entities[p].steps} : p \in DOMAIN d.entities})
  + Cardinality({p \in DOMAIN d.entities : d.entities[p].executor # None})
  + Cardinality(UNION {{<<p, r>> : r \in d.entities[p].texts} : p \in DOMAIN d.entities})
  + Cardinality(d.invocations)

Init == doc \in Opened

Grows == Size(doc') <= MaxItems

(* parseSingleParameter; one whose type is not known is kept as a string.    *)
Declare(p, n, q) ==
  /\ doc' = IF p = Pipeline THEN [doc EXCEPT !.pipeline = WithName(@, n, q)]
            ELSE [doc EXCEPT !.entities[p].parameters = WithName(@, n, q)]
  /\ Grows

Undeclare(p, n) ==
  /\ n \in DOMAIN ParametersAt(doc, p)
  /\ doc' = IF p = Pipeline THEN [doc EXCEPT !.pipeline = WithoutName(@, n)]
            ELSE [doc EXCEPT !.entities[p].parameters = WithoutName(@, n)]

(* The user takes one of the defaults the server offers.                     *)
CompleteDefault(p, n) ==
  /\ n \in DOMAIN ParametersAt(doc, p) /\ ParametersAt(doc, p)[n].default = None
  /\ \E v \in CompletedDefaults(doc, ParametersAt(doc, p)[n]) :
       Declare(p, n, [ParametersAt(doc, p)[n] EXCEPT !.default = v])

HasSteps(p) == p \in DOMAIN doc.entities /\ p.kind # "executor"

AddStep(p, s) ==
  /\ HasSteps(p)
  /\ doc' = [doc EXCEPT !.entities[p].steps = @ \union {s}]
  /\ Grows

RemoveStep(p, s) ==
  /\ s \in doc.entities[p].steps
  /\ doc' = [doc EXCEPT !.entities[p].steps = @ \ {s}]

Replace(p, s, t) == doc' = [doc EXCEPT !.entities[p].steps = (@ \ {s}) \union {t}]

(* An argument of a call is written or removed.                             *)
Assign(p, s, n, v) ==
  /\ HasSteps(p) /\ s \in doc.entities[p].steps /\ s.kind = "call"
  /\ Replace(p, s, Call(s.name, WithName(s.args, n, v)))
  /\ Grows

Unassign(p, s, n) ==
  /\ s \in doc.entities[p].steps /\ s.kind = "call" /\ n \in DOMAIN s.args
  /\ Replace(p, s, Call(s.name, WithoutName(s.args, n)))

NameExecutor(p, e) ==
  /\ p \in DOMAIN doc.entities /\ p.kind = "job"
  /\ doc' = [doc EXCEPT !.entities[p].executor = e]
  /\ Grows

(* A parameter is mentioned in, or erased from, some other text: the image of *)
(* an executor, an environment variable.  A name completed is such a text.   *)
Mention(p, r) ==
  /\ p \in DOMAIN doc.entities
  /\ doc' = [doc EXCEPT !.entities[p].texts = @ \union {r}]
  /\ Grows

Erase(p, r) ==
  /\ r \in doc.entities[p].texts
  /\ doc' = [doc EXCEPT !.entities[p].texts = @ \ {r}]

CompleteName(p, scope) ==
  \E n \in CompletedNames(doc, p, scope) : Mention(p, Ref(scope, n, FALSE, FALSE))

Invoke(i) ==
  /\ doc' = [doc EXCEPT !.invocations = @ \union {i}]
  /\ Grows

Cancel(i) ==
  /\ i \in doc.invocations
  /\ doc' = [doc EXCEPT !.invocations = @ \ {i}]

Next ==
  \/ \E p \in Declarers(doc), n \in ParamNames :
       \/ \E q \in Declarations : Declare(p, n, q)
       \/ Undeclare(p, n)
       \/ CompleteDefault(p, n)
  \/ \E p \in DOMAIN doc.entities :
       \/ \E s \in Steps : AddStep(p, s)
       \/ \E s \in doc.entities[p].steps :
            \/ RemoveStep(p, s)
            \/ \E n \in ParamNames : Unassign(p, s, n) \/ \E v \in Values : Assign(p, s, n, v)
       \/ \E e \in Executors \union {None} : NameExecutor(p, e)
       \/ \E r \in {v \in Values : IsReference(v)} : Mention(p, r)
       \/ \E r \in doc.entities[p].texts : Erase(p, r)
       \/ \E scope \in Scopes : CompleteName(p, scope)
  \/ \E i \in Invocations : Invoke(i)
  \/ \E i \in doc.invocations : Cancel(i)

Spec == Init /\ [][Next]_doc
-----------------------------------------------------------------------------
(* The document stays one the parser produces.                              *)
TypeOK == Parsed(doc)

(* Declared where the reference says, whatever the checks look at.           *)
DeclarationOf(d, at, v) ==
  IF v.scope = "pipeline.parameters"
    THEN IF v.name \in DOMAIN d.pipeline THEN {d.pipeline[v.name]} ELSE {}
    ELSE IF at # Workflow /\ v.name \in DOMAIN ParametersAt(d, at) THEN {ParametersAt(d, at)[v.name]} ELSE {}

(* What a parameter may be given where no parameter is involved.             *)
Literals == {v \in Values : ~IsReference(v) /\ parseParameterValue(v) # None}
MayHold(d, q) == {v \in Literals : AcceptsValue(d, q, v)}

Substitutes(d, at, p, v) ==
  \A q \in DeclarationOf(d, at, v) :
    \/ MayHold(d, q) \subseteq MayHold(d, p)
    \/ GetType(p) = "enum" /\ GetType(q) = "enum"
    \/ GetType(p) = "env_var_name" /\ at = Workflow

SoundArguments(d, at, entity, parameters, args) ==
  \A n \in Both(parameters, args) :
    \/ ~CheckIfOnlyParamUsed(args[n])
    \/ Error("wrong value", at, entity, n) \in Errors(d)
    \/ Substitutes(d, at, parameters[n], args[n])

(* Those no value of the matrix takes the place of.                         *)
PlainArguments(i) ==
  LET args == Given(i.args) IN [n \in DOMAIN args \ DOMAIN Given(i.matrix) |-> args[n]]

(* An argument that is nothing but a parameter is judged by that parameter's  *)
(* declaration.  Where the validator is content, whatever that parameter may  *)
(* be given the callee's may be given too, so that no call, no executor and no *)
(* invocation can go wrong once the values are filled in.  Two enums are taken  *)
(* for one another whatever their values, and in a workflow an environment      *)
(* variable's name may be anything: those are the exceptions.               *)
SubstitutionIsSound ==
  /\ \A p \in DOMAIN doc.entities :
       /\ \A s \in CallsAt(doc, p) :
            SoundArguments(doc, p, s.name, GetDefinedParams(doc, s.name), s.args)
       /\ LET e == doc.entities[p].executor
          IN  e # None /\ NamesExecutor(doc, e.name) =>
                SoundArguments(doc, p, e.name.word, ParametersAt(doc, Place("executor", e.name.word)), Given(e.args))
  /\ \A i \in doc.invocations :
       i.job \in Entities(doc, "job") =>
         SoundArguments(doc, Workflow, i.job, GetDefinedParams(doc, i.job), PlainArguments(i))

(* Go-to-definition agrees with the validator: from a reference it leads to    *)
(* the entity whose parameters the validator looks among, or nowhere when it   *)
(* is reported, unless another entity whose name is on the path, the callee    *)
(* above all, or one that shares the name, declares one of the same name.     *)
OthersOnPath(d, o) ==
  {q \in DOMAIN d.entities \ {o.at} : \E i \in DOMAIN o.path : o.path[i] = q.name}
JumpAgrees ==
  \A o \in Occurrences(doc) :
    LET n == o.ref.name
        pipeline == o.ref.scope = "pipeline.parameters"
        target == searchParamDefinition(doc, o)
    IN  ~o.ref.quoted =>
          \/ \E q \in OthersOnPath(doc, o) : q.name = o.at.name \/ n \in DOMAIN ParametersAt(doc, q)
          \/ IF IsUndefined(doc, o) THEN target # Pipeline /\ (~pipeline => target = Workflow)
              ELSE target = IF pipeline THEN Pipeline ELSE o.at

(* When a declaration is removed, everything newly reported as not defined     *)
(* was among the references found from it.                                  *)
RemovedIsFound ==
  \A p \in Declarers(doc) :
    \A n \in DOMAIN ParametersAt(doc, p) \ DOMAIN ParametersAt(doc', p) :
      UndefinedReferences(doc') \ UndefinedReferences(doc) \subseteq getParamReferences(doc, p, n)
RemovalShowsInReferences == [][RemovedIsFound]_doc

(* Errors come and go only where what changed is in sight: at the entity whose *)
(* parameters are edited and at what calls it; for a pipeline parameter, where  *)
(* its name is mentioned.                                                  *)
Changed(p) ==
  {n \in ParamNames :
     \/ n \in DOMAIN ParametersAt(doc, p) /\ n \notin DOMAIN ParametersAt(doc', p)
     \/ n \in DOMAIN ParametersAt(doc', p) /\ n \notin DOMAIN ParametersAt(doc, p)
     \/ /\ n \in Both(ParametersAt(doc, p), ParametersAt(doc', p))
        /\ ParametersAt(doc, p)[n] # ParametersAt(doc', p)[n]}
InSight(p, e) ==
  \/ e.at = p
  \/ (p # Pipeline /\ e.entity = p.name)
  \/ p = Pipeline /\ \E o \in Occurrences(doc) : o.ref.name \in Changed(p) /\ o.at = e.at
DeclarationsErrLocally ==
  [][\A p \in Declarers(doc) :
       Changed(p) # {} =>
         \A e \in (Errors(doc) \ Errors(doc')) \union (Errors(doc') \ Errors(doc)) : InSight(p, e)]_doc

(* A default the declaration itself takes, the ones completion offers           *)
(* included, never causes an error.  An executor given by a mapping is taken    *)
(* as an argument only: validateSingleJob looks for a default of that name.     *)
TakesItsDefault(d, old, new) ==
  /\ old.default = None /\ new.default # None
  /\ new.type = old.type /\ new.enum = old.enum
  /\ \/ new.default \in CompletedDefaults(d, old)
     \/ /\ ~IsReference(new.default) /\ AcceptsValue(d, old, new.default)
        /\ GetType(old) = "executor" => NamesExecutor(d, new.default)
DefaultsOnlyHelp ==
  [][\A p \in Declarers(doc) : \A n \in Changed(p) :
       /\ n \in Both(ParametersAt(doc, p), ParametersAt(doc', p))
       /\ TakesItsDefault(doc, ParametersAt(doc, p)[n], ParametersAt(doc', p)[n])
       => Errors(doc') \subseteq Errors(doc)]_doc

(* A name completed after `parameters.' or `pipeline.parameters.' is one that   *)
(* is not reported.                                                         *)
CompletedNamesExist ==
  [][\A p \in DOMAIN doc.entities : \A r \in doc'.entities[p].texts \ doc.entities[p].texts :
       r.name \in CompletedNames(doc, p, r.scope) => Errors(doc') \subseteq Errors(doc)]_doc
=============================================================================
