--------------------------- MODULE ParametersProofs ---------------------------
(***************************************************************************)
(* Theorems about ParameterEditing: they hold for every vocabulary and every  *)
(* sequence of edits.                                                       *)
(***************************************************************************)
EXTENDS ParameterEditing, TLAPS

(* What each edit leaves of the document; the fields an edit does not name     *)
(* stay as they are.                                                        *)
SameBody(b, c) == b.steps = c.steps /\ b.executor = c.executor /\ b.texts = c.texts

LEMMA WithNameDomain ==
  ASSUME NEW f, NEW n, NEW v
  PROVE  DOMAIN WithName(f, n, v) = DOMAIN f \union {n}
BY DEF WithName

LEMMA WithoutNameDomain ==
  ASSUME NEW f, NEW n
  PROVE  /\ DOMAIN WithoutName(f, n) = DOMAIN f \ {n}
         /\ \A m \in DOMAIN WithoutName(f, n) : WithoutName(f, n)[m] = f[m]
BY DEF WithoutName

(* A pipeline is no entity.                                                 *)
LEMMA PipelineIsNoEntity == Pipeline \notin EntityPlaces /\ Workflow \notin EntityPlaces
<1>1. \A p \in EntityPlaces : p.kind \in {"job", "command", "executor"}
  BY DEF EntityPlaces, Place
<1>2. Pipeline.kind = "pipeline" /\ Workflow.kind = "workflow"
  BY DEF Pipeline, Workflow, Place
<1> QED
  BY <1>1, <1>2

LEMMA DeclaredNames ==
  ASSUME Parsed(doc), NEW p \in Declarers(doc)
  PROVE  DOMAIN ParametersAt(doc, p) \subseteq ParamNames
BY DEF Parsed, ParametersAt, Declarers

LEMMA NamesStay ==
  ASSUME Parsed(doc), NEW p \in Declarers(doc), NEW n \in ParamNames, NEW v
  PROVE  /\ DOMAIN WithName(ParametersAt(doc, p), n, v) \subseteq ParamNames
         /\ DOMAIN WithoutName(ParametersAt(doc, p), n) \subseteq ParamNames
<1>1. DOMAIN ParametersAt(doc, p) \subseteq ParamNames
  BY DeclaredNames
<1>2. DOMAIN WithName(ParametersAt(doc, p), n, v) = DOMAIN ParametersAt(doc, p) \union {n}
  BY WithNameDomain
<1>3. DOMAIN WithoutName(ParametersAt(doc, p), n) = DOMAIN ParametersAt(doc, p) \ {n}
  BY WithoutNameDomain
<1> QED
  BY <1>1, <1>2, <1>3

(* Replacing the parameters of one declarer: DeclareSet is the document of a    *)
(* declaration or of its removal.                                           *)
DeclareSet(p, parameters) ==
  IF p = Pipeline THEN [doc EXCEPT !.pipeline = parameters]
                  ELSE [doc EXCEPT !.entities[p].parameters = parameters]

LEMMA DeclareSetParsed ==
  ASSUME Parsed(doc), NEW p \in Declarers(doc), NEW parameters, DOMAIN parameters \subseteq ParamNames
  PROVE  /\ Parsed(DeclareSet(p, parameters))
         /\ DOMAIN DeclareSet(p, parameters).entities = DOMAIN doc.entities
         /\ \A q \in Declarers(doc) :
              ParametersAt(DeclareSet(p, parameters), q) = IF q = p THEN parameters ELSE ParametersAt(doc, q)
         /\ \A q \in DOMAIN doc.entities : SameBody(DeclareSet(p, parameters).entities[q], doc.entities[q])
         /\ DeclareSet(p, parameters).invocations = doc.invocations
<1>1. CASE p = Pipeline
  BY <1>1, PipelineIsNoEntity DEF Parsed, DeclareSet, Declarers, ParametersAt, SameBody
<1>2. CASE p # Pipeline
  <2>1. p \in DOMAIN doc.entities
    BY <1>2 DEF Declarers
  <2> DEFINE body == [doc.entities[p] EXCEPT !.parameters = parameters]
             entities == [doc.entities EXCEPT ![p] = body]
  <2>2. DeclareSet(p, parameters) = [doc EXCEPT !.entities = entities]
    BY <1>2 DEF DeclareSet
  <2>3. /\ DOMAIN body = {"parameters", "steps", "executor", "texts"}
        /\ body.parameters = parameters
        /\ SameBody(body, doc.entities[p])
    BY <2>1 DEF Parsed, SameBody
  <2> HIDE DEF body
  <2>4. /\ DOMAIN entities = DOMAIN doc.entities
        /\ entities[p] = body
        /\ \A q \in DOMAIN doc.entities : q # p => entities[q] = doc.entities[q]
    BY <2>1
  <2> HIDE DEF entities
  <2>5. /\ DOMAIN DeclareSet(p, parameters) = DOMAIN doc
        /\ DeclareSet(p, parameters).entities = entities
        /\ DeclareSet(p, parameters).pipeline = doc.pipeline
        /\ DeclareSet(p, parameters).invocations = doc.invocations
    BY <2>2 DEF Parsed
  <2> QED
    BY <1>2, <2>1, <2>3, <2>4, <2>5, PipelineIsNoEntity DEF Parsed, Declarers, ParametersAt, SameBody
<1> QED
  BY <1>1, <1>2

(* Only Declare and Undeclare touch what is declared.                        *)
DeclaresNothing ==
  /\ Parsed(doc') /\ doc'.pipeline = doc.pipeline
  /\ DOMAIN doc'.entities = DOMAIN doc.entities
  /\ \A q \in Declarers(doc) : ParametersAt(doc', q) = ParametersAt(doc, q)

(* Only Mention adds texts, and then it changes nothing else.                  *)
AddsNoText == \A q \in DOMAIN doc.entities : doc'.entities[q].texts \subseteq doc.entities[q].texts
Mentions(p, r) ==
  /\ doc'.invocations = doc.invocations
  /\ \A q \in DOMAIN doc.entities :
       /\ doc'.entities[q].steps = doc.entities[q].steps
       /\ doc'.entities[q].executor = doc.entities[q].executor
       /\ doc'.entities[q].texts = IF q = p THEN doc.entities[q].texts \union {r} ELSE doc.entities[q].texts

(* An edit of a step, an executor, a text or an invocation does not.            *)
LEMMA BodyEdit ==
  ASSUME Parsed(doc), NEW p \in DOMAIN doc.entities, NEW body,
         DOMAIN body = {"parameters", "steps", "executor", "texts"},
         body.parameters = doc.entities[p].parameters,
         doc' = [doc EXCEPT !.entities = [doc.entities EXCEPT ![p] = body]]
  PROVE  /\ DeclaresNothing
         /\ doc'.invocations = doc.invocations
         /\ \A q \in DOMAIN doc.entities : doc'.entities[q] = IF q = p THEN body ELSE doc.entities[q]
<1> DEFINE entities == [doc.entities EXCEPT ![p] = body]
<1>1. /\ DOMAIN entities = DOMAIN doc.entities
      /\ entities[p] = body
      /\ \A q \in DOMAIN doc.entities : q # p => entities[q] = doc.entities[q]
  OBVIOUS
<1> HIDE DEF entities
<1>2. doc' = [doc EXCEPT !.entities = entities]
  BY DEF entities
<1>3. /\ DOMAIN doc' = DOMAIN doc /\ doc'.entities = entities
      /\ doc'.pipeline = doc.pipeline /\ doc'.invocations = doc.invocations
  BY <1>2 DEF Parsed
<1>4. Parsed(doc')
  BY <1>1, <1>3 DEF Parsed
<1>5. \A q \in Declarers(doc) : ParametersAt(doc', q) = ParametersAt(doc, q)
  BY <1>1, <1>3 DEF Declarers, ParametersAt
<1> QED
  BY <1>1, <1>3, <1>4, <1>5 DEF DeclaresNothing

LEMMA StepsEdit ==
  ASSUME Parsed(doc), NEW p \in DOMAIN doc.entities, NEW steps,
         doc' = [doc EXCEPT !.entities[p].steps = steps]
  PROVE  DeclaresNothing /\ AddsNoText
<1> DEFINE body == [doc.entities[p] EXCEPT !.steps = steps]
<1>1. /\ DOMAIN body = {"parameters", "steps", "executor", "texts"}
      /\ body.parameters = doc.entities[p].parameters
      /\ body.texts = doc.entities[p].texts
  BY DEF Parsed
<1>2. doc' = [doc EXCEPT !.entities = [doc.entities EXCEPT ![p] = body]]
  OBVIOUS
<1> HIDE DEF body
<1> QED
  BY <1>1, <1>2, BodyEdit DEF AddsNoText

LEMMA ExecutorEdit ==
  ASSUME Parsed(doc), NEW p \in DOMAIN doc.entities, NEW executor,
         doc' = [doc EXCEPT !.entities[p].executor = executor]
  PROVE  DeclaresNothing /\ AddsNoText
<1> DEFINE body == [doc.entities[p] EXCEPT !.executor = executor]
<1>1. /\ DOMAIN body = {"parameters", "steps", "executor", "texts"}
      /\ body.parameters = doc.entities[p].parameters
      /\ body.texts = doc.entities[p].texts
  BY DEF Parsed
<1>2. doc' = [doc EXCEPT !.entities = [doc.entities EXCEPT ![p] = body]]
  OBVIOUS
<1> HIDE DEF body
<1> QED
  BY <1>1, <1>2, BodyEdit DEF AddsNoText

LEMMA TextsEdit ==
  ASSUME Parsed(doc), NEW p \in DOMAIN doc.entities, NEW texts,
         doc' = [doc EXCEPT !.entities[p].texts = texts]
  PROVE  /\ DeclaresNothing
         /\ texts \subseteq doc.entities[p].texts => AddsNoText
         /\ \A r : texts = doc.entities[p].texts \union {r} => Mentions(p, r)
<1> DEFINE body == [doc.entities[p] EXCEPT !.texts = texts]
<1>1. /\ DOMAIN body = {"parameters", "steps", "executor", "texts"}
      /\ body.parameters = doc.entities[p].parameters
      /\ body.steps = doc.entities[p].steps /\ body.executor = doc.entities[p].executor
      /\ body.texts = texts
  BY DEF Parsed
<1>2. doc' = [doc EXCEPT !.entities = [doc.entities EXCEPT ![p] = body]]
  OBVIOUS
<1> HIDE DEF body
<1> QED
  BY <1>1, <1>2, BodyEdit DEF AddsNoText, Mentions

LEMMA InvocationsEdit ==
  ASSUME Parsed(doc), NEW invocations, doc' = [doc EXCEPT !.invocations = invocations],
         \A i \in invocations : PlainMatrix(i)
  PROVE  DeclaresNothing /\ AddsNoText
BY DEF Parsed, AddsNoText, DeclaresNothing, Declarers, ParametersAt

(* Every step declares, removes a declaration, or leaves them all alone.       *)
Leaves ==
  DeclaresNothing /\ (AddsNoText \/ \E p \in DOMAIN doc.entities : \E r : Mentions(p, r))
LEMMA StepKinds ==
  ASSUME Parsed(doc), Next
  PROVE  \/ \E p \in Declarers(doc), n \in ParamNames : \E q :
              doc' = DeclareSet(p, WithName(ParametersAt(doc, p), n, q))
         \/ \E p \in Declarers(doc), n \in ParamNames :
              doc' = DeclareSet(p, WithoutName(ParametersAt(doc, p), n))
         \/ Leaves
<1> DEFINE Sets == \E p \in Declarers(doc), n \in ParamNames : \E q :
                     doc' = DeclareSet(p, WithName(ParametersAt(doc, p), n, q))
<1>1. ASSUME NEW p \in Declarers(doc), NEW n \in ParamNames, NEW q, Declare(p, n, q) PROVE Sets
  <2>1. doc' = DeclareSet(p, WithName(ParametersAt(doc, p), n, q))
    BY <1>1, PipelineIsNoEntity DEF Declare, DeclareSet, ParametersAt, Declarers
  <2> QED
    BY <2>1
<1>2. ASSUME NEW p \in Declarers(doc), NEW n \in ParamNames, Undeclare(p, n)
      PROVE  doc' = DeclareSet(p, WithoutName(ParametersAt(doc, p), n))
  BY <1>2, PipelineIsNoEntity DEF Undeclare, DeclareSet, ParametersAt, Declarers
<1>3. ASSUME NEW p \in Declarers(doc), NEW n \in ParamNames, CompleteDefault(p, n) PROVE Sets
  BY <1>3, <1>1 DEF CompleteDefault
<1>4. ASSUME NEW p \in DOMAIN doc.entities, NEW s, AddStep(p, s) PROVE Leaves
  BY <1>4, StepsEdit DEF AddStep, Leaves
<1>5. ASSUME NEW p \in DOMAIN doc.entities, NEW s,
             \/ RemoveStep(p, s)
             \/ \E n \in ParamNames : Unassign(p, s, n) \/ \E v \in Values : Assign(p, s, n, v)
      PROVE Leaves
  BY <1>5, StepsEdit DEF RemoveStep, Unassign, Assign, Replace, Leaves
<1>6. ASSUME NEW p \in DOMAIN doc.entities, NEW e, NameExecutor(p, e) PROVE Leaves
  BY <1>6, ExecutorEdit DEF NameExecutor, Leaves
<1>7. ASSUME NEW p \in DOMAIN doc.entities, NEW r, Mention(p, r) \/ Erase(p, r) PROVE Leaves
  <2>1. CASE Mention(p, r)
    <3>1. DeclaresNothing /\ Mentions(p, r)
      BY <2>1, TextsEdit DEF Mention
    <3> QED
      BY <3>1 DEF Leaves
  <2>2. CASE Erase(p, r)
    <3>1. DeclaresNothing /\ AddsNoText
      BY <2>2, TextsEdit DEF Erase
    <3> QED
      BY <3>1 DEF Leaves
  <2> QED
    BY <1>7, <2>1, <2>2
<1>8. ASSUME NEW p \in DOMAIN doc.entities, NEW scope, CompleteName(p, scope) PROVE Leaves
  BY <1>8, <1>7 DEF CompleteName
<1>9. ASSUME NEW i, (i \in Invocations /\ Invoke(i)) \/ Cancel(i) PROVE Leaves
  BY <1>9, InvocationsEdit, InvocationsAssumption DEF Invoke, Cancel, Parsed, Leaves
<1> HIDE DEF Sets
<1>10. CASE \E p \in Declarers(doc), n \in ParamNames :
              (\E q \in Declarations : Declare(p, n, q)) \/ Undeclare(p, n) \/ CompleteDefault(p, n)
  <2>1. PICK p \in Declarers(doc), n \in ParamNames :
              (\E q \in Declarations : Declare(p, n, q)) \/ Undeclare(p, n) \/ CompleteDefault(p, n)
    BY <1>10
  <2> QED
    BY <2>1, <1>1, <1>2, <1>3 DEF Sets
<1>11. CASE ~\E p \in Declarers(doc), n \in ParamNames :
              (\E q \in Declarations : Declare(p, n, q)) \/ Undeclare(p, n) \/ CompleteDefault(p, n)
  BY <1>11, <1>4, <1>5, <1>6, <1>7, <1>8, <1>9 DEF Next
<1> QED
  BY <1>10, <1>11

(* The tables of parameters keep their entities and names, whatever is edited.  *)
THEOREM TypeCorrect == Spec => []TypeOK
<1>1. Init => TypeOK
  BY OpenedAssumption DEF Init, TypeOK
<1>2. ASSUME TypeOK, [Next]_doc PROVE TypeOK'
  <2>1. CASE UNCHANGED doc
    BY <1>2, <2>1 DEF TypeOK, Parsed
  <2>2. ASSUME NEW p \in Declarers(doc), NEW n \in ParamNames, NEW q,
               doc' = DeclareSet(p, WithName(ParametersAt(doc, p), n, q))
        PROVE  TypeOK'
    <3>1. DOMAIN WithName(ParametersAt(doc, p), n, q) \subseteq ParamNames
      BY <1>2, NamesStay DEF TypeOK
    <3> QED
      BY <1>2, <2>2, <3>1, DeclareSetParsed DEF TypeOK
  <2>3. ASSUME NEW p \in Declarers(doc), NEW n \in ParamNames,
               doc' = DeclareSet(p, WithoutName(ParametersAt(doc, p), n))
        PROVE  TypeOK'
    <3>1. DOMAIN WithoutName(ParametersAt(doc, p), n) \subseteq ParamNames
      BY <1>2, NamesStay DEF TypeOK
    <3> QED
      BY <1>2, <2>3, <3>1, DeclareSetParsed DEF TypeOK
  <2>4. CASE Leaves
    BY <2>4 DEF Leaves, DeclaresNothing, TypeOK
  <2> QED
    BY <1>2, <2>1, <2>2, <2>3, <2>4, StepKinds DEF TypeOK
<1> QED
  BY <1>1, <1>2, PTL DEF Spec
-----------------------------------------------------------------------------
(* A type takes the literals of every type SameType takes, but between enums.  *)
LEMMA SameTypeHolds ==
  ASSUME NEW d, NEW p, NEW q, SameType(p, q), ~(GetType(p) = "enum" /\ GetType(q) = "enum")
  PROVE  MayHold(d, q) \subseteq MayHold(d, p)
<1> SUFFICES ASSUME NEW v \in Literals, AcceptsValue(d, q, v)
             PROVE  AcceptsValue(d, p, v)
  BY DEF MayHold
<1>1. ~IsReference(v)
  BY DEF Literals
<1>2. CASE GetType(p) = GetType(q)
  BY <1>1, <1>2 DEF AcceptsValue, SimpleValue
<1>3. CASE GetType(p) = "string" /\ GetType(q) = "enum"
  <2>1. v.kind = "text"
    BY <1>3 DEF AcceptsValue
  <2>2. ValueType(v) = "string"
    BY <2>1 DEF ValueType
  <2> QED
    BY <1>1, <1>3, <2>2 DEF AcceptsValue, SimpleValue
<1> QED
  BY <1>2, <1>3 DEF SameType

(* No silent argument of a call goes wrong: validateParametersValue compares    *)
(* the declarations.                                                        *)
LEMMA CallArguments ==
  ASSUME NEW d, NEW at, at # Workflow, at # Pipeline, NEW entity, NEW parameters, NEW args,
         ArgumentErrors(d, at, entity, parameters, args) \subseteq Errors(d)
  PROVE  SoundArguments(d, at, entity, parameters, args)
<1> SUFFICES ASSUME NEW n \in Both(parameters, args), CheckIfOnlyParamUsed(args[n]),
                    Error("wrong value", at, entity, n) \notin Errors(d),
                    NEW q \in DeclarationOf(d, at, args[n]),
                    ~(GetType(parameters[n]) = "enum" /\ GetType(q) = "enum")
             PROVE  MayHold(d, q) \subseteq MayHold(d, parameters[n])
  BY DEF SoundArguments, Substitutes
<1>1. Fits(d, parameters[n], args[n], ParametersAt(d, at))
  BY DEF ArgumentErrors
<1>2. AcceptsReference(d, parameters[n], args[n], ParametersAt(d, at))
  BY <1>1 DEF Fits
<1>3. SameType(parameters[n], q)
  BY <1>2 DEF AcceptsReference, DeclarationOf
<1> QED
  BY <1>3, SameTypeHolds

(* In a workflow an argument is judged by the value itself, and there by the    *)
(* pipeline parameter of its name.                                          *)
LEMMA WorkflowArguments ==
  ASSUME NEW d, NEW i \in d.invocations, i.job \in Entities(d, "job")
  PROVE  SoundArguments(d, Workflow, i.job, GetDefinedParams(d, i.job), PlainArguments(i))
<1> DEFINE params == GetDefinedParams(d, i.job)
           args == Given(i.args)
<1> SUFFICES ASSUME NEW n \in Both(params, PlainArguments(i)), CheckIfOnlyParamUsed(PlainArguments(i)[n]),
                    Error("wrong value", Workflow, i.job, n) \notin Errors(d),
                    NEW q \in DeclarationOf(d, Workflow, PlainArguments(i)[n]),
                    GetType(params[n]) # "env_var_name"
             PROVE  MayHold(d, q) \subseteq MayHold(d, params[n])
  BY DEF SoundArguments, Substitutes
<1> DEFINE v == args[n]
<1>1. /\ n \in DOMAIN params /\ n \in DOMAIN args /\ n \notin DOMAIN Given(i.matrix)
      /\ PlainArguments(i)[n] = v
  BY DEF Both, PlainArguments
<1>2. InvocationErrors(d, i) \subseteq Errors(d)
  <2> DEFINE each == {InvocationErrors(d, j) : j \in d.invocations}
  <2>1. UNION each \subseteq Errors(d)
    BY DEF Errors
  <2>2. InvocationErrors(d, i) \in each
    OBVIOUS
  <2> QED
    BY <2>1, <2>2
<1>3. AcceptsValue(d, params[n], v)
  BY <1>1, <1>2 DEF InvocationErrors
<1>4. v.kind = "reference"
  BY <1>1 DEF CheckIfOnlyParamUsed, IsReference
<1>5. v.name \in DOMAIN d.pipeline /\ q = d.pipeline[v.name]
  BY <1>1 DEF DeclarationOf
<1> HIDE DEF params, args, v
<1>6. GetType(params[n]) \notin {"enum", "executor", "steps", "env_var_name"}
  BY <1>3, <1>4 DEF AcceptsValue, ExecutorValue, NamesExecutor, StepsValue
<1>7. GetType(q) = GetType(params[n])
  BY <1>3, <1>4, <1>5, <1>6 DEF AcceptsValue, SimpleValue, IsReference
<1> QED
  BY <1>6, <1>7, SameTypeHolds DEF SameType

(* What the validator accepts as an argument stands for nothing the callee     *)
(* would refuse, in any document: validateParametersValue and                 *)
(* validateJobInvocationParameters look at all that matters.                  *)
THEOREM SubstitutionSound == Spec => []SubstitutionIsSound
<1>1. ASSUME TypeOK PROVE SubstitutionIsSound
  <2>1. ASSUME NEW p \in DOMAIN doc.entities
        PROVE  p # Workflow /\ p # Pipeline /\ EntityErrors(doc, p) \subseteq Errors(doc)
    BY <1>1, PipelineIsNoEntity DEF TypeOK, Parsed, Errors
  <2>2. ASSUME NEW p \in DOMAIN doc.entities, NEW s \in CallsAt(doc, p)
        PROVE  SoundArguments(doc, p, s.name, GetDefinedParams(doc, s.name), s.args)
    <3>1. s \in StepsAt(doc, p) /\ s.kind = "call"
      BY DEF CallsAt
    <3>2. StepErrors(doc, p, s) = CallErrors(doc, p, s)
      BY <3>1 DEF StepErrors
    <3>3. StepErrors(doc, p, s) \subseteq EntityErrors(doc, p)
      BY <3>1 DEF EntityErrors
    <3>4. ArgumentErrors(doc, p, s.name, GetDefinedParams(doc, s.name), s.args) \subseteq Errors(doc)
      BY <2>1, <3>2, <3>3 DEF CallErrors
    <3> QED
      BY <2>1, <3>4, CallArguments
  <2>3. ASSUME NEW p \in DOMAIN doc.entities, NEW e, e = doc.entities[p].executor,
               e # None, NamesExecutor(doc, e.name)
        PROVE  SoundArguments(doc, p, e.name.word, ParametersAt(doc, Place("executor", e.name.word)), Given(e.args))
    <3>1. ExecutorErrors(doc, p, e) =
            ArgumentErrors(doc, p, e.name.word, ParametersAt(doc, Place("executor", e.name.word)), Given(e.args))
      <4>1. e.name.kind = "text"
        BY <2>3 DEF NamesExecutor
      <4>2. ~CheckIfOnlyParamUsed(e.name)
        BY <4>1 DEF CheckIfOnlyParamUsed, IsReference
      <4> QED
        BY <2>3, <4>2 DEF ExecutorErrors
    <3>2. ExecutorErrors(doc, p, e) \subseteq EntityErrors(doc, p)
      <4> DEFINE own == IF doc.entities[p].executor = None THEN {}
                        ELSE ExecutorErrors(doc, p, doc.entities[p].executor)
      <4>1. own = ExecutorErrors(doc, p, e)
        BY <2>3
      <4>2. own \subseteq EntityErrors(doc, p)
        BY DEF EntityErrors
      <4> QED
        BY <4>1, <4>2
    <3> QED
      BY <2>1, <3>1, <3>2, CallArguments
  <2> QED
    BY <2>2, <2>3, WorkflowArguments DEF SubstitutionIsSound
<1> QED
  BY <1>1, TypeCorrect, PTL
-----------------------------------------------------------------------------
(* The keys above a reference: three at most, and in an entity its name first.  *)
Short(path) == DOMAIN path \subseteq 1..3
Under(path, name) == Short(path) /\ 1 \in DOMAIN path /\ path[1] = name

LEMMA KeyAppended ==
  ASSUME NEW a, NEW b, NEW n
  PROVE  Short(Append(<<>>, n)) /\ Under(Append(<<a>>, n), a) /\ Under(Append(<<a, b>>, n), a)
<1>1. DOMAIN Append(<<>>, n) = 1..1
  OBVIOUS
<1>2. DOMAIN Append(<<a>>, n) = 1..2 /\ Append(<<a>>, n)[1] = a
  OBVIOUS
<1>3. DOMAIN Append(<<a, b>>, n) = 1..3 /\ Append(<<a, b>>, n)[1] = a
  OBVIOUS
<1> QED
  BY <1>1, <1>2, <1>3 DEF Short, Under

KeyUnder(o, path) == \E n : o.path = Append(path, n)

LEMMA KeyUnderShort ==
  ASSUME NEW o
  PROVE  /\ KeyUnder(o, <<>>) => Short(o.path)
         /\ \A a : KeyUnder(o, <<a>>) => Under(o.path, a)
         /\ \A a, b : KeyUnder(o, <<a, b>>) => Under(o.path, a)
BY KeyAppended, Zenon DEF KeyUnder

LEMMA PathsInArguments ==
  ASSUME NEW at, NEW path, NEW args, NEW o \in InArguments(at, path, args)
  PROVE  o.at = at /\ KeyUnder(o, path)
BY DEF InArguments, Occurrence, KeyUnder

LEMMA PathsInDefaults ==
  ASSUME NEW at, NEW path, NEW parameters, NEW o \in InDefaults(at, path, parameters)
  PROVE  o.at = at /\ KeyUnder(o, path)
BY DEF InDefaults, Occurrence, KeyUnder

LEMMA PathsInEntity ==
  ASSUME NEW d, NEW p, NEW o \in InEntity(d, p)
  PROVE  o.at = p /\ Under(o.path, p.name)
<1> DEFINE b == d.entities[p]
<1>1. Under(<<p.name>>, p.name)
  BY DEF Under, Short
<1>2. CASE o \in InDefaults(p, <<p.name>>, b.parameters)
  BY <1>2, PathsInDefaults, KeyUnderShort
<1>3. CASE \E s \in Written(b.steps) : o \in InStep(p, s)
  <2>1. PICK s \in Written(b.steps) : o \in InStep(p, s)
    BY <1>3
  <2>2. CASE s.kind = "call"
    <3>1. o \in InArguments(p, <<p.name, s.name>>, s.args)
      BY <2>1, <2>2 DEF InStep
    <3> QED
      BY <3>1, PathsInArguments, KeyUnderShort
  <2>3. CASE s.kind # "call"
    <3>1. \A r : Occurrence(p, r, <<p.name>>).at = p /\ Occurrence(p, r, <<p.name>>).path = <<p.name>>
      BY DEF Occurrence
    <3>2. \E r : o = Occurrence(p, r, <<p.name>>)
      BY <2>1, <2>3 DEF InStep
    <3> QED
      BY <3>1, <3>2, <1>1
  <2> QED
    BY <2>2, <2>3
<1>4. CASE o \in {Occurrence(p, r, <<p.name>>) : r \in b.texts}
  BY <1>1, <1>4 DEF Occurrence
<1>5. CASE b.executor # None /\ o \in {Occurrence(p, r, <<p.name>>) : r \in RefsIn(b.executor.name)}
  BY <1>1, <1>5 DEF Occurrence
<1>6. CASE b.executor # None /\ o \in InArguments(p, <<p.name>>, b.executor.args)
  BY <1>6, PathsInArguments, KeyUnderShort
<1> QED
  BY <1>2, <1>3, <1>4, <1>5, <1>6 DEF InEntity

LEMMA Paths ==
  ASSUME Parsed(doc), NEW o \in Occurrences(doc)
  PROVE  /\ Short(o.path)
         /\ o.at \in DOMAIN doc.entities => Under(o.path, o.at.name)
<1>1. Pipeline \notin DOMAIN doc.entities /\ Workflow \notin DOMAIN doc.entities
  BY PipelineIsNoEntity DEF Parsed
<1>2. CASE o \in InDefaults(Pipeline, <<>>, doc.pipeline)
  BY <1>1, <1>2, PathsInDefaults, KeyUnderShort
<1>3. CASE \E p \in DOMAIN doc.entities : o \in InEntity(doc, p)
  BY <1>3, PathsInEntity DEF Under
<1>4. CASE \E i \in doc.invocations : o \in InArguments(Workflow, <<i.job>>, i.args)
  BY <1>1, <1>4, PathsInArguments, KeyUnderShort DEF Under
<1> QED
  BY <1>2, <1>3, <1>4 DEF Occurrences

(* What a name on the path leads to, and the last of some of its places.       *)
LEMMA NamedEntity ==
  ASSUME NEW d, NEW name
  PROVE  LET e == EntityNamed(d, name)
         IN  /\ e = Workflow \/ (e \in DOMAIN d.entities /\ e.name = name)
             /\ \A p \in DOMAIN d.entities : p \in EntityPlaces /\ p.name = name => e # Workflow
<1> DEFINE Is(i) == Place(KindsInOrder[i], name) \in DOMAIN d.entities
           First(i) == Is(i) /\ \A j \in 1..(i - 1) : ~Is(j)
<1>1. CASE \E i \in 1..3 : Is(i)
  <2>1. \E i \in 1..3 : First(i)
    BY <1>1
  <2> DEFINE k == CHOOSE i \in 1..3 : First(i)
  <2>2. k \in 1..3 /\ First(k)
    BY <2>1
  <2>3. EntityNamed(d, name) = Place(KindsInOrder[k], name)
    BY <1>1 DEF EntityNamed
  <2>4. /\ EntityNamed(d, name) \in DOMAIN d.entities
        /\ EntityNamed(d, name).name = name
        /\ EntityNamed(d, name).kind = KindsInOrder[k]
    BY <2>2, <2>3 DEF Place
  <2>5. KindsInOrder[k] # "workflow" /\ Workflow.kind = "workflow"
    <3>1. KindsInOrder[1] = "command" /\ KindsInOrder[2] = "job" /\ KindsInOrder[3] = "executor"
      BY DEF KindsInOrder
    <3>2. k = 1 \/ k = 2 \/ k = 3
      BY <2>2
    <3> QED
      BY <3>1, <3>2 DEF Workflow, Place
  <2> QED
    BY <2>4, <2>5
<1>2. CASE ~\E i \in 1..3 : Is(i)
  <2>1. EntityNamed(d, name) = Workflow
    BY <1>2 DEF EntityNamed
  <2>2. ASSUME NEW p \in DOMAIN d.entities, p \in EntityPlaces, p.name = name
        PROVE  FALSE
    <3>1. p.kind \in {"job", "command", "executor"} /\ p = Place(p.kind, name)
      BY <2>2 DEF EntityPlaces, Place
    <3>2. \E i \in 1..3 : KindsInOrder[i] = p.kind
      <4>1. KindsInOrder[1] = "command" /\ KindsInOrder[2] = "job" /\ KindsInOrder[3] = "executor"
        BY DEF KindsInOrder
      <4> QED
        BY <3>1, <4>1
    <3> QED
      BY <1>2, <3>1, <3>2
  <2> QED
    BY <2>1, <2>2
<1> QED
  BY <1>1, <1>2

LEMMA LastOfThree ==
  ASSUME NEW F \in SUBSET (1..3), F # {}
  PROVE  \E i \in F : \A j \in F : j <= i
<1>1. CASE 3 \in F
  BY <1>1
<1>2. CASE 3 \notin F /\ 2 \in F
  BY <1>2
<1>3. CASE 3 \notin F /\ 2 \notin F
  <2>1. \A j \in F : j = 1
    BY <1>3
  <2>2. PICK i : i \in F
    OBVIOUS
  <2>3. i \in F /\ \A j \in F : j <= i
    BY <2>1, <2>2
  <2> QED
    BY <2>3
<1> QED
  BY <1>1, <1>2, <1>3

(* Where no other entity comes between, the path leads to the entity the         *)
(* reference is in when that one declares the name, and nowhere otherwise.      *)
LEMMA PathLeads ==
  ASSUME Parsed(doc), NEW o \in Occurrences(doc),
         \A q \in OthersOnPath(doc, o) :
           q.name # o.at.name /\ o.ref.name \notin DOMAIN ParametersAt(doc, q)
  PROVE  /\ o.ref.name \in GetParamsWithPosition(doc, o.at) => OnPath(doc, o) = o.at
         /\ o.ref.name \notin GetParamsWithPosition(doc, o.at) => OnPath(doc, o) = Workflow
<1> DEFINE n == o.ref.name
           Found == {i \in DOMAIN o.path : Declares(doc, o.path[i], n)}
           Last(i) == i \in Found /\ \A j \in Found : j <= i
<1>1. /\ Pipeline \notin DOMAIN doc.entities /\ Workflow \notin DOMAIN doc.entities
      /\ DOMAIN doc.entities \subseteq EntityPlaces
  BY PipelineIsNoEntity DEF Parsed
<1>2. Found \subseteq 1..3
  BY Paths DEF Short
<1>3. n \notin DOMAIN ParametersAt(doc, Workflow)
  <2>1. Workflow # Pipeline
    <3>1. Workflow.kind = "workflow" /\ Pipeline.kind = "pipeline"
      BY DEF Workflow, Pipeline, Place
    <3> QED
      BY <3>1
  <2>2. ParametersAt(doc, Workflow) = NoArguments
    BY <1>1, <2>1 DEF ParametersAt
  <2>3. DOMAIN NoArguments = {}
    BY DEF NoArguments
  <2> QED
    BY <2>2, <2>3
<1>4. ASSUME NEW i \in Found
      PROVE  /\ EntityNamed(doc, o.path[i]) = o.at
             /\ o.at \in DOMAIN doc.entities
             /\ n \in DOMAIN ParametersAt(doc, o.at)
  <2> DEFINE q == EntityNamed(doc, o.path[i])
  <2>1. n \in DOMAIN ParametersAt(doc, q)
    BY DEF Declares
  <2>2. q # Workflow
    BY <2>1, <1>3
  <2>3. q \in DOMAIN doc.entities /\ q.name = o.path[i]
    BY <2>2, NamedEntity
  <2> HIDE DEF q
  <2>4. q = o.at \/ q \in OthersOnPath(doc, o)
    BY <2>3 DEF OthersOnPath
  <2>5. q = o.at
    BY <2>1, <2>4
  <2> QED
    BY <2>1, <2>3, <2>5 DEF q
<1>5. ASSUME n \in GetParamsWithPosition(doc, o.at)
      PROVE  Found # {}
  <2>1. o.at \in DOMAIN doc.entities /\ n \in DOMAIN ParametersAt(doc, o.at)
    BY <1>5 DEF GetParamsWithPosition
  <2>2. 1 \in DOMAIN o.path /\ o.path[1] = o.at.name
    BY <2>1, Paths DEF Under
  <2> DEFINE q == EntityNamed(doc, o.at.name)
  <2>3. q \in DOMAIN doc.entities /\ q.name = o.at.name
    BY <1>1, <2>1, NamedEntity
  <2> HIDE DEF q
  <2>4. q = o.at \/ q \in OthersOnPath(doc, o)
    BY <2>2, <2>3 DEF OthersOnPath
  <2>5. q = o.at
    BY <2>3, <2>4
  <2>6. Declares(doc, o.path[1], n)
    BY <2>1, <2>2, <2>5 DEF Declares, q
  <2> QED
    BY <2>2, <2>6
<1>6. CASE n \in GetParamsWithPosition(doc, o.at)
  <2>1. \E i \in Found : \A j \in Found : j <= i
    BY <1>2, <1>5, <1>6, LastOfThree
  <2> DEFINE k == CHOOSE i \in Found : \A j \in Found : j <= i
  <2>2. k \in Found
    BY <2>1
  <2>3. OnPath(doc, o) = EntityNamed(doc, o.path[k])
    BY <1>5, <1>6 DEF OnPath
  <2> HIDE DEF k
  <2> QED
    BY <1>4, <1>6, <2>2, <2>3
<1>7. CASE n \notin GetParamsWithPosition(doc, o.at)
  <2>1. Found = {}
    BY <1>4, <1>7 DEF GetParamsWithPosition
  <2> QED
    BY <1>7, <2>1 DEF OnPath
<1> QED
  BY <1>6, <1>7

(* Go-to-definition (searchParamDefinition) and the validator                  *)
(* (CheckIfParamsExist) look names up in different ways, one by the keys above    *)
(* the position and one by the position; they agree in every document unless    *)
(* another entity on the path has the name or declares the parameter.          *)
THEOREM JumpsAgree == Spec => []JumpAgrees
<1>1. ASSUME TypeOK PROVE JumpAgrees
  <2> SUFFICES ASSUME NEW o \in Occurrences(doc), ~o.ref.quoted,
                      \A q \in OthersOnPath(doc, o) :
                        q.name # o.at.name /\ o.ref.name \notin DOMAIN ParametersAt(doc, q)
               PROVE  LET pipeline == o.ref.scope = "pipeline.parameters"
                          target == searchParamDefinition(doc, o)
                      IN  IF IsUndefined(doc, o) THEN target # Pipeline /\ (~pipeline => target = Workflow)
                          ELSE target = IF pipeline THEN Pipeline ELSE o.at
    BY DEF JumpAgrees
  <2>1. /\ o.ref.name \in GetParamsWithPosition(doc, o.at) => OnPath(doc, o) = o.at
        /\ o.ref.name \notin GetParamsWithPosition(doc, o.at) => OnPath(doc, o) = Workflow
    BY <1>1, PathLeads DEF TypeOK
  <2>2. o.ref.name \in GetParamsWithPosition(doc, o.at) => o.at # Pipeline
    BY <1>1, PipelineIsNoEntity DEF GetParamsWithPosition, TypeOK, Parsed
  <2>3. Workflow # Pipeline
    <3>1. Workflow.kind = "workflow" /\ Pipeline.kind = "pipeline"
      BY DEF Workflow, Pipeline, Place
    <3> QED
      BY <3>1
  <2>4. CASE o.ref.scope = "pipeline.parameters"
    BY <2>1, <2>2, <2>3, <2>4 DEF IsUndefined, searchParamDefinition
  <2>5. CASE o.ref.scope # "pipeline.parameters"
    BY <2>1, <2>3, <2>5 DEF IsUndefined, searchParamDefinition
  <2> QED
    BY <2>4, <2>5
<1> QED
  BY <1>1, TypeCorrect, PTL
-----------------------------------------------------------------------------
(* Nothing but the parameters of some declarers differs.                       *)
SameBodies(c, d) ==
  /\ DOMAIN d.entities = DOMAIN c.entities
  /\ \A q \in DOMAIN c.entities : SameBody(d.entities[q], c.entities[q])
  /\ d.invocations = c.invocations
NoNewRefs(f, g) ==
  DOMAIN g \subseteq DOMAIN f /\ \A m \in DOMAIN g : RefsIn(g[m].default) \subseteq RefsIn(f[m].default)

LEMMA FewerDefaults ==
  ASSUME NEW at, NEW path, NEW f, NEW g, NoNewRefs(f, g)
  PROVE  InDefaults(at, path, g) \subseteq InDefaults(at, path, f)
<1> SUFFICES ASSUME NEW o, o \in InDefaults(at, path, g)
             PROVE  o \in InDefaults(at, path, f)
  OBVIOUS
<1> DEFINE OfName(h, n) == {Occurrence(at, r, Append(path, n)) : r \in RefsIn(h[n].default)}
<1>1. PICK n \in DOMAIN g : o \in OfName(g, n)
  BY DEF InDefaults
<1>2. n \in DOMAIN f /\ RefsIn(g[n].default) \subseteq RefsIn(f[n].default)
  BY <1>1 DEF NoNewRefs
<1>3. o \in OfName(f, n)
  BY <1>1, <1>2
<1>4. OfName(f, n) \in {OfName(f, m) : m \in DOMAIN f}
  BY <1>2
<1> HIDE DEF OfName
<1>5. o \in UNION {OfName(f, m) : m \in DOMAIN f}
  BY <1>3, <1>4
<1> QED
  BY <1>5 DEF InDefaults, OfName

(* A reference that is there afterwards was there before, but for the new        *)
(* defaults of what declares in its place.                                   *)
LEMMA FewerOccurrences ==
  ASSUME NEW c, NEW d, Parsed(c), SameBodies(c, d), NEW o \in Occurrences(d),
         o.at \in Declarers(c) => NoNewRefs(ParametersAt(c, o.at), ParametersAt(d, o.at))
  PROVE  o \in Occurrences(c)
<1>1. DOMAIN d.entities = DOMAIN c.entities /\ Pipeline \notin DOMAIN c.entities
  BY PipelineIsNoEntity DEF SameBodies, Parsed
<1>2. CASE o \in InDefaults(Pipeline, <<>>, d.pipeline)
  <2>1. o.at = Pipeline
    BY <1>2, PathsInDefaults
  <2>2. c.pipeline = ParametersAt(c, Pipeline) /\ d.pipeline = ParametersAt(d, Pipeline)
    BY DEF ParametersAt
  <2>3. NoNewRefs(c.pipeline, d.pipeline)
    BY <2>1, <2>2 DEF Declarers
  <2>4. o \in InDefaults(Pipeline, <<>>, c.pipeline)
    BY <1>2, <2>3, FewerDefaults
  <2> QED
    BY <2>4 DEF Occurrences
<1>3. ASSUME NEW q \in DOMAIN c.entities, o \in InEntity(d, q)
      PROVE  o \in Occurrences(c)
  <2>1. o.at = q
    BY <1>3, PathsInEntity
  <2>2. /\ c.entities[q].parameters = ParametersAt(c, q)
        /\ d.entities[q].parameters = ParametersAt(d, q)
    BY <1>1 DEF ParametersAt
  <2>3. NoNewRefs(c.entities[q].parameters, d.entities[q].parameters)
    BY <2>1, <2>2 DEF Declarers
  <2>4. InDefaults(q, <<q.name>>, d.entities[q].parameters) \subseteq InDefaults(q, <<q.name>>, c.entities[q].parameters)
    BY <2>3, FewerDefaults
  <2>5. SameBody(d.entities[q], c.entities[q])
    BY DEF SameBodies
  <2>6. o \in InEntity(c, q)
    BY <1>3, <2>4, <2>5 DEF InEntity, SameBody
  <2> QED
    BY <2>6 DEF Occurrences
<1>4. CASE o \in UNION {InArguments(Workflow, <<i.job>>, i.args) : i \in d.invocations}
  BY <1>4 DEF Occurrences, SameBodies
<1> QED
  BY <1>1, <1>2, <1>3, <1>4 DEF Occurrences

(* What is left after a declaration or its removal.                           *)
LEMMA DeclareSetBodies ==
  ASSUME Parsed(doc), NEW p \in Declarers(doc), NEW parameters, DOMAIN parameters \subseteq ParamNames
  PROVE  SameBodies(doc, DeclareSet(p, parameters))
BY DeclareSetParsed DEF SameBodies

(* Everything that is newly reported as not defined when a declaration goes     *)
(* was among the references found from it (getParamReferences), in every         *)
(* document.                                                               *)
THEOREM RemovalShown == Spec => RemovalShowsInReferences
<1>1. ASSUME TypeOK, [Next]_doc PROVE [RemovedIsFound]_doc
  <2> SUFFICES ASSUME Next, NEW p \in Declarers(doc),
                      NEW n \in DOMAIN ParametersAt(doc, p) \ DOMAIN ParametersAt(doc', p),
                      NEW o \in UndefinedReferences(doc') \ UndefinedReferences(doc)
               PROVE  o \in getParamReferences(doc, p, n)
    BY <1>1 DEF RemovedIsFound
  <2>1. Parsed(doc)
    BY <1>1 DEF TypeOK
  <2>2. ~Leaves
    BY DEF Leaves, DeclaresNothing
  <2>3. ASSUME NEW q \in Declarers(doc), NEW m \in ParamNames, NEW r,
               doc' = DeclareSet(q, WithName(ParametersAt(doc, q), m, r))
        PROVE  FALSE
    <3>1. DOMAIN ParametersAt(doc, q) \subseteq ParamNames
      BY <2>1, DeclaredNames
    <3>2. DOMAIN WithName(ParametersAt(doc, q), m, r) = DOMAIN ParametersAt(doc, q) \union {m}
      BY WithNameDomain
    <3>3. ParametersAt(doc', p) = IF p = q THEN WithName(ParametersAt(doc, q), m, r) ELSE ParametersAt(doc, p)
      BY <2>1, <2>3, <3>1, <3>2, DeclareSetParsed
    <3> QED
      BY <3>2, <3>3
  <2>4. PICK q \in Declarers(doc), m \in ParamNames : doc' = DeclareSet(q, WithoutName(ParametersAt(doc, q), m))
    BY <2>1, <2>2, <2>3, StepKinds
  <2>5. /\ DOMAIN doc'.entities = DOMAIN doc.entities
        /\ \A s \in Declarers(doc) : DOMAIN ParametersAt(doc', s) =
             IF s = q THEN DOMAIN ParametersAt(doc, q) \ {m} ELSE DOMAIN ParametersAt(doc, s)
    <3>1. DOMAIN ParametersAt(doc, q) \subseteq ParamNames
      BY <2>1, DeclaredNames
    <3>2. DOMAIN WithoutName(ParametersAt(doc, q), m) = DOMAIN ParametersAt(doc, q) \ {m}
      BY WithoutNameDomain
    <3>3. /\ DOMAIN doc'.entities = DOMAIN doc.entities
          /\ \A s \in Declarers(doc) : ParametersAt(doc', s) =
               IF s = q THEN WithoutName(ParametersAt(doc, q), m) ELSE ParametersAt(doc, s)
      BY <2>1, <2>4, <3>1, <3>2, DeclareSetParsed
    <3> QED
      BY <3>2, <3>3
  <2>6. p = q /\ n = m
    BY <2>5
  <2>7. o \in Occurrences(doc') /\ IsUndefined(doc', o)
    BY DEF UndefinedReferences
  <2>8. o \in Occurrences(doc)
    <3> DEFINE f == ParametersAt(doc, q)
               g == WithoutName(f, m)
    <3>1. DOMAIN g \subseteq DOMAIN f /\ \A s \in DOMAIN g : g[s] = f[s]
      BY WithoutNameDomain
    <3>2. DOMAIN g \subseteq ParamNames
      BY <2>1, <3>1, DeclaredNames
    <3>3. SameBodies(doc, doc')
      BY <2>1, <2>4, <3>2, DeclareSetBodies
    <3>4. ASSUME NEW s \in Declarers(doc)
          PROVE  NoNewRefs(ParametersAt(doc, s), ParametersAt(doc', s))
      <4>1. ParametersAt(doc', s) = IF s = q THEN g ELSE ParametersAt(doc, s)
        BY <2>1, <2>4, <3>2, DeclareSetParsed
      <4> QED
        BY <3>1, <4>1 DEF NoNewRefs
    <3> QED
      BY <2>1, <2>7, <3>3, <3>4, FewerOccurrences
  <2>9. ~IsUndefined(doc, o) /\ ~o.ref.quoted
    BY <2>7, <2>8 DEF UndefinedReferences, IsUndefined
  <2>10. CASE o.ref.scope = "pipeline.parameters"
    <3>1. o.ref.name \in DOMAIN ParametersAt(doc, Pipeline) \ DOMAIN ParametersAt(doc', Pipeline)
      BY <2>7, <2>9, <2>10 DEF IsUndefined, ParametersAt
    <3>2. Pipeline = q /\ o.ref.name = m
      BY <3>1, <2>5 DEF Declarers
    <3> QED
      BY <2>6, <2>8, <3>2 DEF getParamReferences
  <2>11. CASE o.ref.scope # "pipeline.parameters"
    <3>1. o.ref.name \in GetParamsWithPosition(doc, o.at) \ GetParamsWithPosition(doc', o.at)
      BY <2>7, <2>9, <2>11 DEF IsUndefined
    <3>2. /\ o.at \in DOMAIN doc.entities
          /\ o.ref.name \in DOMAIN ParametersAt(doc, o.at) \ DOMAIN ParametersAt(doc', o.at)
      BY <3>1, <2>5 DEF GetParamsWithPosition
    <3>3. o.at = q /\ o.ref.name = m
      BY <3>2, <2>5 DEF Declarers
    <3> QED
      BY <2>6, <2>8, <3>3 DEF getParamReferences
  <2> QED
    BY <2>10, <2>11
<1> QED
  BY <1>1, TypeCorrect, PTL DEF Spec, RemovalShowsInReferences
-----------------------------------------------------------------------------
(* A parameter that is the same, or has just been given a default that its        *)
(* declaration takes.                                                       *)
TakenDefault(d, q) ==
  /\ q.type = "enum" => q.default.kind = "text" /\ q.default.word \in q.enum
  /\ GetType(q) = "executor" => NamesExecutor(d, q.default)
Improved(d, q, r) ==
  \/ r = q
  \/ r.type = q.type /\ r.enum = q.enum /\ q.default = None /\ TakenDefault(d, r)
Better(d, f, g, n) ==
  /\ n \in DOMAIN f <=> n \in DOMAIN g
  /\ n \in DOMAIN f => Improved(d, f[n], g[n])
AllBetter(d, f, g) == \A n : Better(d, f, g, n)

LEMMA NotOptional ==
  ASSUME NEW q, q.default = None
  PROVE  ~IsOptional(q) /\ DefaultWord(q) = None
BY DEF IsOptional, DefaultWord

LEMMA ImprovedFacts ==
  ASSUME NEW d, NEW q, NEW r, Improved(d, q, r)
  PROVE  /\ r.type = q.type /\ r.enum = q.enum /\ GetType(r) = GetType(q)
         /\ IsOptional(q) => IsOptional(r)
         /\ checkEnumTypeDefinition(q) => checkEnumTypeDefinition(r)
         /\ DefaultWord(q) \in WhenKeywords => DefaultWord(r) \in WhenKeywords
         /\ GetType(q) = "executor" /\ IsOptional(r) /\ ~NamesExecutor(d, r.default) =>
              IsOptional(q) /\ ~NamesExecutor(d, q.default)
<1>1. CASE r = q
  BY <1>1
<1>2. CASE r.type = q.type /\ r.enum = q.enum /\ q.default = None /\ TakenDefault(d, r)
  <2>1. ~IsOptional(q) /\ DefaultWord(q) \notin WhenKeywords
    BY <1>2, NotOptional, KeywordAssumption
  <2>2. checkEnumTypeDefinition(r)
    BY <1>2 DEF checkEnumTypeDefinition, TakenDefault
  <2>3. GetType(r) = GetType(q)
    BY <1>2 DEF GetType
  <2> QED
    BY <1>2, <2>1, <2>2, <2>3 DEF TakenDefault
<1> QED
  BY <1>1, <1>2 DEF Improved

(* What the validator says of one value depends on the entities there are, on    *)
(* the declaration and, for a reference, on the pipeline parameter it names.     *)
SameEntities(c, d) == DOMAIN d.entities = DOMAIN c.entities
SameJudge(c, d, v) ==
  SameEntities(c, d) /\ (IsReference(v) => Better(c, c.pipeline, d.pipeline, v.name))

LEMMA EntitiesSame ==
  ASSUME NEW c, NEW d, SameEntities(c, d)
  PROVE  /\ \A k : Entities(d, k) = Entities(c, k)
         /\ \A v : NamesExecutor(d, v) <=> NamesExecutor(c, v)
         /\ \A v : ExecutorValue(d, v) <=> ExecutorValue(c, v)
         /\ \A v : StepsValue(d, v) <=> StepsValue(c, v)
<1>1. \A k : Entities(d, k) = Entities(c, k)
  BY DEF SameEntities, Entities
<1>2. \A v : NamesExecutor(d, v) <=> NamesExecutor(c, v)
  BY <1>1 DEF NamesExecutor
<1> QED
  BY <1>1, <1>2 DEF ExecutorValue, StepsValue

LEMMA AcceptsAlike ==
  ASSUME NEW c, NEW d, NEW q, NEW r, NEW v, SameJudge(c, d, v), Improved(c, q, r)
  PROVE  AcceptsValue(d, r, v) <=> AcceptsValue(c, q, v)
<1>1. r.enum = q.enum /\ GetType(r) = GetType(q)
  BY ImprovedFacts
<1>2. (ExecutorValue(d, v) <=> ExecutorValue(c, v)) /\ (StepsValue(d, v) <=> StepsValue(c, v))
  BY EntitiesSame DEF SameJudge
<1>3. SimpleValue(d, r, v) <=> SimpleValue(c, q, v)
  <2>1. CASE IsReference(v)
    <3>1. v.name \in DOMAIN c.pipeline <=> v.name \in DOMAIN d.pipeline
      BY <2>1 DEF SameJudge, Better
    <3>2. v.name \in DOMAIN c.pipeline => GetType(d.pipeline[v.name]) = GetType(c.pipeline[v.name])
      BY <2>1, ImprovedFacts DEF SameJudge, Better
    <3> QED
      BY <1>1, <2>1, <3>1, <3>2 DEF SimpleValue
  <2>2. CASE ~IsReference(v)
    BY <1>1, <2>2 DEF SimpleValue
  <2> QED
    BY <2>1, <2>2
<1>4. CASE GetType(q) = "enum"
  BY <1>1, <1>4 DEF AcceptsValue
<1>5. CASE GetType(q) = "executor"
  BY <1>1, <1>2, <1>5 DEF AcceptsValue
<1>6. CASE GetType(q) = "steps"
  BY <1>1, <1>2, <1>6 DEF AcceptsValue
<1>7. CASE GetType(q) = "env_var_name"
  BY <1>1, <1>7 DEF AcceptsValue
<1>8. CASE GetType(q) \notin {"enum", "executor", "steps", "env_var_name"}
  <2>1. AcceptsValue(c, q, v) <=> SimpleValue(c, q, v)
    BY <1>8 DEF AcceptsValue
  <2>2. AcceptsValue(d, r, v) <=> SimpleValue(d, r, v)
    BY <1>1, <1>8 DEF AcceptsValue
  <2> QED
    BY <1>3, <2>1, <2>2
<1> QED
  BY <1>4, <1>5, <1>6, <1>7, <1>8

LEMMA FitsAlike ==
  ASSUME NEW c, NEW d, NEW q, NEW r, NEW v, SameJudge(c, d, v), Improved(c, q, r),
         NEW f, NEW g, AllBetter(c, f, g)
  PROVE  Fits(d, r, v, g) <=> Fits(c, q, v, f)
<1>1. CASE CheckIfOnlyParamUsed(v)
  <2> DEFINE of(e, usable) == IF v.scope = "pipeline.parameters" THEN e.pipeline ELSE usable
  <2>1. Better(c, of(c, f), of(d, g), v.name)
    BY <1>1 DEF SameJudge, CheckIfOnlyParamUsed, AllBetter
  <2> HIDE DEF of
  <2>2. /\ v.name \in DOMAIN of(c, f) <=> v.name \in DOMAIN of(d, g)
        /\ v.name \in DOMAIN of(c, f) => SameType(r, of(d, g)[v.name]) = SameType(q, of(c, f)[v.name])
    BY <2>1, ImprovedFacts DEF Better, SameType
  <2>3. AcceptsReference(d, r, v, g) <=> AcceptsReference(c, q, v, f)
    BY <2>2 DEF AcceptsReference, of
  <2> QED
    BY <1>1, <2>3 DEF Fits
<1>2. CASE ~CheckIfOnlyParamUsed(v)
  BY <1>2, AcceptsAlike DEF Fits
<1> QED
  BY <1>1, <1>2

LEMMA ArgumentsBetter ==
  ASSUME NEW c, NEW d, NEW at, NEW entity, NEW f, NEW g, NEW args, AllBetter(c, f, g),
         AllBetter(c, ParametersAt(c, at), ParametersAt(d, at)),
         \A n \in DOMAIN args : SameJudge(c, d, args[n])
  PROVE  ArgumentErrors(d, at, entity, g, args) \subseteq ArgumentErrors(c, at, entity, f, args)
<1>1. DOMAIN g = DOMAIN f /\ \A n \in DOMAIN f : Improved(c, f[n], g[n])
  BY DEF AllBetter, Better
<1>2. Missing(g, args) \subseteq Missing(f, args)
  BY <1>1, ImprovedFacts DEF Missing
<1>3. Unknown(g, args) = Unknown(f, args) /\ Both(g, args) = Both(f, args)
  BY <1>1 DEF Unknown, Both
<1>4. ASSUME NEW n \in Both(f, args)
      PROVE  Fits(d, g[n], args[n], ParametersAt(d, at)) <=> Fits(c, f[n], args[n], ParametersAt(c, at))
  BY <1>1, FitsAlike DEF Both
<1> QED
  BY <1>2, <1>3, <1>4 DEF ArgumentErrors

(* Every reference the validator looks at is an occurrence where it looks.       *)
Seen(d, at, v) == \E o \in Occurrences(d) : o.at = at /\ o.ref = v

LEMMA InEntitySeen ==
  ASSUME NEW d, NEW p \in DOMAIN d.entities, NEW o \in InEntity(d, p)
  PROVE  o \in Occurrences(d)
BY DEF Occurrences

LEMMA GivenValues ==
  ASSUME NEW args
  PROVE  /\ DOMAIN Given(args) \subseteq DOMAIN args
         /\ \A n \in DOMAIN Given(args) : Given(args)[n] = args[n] /\ args[n] # None
BY DEF Given, parseParameterValue

LEMMA ArgumentSeen ==
  ASSUME NEW at, NEW path, NEW args, NEW n \in DOMAIN Given(args), IsReference(args[n])
  PROVE  Occurrence(at, args[n], Append(path, n)) \in InArguments(at, path, args)
<1>1. n \in DOMAIN args /\ args[n] # None
  BY GivenValues
<1>2. args[n] \in RefsIn(args[n])
  BY <1>1 DEF RefsIn, IsReference
<1> DEFINE Each(m) == {Occurrence(at, r, Append(path, m)) : r \in RefsIn(args[m])}
<1>3. Occurrence(at, args[n], Append(path, n)) \in Each(n)
  BY <1>2
<1> HIDE DEF Each
<1>4. Occurrence(at, args[n], Append(path, n)) \in UNION {Each(m) : m \in DOMAIN args}
  BY <1>1, <1>3
<1> QED
  BY <1>4 DEF InArguments, Each

LEMMA ParsedStep ==
  ASSUME NEW steps, NEW s \in parseSteps(steps)
  PROVE  \E t \in Written(steps) : s \in parseStep(t)
<1> DEFINE Parse(t) == IF t.kind = "when" THEN UNION {parseStep(u) : u \in t.steps} ELSE parseStep(t)
           Write(t) == IF t.kind = "when" THEN t.steps ELSE {t}
<1>1. PICK t \in steps : s \in Parse(t)
  BY DEF parseSteps
<1>2. \E u \in Write(t) : s \in parseStep(u)
  BY <1>1
<1>3. Write(t) \subseteq UNION {Write(u) : u \in steps}
  OBVIOUS
<1>4. Written(steps) = UNION {Write(u) : u \in steps}
  BY DEF Written
<1> HIDE DEF Write
<1> QED
  BY <1>2, <1>3, <1>4

LEMMA StepSeen ==
  ASSUME NEW d, NEW p \in DOMAIN d.entities, NEW t \in Written(d.entities[p].steps), NEW o \in InStep(p, t)
  PROVE  o \in Occurrences(d)
<1>1. o \in UNION {InStep(p, u) : u \in Written(d.entities[p].steps)}
  OBVIOUS
<1>2. o \in InEntity(d, p)
  BY <1>1 DEF InEntity
<1> QED
  BY <1>2, InEntitySeen

LEMMA CallSeen ==
  ASSUME NEW d, NEW p \in DOMAIN d.entities, NEW s \in StepsAt(d, p), s.kind = "call",
         NEW n \in DOMAIN s.args, IsReference(s.args[n])
  PROVE  Seen(d, p, s.args[n])
<1>1. PICK t \in Written(d.entities[p].steps) : s \in parseStep(t)
  BY ParsedStep DEF StepsAt
<1>2. t.kind = "call" /\ s = Call(t.name, Given(t.args))
  BY <1>1 DEF parseStep
<1>3. s.args = Given(t.args)
  BY <1>2 DEF Call
<1>4. n \in DOMAIN Given(t.args) /\ s.args[n] = t.args[n]
  BY <1>3, GivenValues
<1> DEFINE path == <<p.name, t.name>>
           o == Occurrence(p, t.args[n], Append(path, n))
<1>5. o \in InArguments(p, path, t.args)
  BY <1>4, ArgumentSeen
<1>6. o.at = p /\ o.ref = t.args[n]
  BY DEF Occurrence
<1> HIDE DEF o
<1>7. o \in InStep(p, t)
  BY <1>2, <1>5 DEF InStep
<1>8. o \in Occurrences(d)
  BY <1>7, StepSeen
<1> QED
  BY <1>4, <1>6, <1>8 DEF Seen

LEMMA WhenSeen ==
  ASSUME NEW d, NEW p \in DOMAIN d.entities, NEW s \in StepsAt(d, p), s.kind = "run",
         s.when # None, IsReference(s.when)
  PROVE  Seen(d, p, s.when)
<1>1. PICK t \in Written(d.entities[p].steps) : s \in parseStep(t)
  BY ParsedStep DEF StepsAt
<1>2. t = s
  BY <1>1 DEF parseStep, Call
<1> DEFINE o == Occurrence(p, s.when, <<p.name>>)
<1>3. s.when \in RefsIn(s.when)
  BY DEF RefsIn, IsReference
<1>4. o.at = p /\ o.ref = s.when
  BY DEF Occurrence
<1>5. o \in InStep(p, t)
  BY <1>2, <1>3 DEF InStep
<1> HIDE DEF o
<1>6. o \in Occurrences(d)
  BY <1>1, <1>5, StepSeen
<1> QED
  BY <1>4, <1>6 DEF Seen

LEMMA ExecutorSeen ==
  ASSUME NEW d, NEW p \in DOMAIN d.entities, NEW e, e = d.entities[p].executor, e # None,
         NEW n \in DOMAIN Given(e.args), IsReference(Given(e.args)[n])
  PROVE  Seen(d, p, Given(e.args)[n])
<1> DEFINE o == Occurrence(p, e.args[n], Append(<<p.name>>, n))
<1>1. Given(e.args)[n] = e.args[n]
  BY GivenValues
<1>2. o \in InArguments(p, <<p.name>>, e.args)
  BY <1>1, ArgumentSeen
<1>3. o.at = p /\ o.ref = e.args[n]
  BY DEF Occurrence
<1> HIDE DEF o
<1>4. o \in InEntity(d, p)
  BY <1>2 DEF InEntity
<1>5. o \in Occurrences(d)
  BY <1>4, InEntitySeen
<1> QED
  BY <1>1, <1>3, <1>5 DEF Seen

LEMMA InvocationSeen ==
  ASSUME NEW d, NEW i \in d.invocations, NEW n \in DOMAIN Given(i.args), IsReference(Given(i.args)[n])
  PROVE  Seen(d, Workflow, Given(i.args)[n])
<1> DEFINE o == Occurrence(Workflow, i.args[n], Append(<<i.job>>, n))
           Each(j) == InArguments(Workflow, <<j.job>>, j.args)
<1>1. Given(i.args)[n] = i.args[n]
  BY GivenValues
<1>2. o \in Each(i)
  BY <1>1, ArgumentSeen
<1>3. o.at = Workflow /\ o.ref = i.args[n]
  BY DEF Occurrence
<1> HIDE DEF o, Each
<1>4. o \in UNION {Each(j) : j \in d.invocations}
  BY <1>2
<1>5. o \in Occurrences(d)
  BY <1>4 DEF Occurrences, Each
<1> QED
  BY <1>1, <1>3, <1>5 DEF Seen

(* From one document to another with the same steps, executors and invocations;   *)
(* DeclaredBetter: as to the parameters of a place and of what has a name,       *)
(* PipelineBetter: as to the pipeline parameters that place refers to.           *)
SameUses(c, d) ==
  /\ SameEntities(c, d) /\ d.invocations = c.invocations
  /\ \A q \in DOMAIN c.entities :
       d.entities[q].steps = c.entities[q].steps /\ d.entities[q].executor = c.entities[q].executor
DeclaredBetter(c, d, at, name) ==
  \A q \in DOMAIN c.entities :
    q = at \/ q.name = name => AllBetter(c, ParametersAt(c, q), ParametersAt(d, q))
PipelineBetter(c, d, at) ==
  \A o \in Occurrences(c) : o.at = at => Better(c, c.pipeline, d.pipeline, o.ref.name)

LEMMA SeenJudge ==
  ASSUME NEW c, NEW d, SameEntities(c, d), NEW at, PipelineBetter(c, d, at), NEW v,
         IsReference(v) => Seen(c, at, v)
  PROVE  SameJudge(c, d, v)
BY DEF PipelineBetter, Seen, SameJudge

LEMMA SameIsBetter ==
  ASSUME NEW d, NEW f
  PROVE  AllBetter(d, f, f)
BY DEF AllBetter, Better, Improved

LEMMA NotPipeline ==
  ASSUME NEW k \in {"job", "command", "executor"}, NEW name
  PROVE  Place(k, name) # Pipeline /\ Place(k, name).name = name
<1>1. Place(k, name).kind = k /\ Pipeline.kind = "pipeline"
  BY DEF Place, Pipeline
<1> QED
  BY <1>1 DEF Place

LEMMA PlaceBetter ==
  ASSUME NEW c, NEW d, SameEntities(c, d), NEW at, NEW name, DeclaredBetter(c, d, at, name),
         NEW q, q # Pipeline, q = at \/ q.name = name
  PROVE  AllBetter(c, ParametersAt(c, q), ParametersAt(d, q))
<1>1. CASE q \in DOMAIN c.entities
  BY <1>1 DEF DeclaredBetter
<1>2. CASE q \notin DOMAIN c.entities
  <2>1. ParametersAt(c, q) = NoArguments /\ ParametersAt(d, q) = NoArguments
    BY <1>2 DEF ParametersAt, SameEntities
  <2> QED
    BY <2>1, SameIsBetter
<1> QED
  BY <1>1, <1>2

LEMMA CalleeBetter ==
  ASSUME NEW c, NEW d, SameEntities(c, d), NEW at, NEW name, DeclaredBetter(c, d, at, name)
  PROVE  AllBetter(c, GetDefinedParams(c, name), GetDefinedParams(d, name))
<1>1. \A k \in {"job", "command"} :
        AllBetter(c, ParametersAt(c, Place(k, name)), ParametersAt(d, Place(k, name)))
  BY NotPipeline, PlaceBetter
<1>2. Entities(d, "job") = Entities(c, "job")
  BY EntitiesSame
<1>3. CASE name \in Entities(c, "job")
  BY <1>1, <1>2, <1>3 DEF GetDefinedParams
<1>4. CASE name \notin Entities(c, "job")
  BY <1>1, <1>2, <1>4 DEF GetDefinedParams
<1> QED
  BY <1>3, <1>4

(* No error of a step, an executor or an invocation comes where nothing it looks   *)
(* at got worse.                                                            *)
LEMMA CallBetter ==
  ASSUME NEW c, NEW d, SameEntities(c, d), NEW at \in DOMAIN c.entities, at # Pipeline,
         NEW s \in StepsAt(c, at), s.kind = "call",
         DeclaredBetter(c, d, at, s.name), PipelineBetter(c, d, at)
  PROVE  CallErrors(d, at, s) \subseteq CallErrors(c, at, s)
<1>1. AllBetter(c, GetDefinedParams(c, s.name), GetDefinedParams(d, s.name))
  BY CalleeBetter
<1>2. AllBetter(c, ParametersAt(c, at), ParametersAt(d, at))
  BY PlaceBetter
<1>3. \A n \in DOMAIN s.args : SameJudge(c, d, s.args[n])
  BY CallSeen, SeenJudge
<1>4. ArgumentErrors(d, at, s.name, GetDefinedParams(d, s.name), s.args) \subseteq
        ArgumentErrors(c, at, s.name, GetDefinedParams(c, s.name), s.args)
  BY <1>1, <1>2, <1>3, ArgumentsBetter
<1>5. Entities(d, "job") = Entities(c, "job") /\ Entities(d, "command") = Entities(c, "command")
  BY EntitiesSame
<1> QED
  BY <1>4, <1>5 DEF CallErrors

LEMMA WhenBetter ==
  ASSUME NEW c, NEW d, SameEntities(c, d), NEW at \in DOMAIN c.entities, at # Pipeline,
         NEW s \in StepsAt(c, at), s.kind = "run",
         DeclaredBetter(c, d, at, at.name), PipelineBetter(c, d, at)
  PROVE  WhenErrors(d, at, s.when) \subseteq WhenErrors(c, at, s.when)
<1> DEFINE v == s.when
<1>1. CASE v # None /\ CheckIfOnlyParamUsed(v)
  <2> DEFINE of(e) == IF v.scope = "pipeline.parameters" THEN e.pipeline ELSE ParametersAt(e, at)
  <2>1. Better(c, c.pipeline, d.pipeline, v.name)
    BY <1>1, WhenSeen, SeenJudge DEF SameJudge, CheckIfOnlyParamUsed
  <2>2. Better(c, ParametersAt(c, at), ParametersAt(d, at), v.name)
    BY PlaceBetter DEF AllBetter
  <2>3. Better(c, of(c), of(d), v.name)
    BY <2>1, <2>2
  <2> HIDE DEF of
  <2>4. /\ v.name \in DOMAIN of(d) => v.name \in DOMAIN of(c)
        /\ v.name \in DOMAIN of(d) => Improved(c, of(c)[v.name], of(d)[v.name])
    BY <2>3 DEF Better
  <2>5. WhenParameterIsBad(d, at, v) => WhenParameterIsBad(c, at, v)
    BY <2>4, ImprovedFacts DEF WhenParameterIsBad, of
  <2> QED
    BY <1>1, <2>5 DEF WhenErrors
<1>2. CASE ~(v # None /\ CheckIfOnlyParamUsed(v))
  BY <1>2 DEF WhenErrors
<1> QED
  BY <1>1, <1>2

LEMMA StepsFromBetter ==
  ASSUME NEW c, NEW d, SameEntities(c, d), NEW at, NEW s, DeclaredBetter(c, d, at, at.name)
  PROVE  StepsFromErrors(d, at, s) \subseteq StepsFromErrors(c, at, s)
<1> DEFINE of(e) == ParametersAt(e, Place("command", at.name))
<1>1. AllBetter(c, of(c), of(d))
  BY NotPipeline, PlaceBetter
<1>2. /\ s.name \in DOMAIN of(d) <=> s.name \in DOMAIN of(c)
      /\ s.name \in DOMAIN of(c) => GetType(of(d)[s.name]) = GetType(of(c)[s.name])
  <2>1. Better(c, of(c), of(d), s.name)
    BY <1>1 DEF AllBetter
  <2> HIDE DEF of
  <2> QED
    BY <2>1, ImprovedFacts DEF Better
<1> QED
  BY <1>2 DEF StepsFromErrors

LEMMA ExecutorBetter ==
  ASSUME NEW c, NEW d, SameEntities(c, d), NEW at \in DOMAIN c.entities, at # Pipeline,
         NEW e, e = c.entities[at].executor, e # None, PipelineBetter(c, d, at),
         DeclaredBetter(c, d, at, IF NamesExecutor(c, e.name) THEN e.name.word ELSE at.name)
  PROVE  ExecutorErrors(d, at, e) \subseteq ExecutorErrors(c, at, e)
<1> DEFINE n == e.name.name
           of(g) == ParametersAt(g, at)
<1>1. AllBetter(c, of(c), of(d))
  BY PlaceBetter
<1>2. NamesExecutor(d, e.name) <=> NamesExecutor(c, e.name)
  BY EntitiesSame
<1>3. CASE CheckIfOnlyParamUsed(e.name)
  <2> DEFINE Bad(g) == /\ n \in DOMAIN of(g) /\ GetType(of(g)[n]) = "executor" /\ IsOptional(of(g)[n])
                       /\ ~NamesExecutor(g, of(g)[n].default)
  <2>1. /\ n \in DOMAIN of(d) => n \in DOMAIN of(c)
        /\ n \in DOMAIN of(d) => Improved(c, of(c)[n], of(d)[n])
    BY <1>1 DEF AllBetter, Better
  <2>2. Bad(d) => Bad(c)
    <3> HIDE DEF of, n
    <3> SUFFICES ASSUME Bad(d) PROVE Bad(c)
      OBVIOUS
    <3>1. n \in DOMAIN of(c) /\ Improved(c, of(c)[n], of(d)[n])
      BY <2>1
    <3>2. GetType(of(c)[n]) = GetType(of(d)[n])
      BY <3>1, ImprovedFacts
    <3>3. ~NamesExecutor(c, of(d)[n].default)
      BY EntitiesSame
    <3> QED
      BY <3>1, <3>2, <3>3, ImprovedFacts
  <2>3. \A g : ExecutorErrors(g, at, e) = IF Bad(g) THEN {Error("executor", at, at.name, n)} ELSE {}
    BY <1>3 DEF ExecutorErrors
  <2> HIDE DEF Bad
  <2> QED
    BY <2>2, <2>3
<1>4. CASE ~CheckIfOnlyParamUsed(e.name) /\ ~NamesExecutor(c, e.name)
  BY <1>2, <1>4 DEF ExecutorErrors
<1>5. CASE ~CheckIfOnlyParamUsed(e.name) /\ NamesExecutor(c, e.name)
  <2> DEFINE q == Place("executor", e.name.word)
  <2>1. AllBetter(c, ParametersAt(c, q), ParametersAt(d, q))
    BY <1>5, NotPipeline, PlaceBetter
  <2>2. \A m \in DOMAIN Given(e.args) : SameJudge(c, d, Given(e.args)[m])
    BY ExecutorSeen, SeenJudge
  <2>3. \A g : NamesExecutor(g, e.name) =>
          ExecutorErrors(g, at, e) = ArgumentErrors(g, at, e.name.word, ParametersAt(g, q), Given(e.args))
    BY <1>5 DEF ExecutorErrors
  <2> HIDE DEF q
  <2>4. ArgumentErrors(d, at, e.name.word, ParametersAt(d, q), Given(e.args)) \subseteq
          ArgumentErrors(c, at, e.name.word, ParametersAt(c, q), Given(e.args))
    BY <1>1, <2>1, <2>2, ArgumentsBetter
  <2> QED
    BY <1>2, <1>5, <2>3, <2>4
<1> QED
  BY <1>3, <1>4, <1>5

LEMMA InvocationBetter ==
  ASSUME NEW c, NEW d, SameEntities(c, d), NEW i \in c.invocations, PlainMatrix(i),
         DeclaredBetter(c, d, Workflow, i.job), PipelineBetter(c, d, Workflow)
  PROVE  InvocationErrors(d, i) \subseteq InvocationErrors(c, i)
<1> DEFINE f == GetDefinedParams(c, i.job)
           g == GetDefinedParams(d, i.job)
           args == Given(i.args)
           matrix == Given(i.matrix)
           Bad(e, h, n) == IF n \in DOMAIN matrix THEN ~MatrixAccepts(e, h[n], matrix[n])
                                                  ELSE ~AcceptsValue(e, h[n], args[n])
           names == DOMAIN args \union DOMAIN matrix
           Each(what, ns) == {Error(what, Workflow, i.job, n) : n \in ns}
           All(e, h) == Each("required", Missing(h, args) \ DOMAIN matrix)
                        \union Each("not defined", Unknown(h, args))
                        \union Each("wrong value", {n \in DOMAIN h \intersect names : Bad(e, h, n)})
<1>1. DOMAIN g = DOMAIN f /\ \A n \in DOMAIN f : Improved(c, f[n], g[n])
  <2>1. AllBetter(c, f, g)
    BY CalleeBetter
  <2> QED
    BY <2>1 DEF AllBetter, Better
<1>2. Entities(d, "job") = Entities(c, "job")
  BY EntitiesSame
<1>3. \A n \in DOMAIN args : SameJudge(c, d, args[n])
  BY InvocationSeen, SeenJudge
<1>4. ASSUME NEW n \in DOMAIN matrix, NEW q, NEW r, Improved(c, q, r)
      PROVE  MatrixAccepts(d, r, matrix[n]) <=> MatrixAccepts(c, q, matrix[n])
  <2>1. n \in DOMAIN i.matrix /\ matrix[n] = i.matrix[n]
    BY GivenValues
  <2>2. CASE matrix[n].kind = "list"
    <3>1. \A v \in Items(matrix[n]) : SameJudge(c, d, v)
      BY <2>1, <2>2 DEF PlainMatrix, Items, SameJudge
    <3>2. \A v \in Items(matrix[n]) : AcceptsValue(d, r, v) <=> AcceptsValue(c, q, v)
      BY <1>4, <3>1, AcceptsAlike
    <3> QED
      BY <2>2, <3>2 DEF MatrixAccepts
  <2>3. CASE matrix[n].kind # "list"
    BY <2>3 DEF MatrixAccepts
  <2> QED
    BY <2>2, <2>3
<1>5. \A h : i.job \in Entities(c, "job") =>
        InvocationErrors(c, i) = All(c, f) /\ InvocationErrors(d, i) = All(d, g)
  BY <1>2 DEF InvocationErrors
<1> HIDE DEF f, g, args, matrix
<1>6. Missing(g, args) \subseteq Missing(f, args) /\ Unknown(g, args) = Unknown(f, args)
  BY <1>1, ImprovedFacts DEF Missing, Unknown
<1>7. ASSUME NEW n \in DOMAIN g \intersect names, Bad(d, g, n)
      PROVE  n \in DOMAIN f /\ Bad(c, f, n)
  <2>1. n \in DOMAIN f /\ Improved(c, f[n], g[n])
    BY <1>1
  <2>2. CASE n \in DOMAIN matrix
    BY <1>4, <1>7, <2>1, <2>2
  <2>3. CASE n \notin DOMAIN matrix
    <3>1. n \in DOMAIN args
      BY <2>3
    <3>2. AcceptsValue(d, g[n], args[n]) <=> AcceptsValue(c, f[n], args[n])
      BY <1>3, <2>1, <3>1, AcceptsAlike
    <3> QED
      BY <1>7, <2>1, <2>3, <3>2
  <2> QED
    BY <2>2, <2>3
<1>8. All(d, g) \subseteq All(c, f)
  <2> HIDE DEF Bad, names
  <2> QED
    BY <1>6, <1>7
<1>9. CASE i.job \in Entities(c, "job")
  <2> HIDE DEF All
  <2> QED
    BY <1>5, <1>8, <1>9
<1>10. CASE i.job \notin Entities(c, "job")
  BY <1>2, <1>10 DEF InvocationErrors
<1> QED
  BY <1>9, <1>10

(* Where an error is, and of what.                                          *)
LEMMA ErrorFields ==
  ASSUME NEW what, NEW at, NEW entity, NEW n
  PROVE  Error(what, at, entity, n).at = at /\ Error(what, at, entity, n).entity = entity
BY DEF Error

LEMMA ArgumentErrorFields ==
  ASSUME NEW d, NEW at, NEW entity, NEW f, NEW args, NEW e \in ArgumentErrors(d, at, entity, f, args)
  PROVE  e.at = at /\ e.entity = entity
<1>1. \E what, n : e = Error(what, at, entity, n)
  BY DEF ArgumentErrors
<1> QED
  BY <1>1, ErrorFields

LEMMA StepErrorFields ==
  ASSUME NEW d, NEW at, NEW s, NEW e \in StepErrors(d, at, s)
  PROVE  /\ e.at = at
         /\ (s.kind = "call" /\ e.entity = s.name) \/ (s.kind \in {"run", "steps"} /\ e.entity = at.name)
<1>1. CASE s.kind = "call"
  <2>1. e \in CallErrors(d, at, s)
    BY <1>1 DEF StepErrors
  <2>2. (\E what : e = Error(what, at, s.name, None))
          \/ e \in ArgumentErrors(d, at, s.name, GetDefinedParams(d, s.name), s.args)
    BY <2>1 DEF CallErrors
  <2>3. e.at = at /\ e.entity = s.name
    BY <2>2, ErrorFields, ArgumentErrorFields
  <2> QED
    BY <1>1, <2>3
<1>2. CASE s.kind = "run"
  <2>1. \E what : e = Error(what, at, at.name, None)
    BY <1>2 DEF StepErrors, WhenErrors
  <2>2. e.at = at /\ e.entity = at.name
    BY <2>1, ErrorFields
  <2> QED
    BY <1>2, <2>2
<1>3. CASE s.kind = "steps"
  <2>1. \E what : e = Error(what, at, at.name, s.name)
    BY <1>3 DEF StepErrors, StepsFromErrors
  <2>2. e.at = at /\ e.entity = at.name
    BY <2>1, ErrorFields
  <2> QED
    BY <1>3, <2>2
<1>4. CASE s.kind \notin {"call", "run", "steps"}
  BY <1>4 DEF StepErrors
<1> QED
  BY <1>1, <1>2, <1>3, <1>4

LEMMA ExecutorErrorFields ==
  ASSUME NEW d, NEW at, NEW x, NEW e \in ExecutorErrors(d, at, x)
  PROVE  e.at = at /\ e.entity = IF NamesExecutor(d, x.name) THEN x.name.word ELSE at.name
<1>1. CASE NamesExecutor(d, x.name)
  <2>1. ~CheckIfOnlyParamUsed(x.name)
    BY <1>1 DEF NamesExecutor, CheckIfOnlyParamUsed, IsReference
  <2>2. e \in ArgumentErrors(d, at, x.name.word, ParametersAt(d, Place("executor", x.name.word)), Given(x.args))
    BY <1>1, <2>1 DEF ExecutorErrors
  <2> QED
    BY <1>1, <2>2, ArgumentErrorFields
<1>2. CASE ~NamesExecutor(d, x.name)
  <2>1. \E n : e = Error("executor", at, at.name, n)
    BY <1>2 DEF ExecutorErrors
  <2> QED
    BY <1>2, <2>1, ErrorFields
<1> QED
  BY <1>1, <1>2

LEMMA InvocationErrorFields ==
  ASSUME NEW d, NEW i, NEW e \in InvocationErrors(d, i)
  PROVE  e.at = Workflow /\ e.entity = i.job
<1>1. \E what, n : e = Error(what, Workflow, i.job, n)
  BY DEF InvocationErrors
<1> QED
  BY <1>1, ErrorFields

(* The declarations an error is judged by are better.                         *)
JudgedBetter(c, d, e) ==
  /\ DeclaredBetter(c, d, e.at, e.entity) /\ PipelineBetter(c, d, e.at)
  /\ e.at = Pipeline => AllBetter(c, c.pipeline, d.pipeline)

LEMMA StepBetter ==
  ASSUME NEW c, NEW d, SameEntities(c, d), NEW at \in DOMAIN c.entities, at # Pipeline,
         NEW s \in StepsAt(c, at), NEW e \in StepErrors(d, at, s), JudgedBetter(c, d, e)
  PROVE  e \in StepErrors(c, at, s)
<1>1. /\ e.at = at
      /\ (s.kind = "call" /\ e.entity = s.name) \/ (s.kind \in {"run", "steps"} /\ e.entity = at.name)
  BY StepErrorFields
<1>2. DeclaredBetter(c, d, at, e.entity) /\ PipelineBetter(c, d, at)
  BY <1>1 DEF JudgedBetter
<1>3. CASE s.kind = "call"
  <2>1. e.entity = s.name
    BY <1>1, <1>3
  <2>2. CallErrors(d, at, s) \subseteq CallErrors(c, at, s)
    BY <1>2, <1>3, <2>1, CallBetter
  <2> QED
    BY <1>3, <2>2 DEF StepErrors
<1>4. CASE s.kind = "run"
  <2>1. e.entity = at.name
    BY <1>1, <1>4
  <2>2. WhenErrors(d, at, s.when) \subseteq WhenErrors(c, at, s.when)
    BY <1>2, <1>4, <2>1, WhenBetter
  <2> QED
    BY <1>4, <2>2 DEF StepErrors
<1>5. CASE s.kind = "steps"
  <2>1. e.entity = at.name
    BY <1>1, <1>5
  <2>2. StepsFromErrors(d, at, s) \subseteq StepsFromErrors(c, at, s)
    BY <1>2, <2>1, StepsFromBetter
  <2> QED
    BY <1>5, <2>2 DEF StepErrors
<1> QED
  BY <1>1, <1>3, <1>4, <1>5

Undefined(d) == {Error("undefined", o.at, None, o.ref.name) : o \in UndefinedReferences(d)}

LEMMA ErrorsBetter ==
  ASSUME NEW c, NEW d, Parsed(c), SameUses(c, d), NEW e \in Errors(d), JudgedBetter(c, d, e)
  PROVE  e \in Errors(c) \/ e \in Undefined(d)
<1>1. SameEntities(c, d) /\ DOMAIN d.entities = DOMAIN c.entities /\ d.invocations = c.invocations
  BY DEF SameUses, SameEntities
<1>2. Pipeline \notin DOMAIN c.entities
  BY PipelineIsNoEntity DEF Parsed
<1>3. ASSUME e \in EnumErrors(d)
      PROVE  e \in EnumErrors(c)
  <2> DEFINE Bad(g, p) == {n \in DOMAIN ParametersAt(g, p) : ~checkEnumTypeDefinition(ParametersAt(g, p)[n])}
             Each(g, p) == {Error("enum", p, p.name, n) : n \in Bad(g, p)}
  <2>1. \A g : EnumErrors(g) = UNION {Each(g, p) : p \in DOMAIN g.entities \union {Pipeline}}
    BY DEF EnumErrors
  <2>2. PICK p \in DOMAIN c.entities \union {Pipeline} : e \in Each(d, p)
    BY <1>1, <1>3, <2>1
  <2>3. e.at = p
    BY <2>2, ErrorFields
  <2>4. AllBetter(c, ParametersAt(c, p), ParametersAt(d, p))
    <3>1. CASE p = Pipeline
      BY <2>3, <3>1 DEF JudgedBetter, ParametersAt
    <3>2. CASE p # Pipeline
      BY <1>1, <2>3, <3>2, PlaceBetter DEF JudgedBetter
    <3> QED
      BY <3>1, <3>2
  <2>5. Bad(d, p) \subseteq Bad(c, p)
    <3> SUFFICES ASSUME NEW n \in DOMAIN ParametersAt(d, p), ~checkEnumTypeDefinition(ParametersAt(d, p)[n])
                 PROVE  n \in Bad(c, p)
      OBVIOUS
    <3>1. n \in DOMAIN ParametersAt(c, p) /\ Improved(c, ParametersAt(c, p)[n], ParametersAt(d, p)[n])
      BY <2>4 DEF AllBetter, Better
    <3> QED
      BY <3>1, ImprovedFacts
  <2> HIDE DEF Bad
  <2>6. e \in Each(c, p)
    BY <2>2, <2>5
  <2> HIDE DEF Each
  <2> QED
    BY <2>1, <2>2, <2>6
<1>4. ASSUME NEW p \in DOMAIN c.entities, e \in EntityErrors(d, p)
      PROVE  e \in EntityErrors(c, p)
  <2>1. /\ d.entities[p].steps = c.entities[p].steps /\ d.entities[p].executor = c.entities[p].executor
        /\ StepsAt(d, p) = StepsAt(c, p)
        /\ p # Pipeline
    BY <1>2 DEF SameUses, StepsAt
  <2> DEFINE x == c.entities[p].executor
  <2>2. CASE \E s \in StepsAt(c, p) : e \in StepErrors(d, p, s)
    <3>1. PICK s \in StepsAt(c, p) : e \in StepErrors(d, p, s)
      BY <2>2
    <3>2. e \in StepErrors(c, p, s)
      BY <1>1, <2>1, <3>1, StepBetter
    <3> QED
      BY <3>2 DEF EntityErrors
  <2>3. CASE x # None /\ e \in ExecutorErrors(d, p, x)
    <3>1. e.at = p /\ e.entity = IF NamesExecutor(d, x.name) THEN x.name.word ELSE p.name
      BY <2>3, ExecutorErrorFields
    <3>2. NamesExecutor(d, x.name) <=> NamesExecutor(c, x.name)
      BY <1>1, EntitiesSame
    <3>3. e.entity = IF NamesExecutor(c, x.name) THEN x.name.word ELSE p.name
      BY <3>1, <3>2
    <3>4. ExecutorErrors(d, p, x) \subseteq ExecutorErrors(c, p, x)
      BY <1>1, <2>1, <2>3, <3>1, <3>3, ExecutorBetter DEF JudgedBetter
    <3> QED
      BY <2>3, <3>4 DEF EntityErrors
  <2> QED
    BY <1>4, <2>1, <2>2, <2>3 DEF EntityErrors
<1>5. ASSUME NEW i \in c.invocations, e \in InvocationErrors(d, i)
      PROVE  e \in InvocationErrors(c, i)
  <2>1. e.at = Workflow /\ e.entity = i.job
    BY <1>5, InvocationErrorFields
  <2>2. PlainMatrix(i)
    BY DEF Parsed
  <2> QED
    BY <1>1, <1>5, <2>1, <2>2, InvocationBetter DEF JudgedBetter
<1>6. \/ e \in EnumErrors(d) \/ e \in Undefined(d)
      \/ \E p \in DOMAIN c.entities : e \in EntityErrors(d, p)
      \/ \E i \in c.invocations : e \in InvocationErrors(d, i)
  BY <1>1 DEF Errors, Undefined
<1>7. /\ EnumErrors(c) \subseteq Errors(c)
      /\ \A p \in DOMAIN c.entities : EntityErrors(c, p) \subseteq Errors(c)
      /\ \A i \in c.invocations : InvocationErrors(c, i) \subseteq Errors(c)
  BY DEF Errors
<1> QED
  BY <1>3, <1>4, <1>5, <1>6, <1>7

(* Where no declaration got worse, nothing but a reference can be in error anew.   *)
LEMMA NothingWorse ==
  ASSUME NEW c, NEW d, Parsed(c), SameUses(c, d),
         \A q \in Declarers(c) : AllBetter(c, ParametersAt(c, q), ParametersAt(d, q)),
         Undefined(d) \subseteq Undefined(c)
  PROVE  Errors(d) \subseteq Errors(c)
<1> SUFFICES ASSUME NEW e \in Errors(d)
             PROVE  e \in Errors(c)
  OBVIOUS
<1>1. AllBetter(c, c.pipeline, d.pipeline)
  BY DEF Declarers, ParametersAt
<1>2. JudgedBetter(c, d, e)
  BY <1>1 DEF JudgedBetter, DeclaredBetter, PipelineBetter, Declarers, AllBetter
<1>3. Undefined(c) \subseteq Errors(c)
  BY DEF Undefined, Errors
<1> QED
  BY <1>2, <1>3, ErrorsBetter

(* A name completion offers after `parameters.' or `pipeline.parameters.'         *)
(* (addParameterReferenceCompletion) is one CheckIfParamsExist finds: taking it   *)
(* adds no error of any kind, in any document.                               *)
THEOREM CompletedNamesResolve == Spec => CompletedNamesExist
<1>1. ASSUME TypeOK, [Next]_doc
      PROVE  [\A p \in DOMAIN doc.entities : \A r \in doc'.entities[p].texts \ doc.entities[p].texts :
                r.name \in CompletedNames(doc, p, r.scope) => Errors(doc') \subseteq Errors(doc)]_doc
  <2> SUFFICES ASSUME Next, NEW p \in DOMAIN doc.entities,
                      NEW r \in doc'.entities[p].texts \ doc.entities[p].texts,
                      r.name \in CompletedNames(doc, p, r.scope)
               PROVE  Errors(doc') \subseteq Errors(doc)
    BY <1>1
  <2>1. Parsed(doc)
    BY <1>1 DEF TypeOK
  <2>2. ASSUME NEW q \in Declarers(doc), NEW g, DOMAIN g \subseteq ParamNames, doc' = DeclareSet(q, g)
        PROVE  FALSE
    <3>1. SameBodies(doc, doc')
      BY <2>1, <2>2, DeclareSetBodies
    <3> QED
      BY <3>1 DEF SameBodies, SameBody
  <2>3. Leaves
    <3>1. ASSUME NEW q \in Declarers(doc), NEW n \in ParamNames, NEW v,
                 doc' = DeclareSet(q, WithName(ParametersAt(doc, q), n, v))
          PROVE  FALSE
      BY <2>1, <2>2, <3>1, NamesStay
    <3>2. ASSUME NEW q \in Declarers(doc), NEW n \in ParamNames,
                 doc' = DeclareSet(q, WithoutName(ParametersAt(doc, q), n))
          PROVE  FALSE
      BY <2>1, <2>2, <3>2, NamesStay
    <3> QED
      BY <2>1, <3>1, <3>2, StepKinds
  <2>4. DeclaresNothing /\ ~AddsNoText
    BY <2>3 DEF Leaves, AddsNoText
  <2>5. Mentions(p, r)
    <3>1. PICK q \in DOMAIN doc.entities : \E s : Mentions(q, s)
      BY <2>3, <2>4 DEF Leaves
    <3> QED
      BY <3>1 DEF Mentions
  <2>6. SameUses(doc, doc')
    BY <2>4, <2>5 DEF DeclaresNothing, Mentions, SameUses, SameEntities
  <2>7. \A q \in Declarers(doc) : AllBetter(doc, ParametersAt(doc, q), ParametersAt(doc', q))
    BY <2>4, SameIsBetter DEF DeclaresNothing
  <2> DEFINE new == Occurrence(p, r, <<p.name>>)
  <2>8. ASSUME NEW o \in Occurrences(doc')
        PROVE  o \in Occurrences(doc) \/ o = new
    <3>1. /\ doc'.pipeline = doc.pipeline /\ doc'.invocations = doc.invocations
          /\ DOMAIN doc'.entities = DOMAIN doc.entities
      BY <2>4, <2>5 DEF DeclaresNothing, Mentions
    <3>2. ASSUME NEW q \in DOMAIN doc.entities, o \in InEntity(doc', q)
          PROVE  o \in InEntity(doc, q) \/ o = new
      <4>1. doc'.entities[q].parameters = doc.entities[q].parameters
        <5>1. ParametersAt(doc', q) = ParametersAt(doc, q) /\ q # Pipeline
          BY <2>1, <2>4, PipelineIsNoEntity DEF DeclaresNothing, Declarers, Parsed
        <5> QED
          BY <3>1, <5>1 DEF ParametersAt
      <4>2. /\ doc'.entities[q].steps = doc.entities[q].steps
            /\ doc'.entities[q].executor = doc.entities[q].executor
            /\ doc'.entities[q].texts = IF q = p THEN doc.entities[q].texts \union {r} ELSE doc.entities[q].texts
        BY <2>5 DEF Mentions
      <4>3. \/ o \in {Occurrence(q, t, <<q.name>>) : t \in doc.entities[q].texts} \/ o = new
            \/ o \notin {Occurrence(q, t, <<q.name>>) : t \in doc'.entities[q].texts}
        BY <4>2
      <4> HIDE DEF new
      <4> QED
        BY <3>2, <4>1, <4>2, <4>3 DEF InEntity
    <3> HIDE DEF new
    <3> QED
      BY <3>1, <3>2 DEF Occurrences
  <2>9. Undefined(doc') \subseteq Undefined(doc)
    <3>1. \A o : IsUndefined(doc', o) <=> IsUndefined(doc, o)
      <4>1. /\ doc'.pipeline = doc.pipeline /\ DOMAIN doc'.entities = DOMAIN doc.entities
            /\ \A q \in DOMAIN doc.entities : ParametersAt(doc', q) = ParametersAt(doc, q)
        BY <2>4 DEF DeclaresNothing, Declarers
      <4> QED
        BY <4>1 DEF IsUndefined, GetParamsWithPosition
    <3>2. ~IsUndefined(doc, new)
      <4>1. new.ref = r /\ new.at = p
        BY DEF Occurrence
      <4> HIDE DEF new
      <4> QED
        BY <4>1 DEF IsUndefined, CompletedNames
    <3>3. UndefinedReferences(doc') \subseteq UndefinedReferences(doc)
      <4> HIDE DEF new
      <4> QED
        BY <2>8, <3>1, <3>2 DEF UndefinedReferences
    <3> QED
      BY <3>3 DEF Undefined
  <2> QED
    BY <2>1, <2>6, <2>7, <2>9, NothingWorse
<1> QED
  BY <1>1, TypeCorrect, PTL DEF Spec, CompletedNamesExist

(* A default the declaration takes, or one completion offers, mentions nothing.   *)
LEMMA TakenDefaults ==
  ASSUME NEW d, NEW q, NEW r, TakesItsDefault(d, q, r)
  PROVE  Improved(d, q, r) /\ RefsIn(r.default) = {}
<1> DEFINE v == r.default
<1>1. q.default = None /\ v # None /\ r.type = q.type /\ r.enum = q.enum /\ GetType(r) = GetType(q)
  BY DEF TakesItsDefault, GetType
<1>2. GetType(q) \in Types /\ (q.type = "enum" => GetType(q) = "enum")
  BY DEF GetType, Types
<1>3. CASE v \in CompletedDefaults(d, q)
  <2>1. CASE GetType(q) = "enum"
    <3>1. v.kind = "text" /\ v.word \in q.enum
      BY <1>3, <2>1 DEF CompletedDefaults, Text
    <3> QED
      BY <1>1, <2>1, <3>1 DEF TakenDefault, RefsIn, Improved
  <2>2. CASE GetType(q) = "executor"
    <3>1. v.kind = "text" /\ v.word \in Entities(d, "executor")
      BY <1>3, <2>2 DEF CompletedDefaults, Text
    <3> QED
      BY <1>1, <1>2, <2>2, <3>1 DEF TakenDefault, RefsIn, Improved, NamesExecutor
  <2>3. CASE GetType(q) \notin {"enum", "executor"}
    <3>1. v.kind = "boolean"
      BY <1>3, <2>3 DEF CompletedDefaults, Scalar
    <3> QED
      BY <1>1, <1>2, <2>3, <3>1 DEF TakenDefault, RefsIn, Improved
  <2> QED
    BY <2>1, <2>2, <2>3
<1>4. CASE v \notin CompletedDefaults(d, q)
  <2>1. /\ ~IsReference(v) /\ AcceptsValue(d, q, v)
        /\ GetType(q) = "executor" => NamesExecutor(d, v)
    BY <1>4 DEF TakesItsDefault
  <2>2. v.kind # "map" /\ (GetType(q) = "enum" => v.kind = "text" /\ v.word \in q.enum)
    <3>1. CASE GetType(q) = "enum"
      BY <2>1, <3>1 DEF AcceptsValue
    <3>2. CASE GetType(q) = "executor"
      BY <2>1, <3>2 DEF NamesExecutor
    <3>3. CASE GetType(q) = "steps"
      BY <2>1, <3>3 DEF AcceptsValue, StepsValue
    <3>4. CASE GetType(q) = "env_var_name"
      BY <2>1, <3>4 DEF AcceptsValue, ValueType
    <3>5. CASE GetType(q) \notin {"enum", "executor", "steps", "env_var_name"}
      <4>1. ValueType(v) = GetType(q)
        BY <2>1, <3>5 DEF AcceptsValue, SimpleValue
      <4>2. ValueType(v) # "map"
        BY <1>2, <4>1 DEF Types
      <4> QED
        BY <3>5, <4>2 DEF ValueType
    <3> QED
      BY <3>1, <3>2, <3>3, <3>4, <3>5
  <2>3. RefsIn(v) = {}
    BY <2>1, <2>2 DEF RefsIn, IsReference
  <2> QED
    BY <1>1, <1>2, <2>1, <2>2, <2>3 DEF TakenDefault, Improved
<1> QED
  BY <1>3, <1>4

(* A default that its declaration takes (addParametersDefinitionCompletion,       *)
(* checkParamSimpleType) adds no error anywhere, in any document: calls that      *)
(* left the parameter out, `when' and `executor' that name it, all are judged by   *)
(* the same type and a better value.                                         *)
THEOREM DefaultsHelp == Spec => DefaultsOnlyHelp
<1>1. ASSUME TypeOK, [Next]_doc
      PROVE  [\A p \in Declarers(doc) : \A n \in Changed(p) :
                /\ n \in Both(ParametersAt(doc, p), ParametersAt(doc', p))
                /\ TakesItsDefault(doc, ParametersAt(doc, p)[n], ParametersAt(doc', p)[n])
                => Errors(doc') \subseteq Errors(doc)]_doc
  <2> SUFFICES ASSUME Next, NEW p \in Declarers(doc), NEW n \in Changed(p),
                      n \in Both(ParametersAt(doc, p), ParametersAt(doc', p)),
                      TakesItsDefault(doc, ParametersAt(doc, p)[n], ParametersAt(doc', p)[n])
               PROVE  Errors(doc') \subseteq Errors(doc)
    BY <1>1
  <2>1. Parsed(doc)
    BY <1>1 DEF TypeOK
  <2>2. ParametersAt(doc, p)[n] # ParametersAt(doc', p)[n]
    BY DEF Changed, Both
  <2>3. ~Leaves
    BY <2>2 DEF Leaves, DeclaresNothing
  <2>4. ASSUME NEW q \in Declarers(doc), NEW m \in ParamNames,
               doc' = DeclareSet(q, WithoutName(ParametersAt(doc, q), m))
        PROVE  FALSE
    <3> DEFINE f == ParametersAt(doc, q)
               g == WithoutName(f, m)
    <3>1. \A s \in DOMAIN g : g[s] = f[s]
      BY WithoutNameDomain
    <3>2. ParametersAt(doc', p) = IF p = q THEN g ELSE ParametersAt(doc, p)
      BY <2>1, <2>4, NamesStay, DeclareSetParsed
    <3> QED
      BY <2>2, <3>1, <3>2 DEF Both
  <2>5. PICK q \in Declarers(doc), m \in ParamNames :
          \E v : doc' = DeclareSet(q, WithName(ParametersAt(doc, q), m, v))
    BY <2>1, <2>3, <2>4, StepKinds
  <2>6. PICK v : doc' = DeclareSet(q, WithName(ParametersAt(doc, q), m, v))
    BY <2>5
  <2> DEFINE f == ParametersAt(doc, q)
             g == WithName(f, m, v)
  <2>7. /\ SameBodies(doc, doc')
        /\ \A s \in Declarers(doc) : ParametersAt(doc', s) = IF s = q THEN g ELSE ParametersAt(doc, s)
    BY <2>1, <2>6, NamesStay, DeclareSetParsed, DeclareSetBodies
  <2>8. \A s : s # m => (s \in DOMAIN g <=> s \in DOMAIN f) /\ (s \in DOMAIN f => g[s] = f[s])
    BY DEF WithName
  <2>9. p = q /\ n = m
    BY <2>2, <2>7, <2>8 DEF Both
  <2> HIDE DEF f, g
  <2>10. /\ n \in DOMAIN f /\ n \in DOMAIN g
         /\ Improved(doc, f[n], g[n]) /\ RefsIn(g[n].default) = {}
    BY <2>7, <2>9, TakenDefaults DEF Both, f
  <2>11. AllBetter(doc, f, g) /\ NoNewRefs(f, g)
    BY <2>8, <2>9, <2>10 DEF AllBetter, Better, Improved, NoNewRefs
  <2>12. ASSUME NEW s \in Declarers(doc)
         PROVE  /\ AllBetter(doc, ParametersAt(doc, s), ParametersAt(doc', s))
                /\ NoNewRefs(ParametersAt(doc, s), ParametersAt(doc', s))
    <3>1. CASE s = q
      BY <2>7, <2>11, <3>1 DEF f
    <3>2. CASE s # q
      BY <2>7, <3>2, SameIsBetter DEF NoNewRefs
    <3> QED
      BY <3>1, <3>2
  <2>13. Occurrences(doc') \subseteq Occurrences(doc)
    BY <2>1, <2>7, <2>12, FewerOccurrences
  <2>14. \A o : IsUndefined(doc', o) <=> IsUndefined(doc, o)
    <3>1. \A s \in Declarers(doc) : DOMAIN ParametersAt(doc', s) = DOMAIN ParametersAt(doc, s)
      BY <2>12 DEF AllBetter, Better
    <3>2. DOMAIN doc'.entities = DOMAIN doc.entities
      BY <2>7 DEF SameBodies
    <3>3. DOMAIN doc'.pipeline = DOMAIN doc.pipeline
      BY <3>1 DEF Declarers, ParametersAt
    <3> QED
      BY <3>1, <3>2, <3>3 DEF IsUndefined, GetParamsWithPosition, Declarers
  <2>15. Undefined(doc') \subseteq Undefined(doc)
    <3>1. UndefinedReferences(doc') \subseteq UndefinedReferences(doc)
      BY <2>13, <2>14 DEF UndefinedReferences
    <3> QED
      BY <3>1 DEF Undefined
  <2>16. SameUses(doc, doc')
    BY <2>7 DEF SameBodies, SameBody, SameUses, SameEntities
  <2> QED
    BY <2>1, <2>12, <2>15, <2>16, NothingWorse
<1> QED
  BY <1>1, TypeCorrect, PTL DEF Spec, DefaultsOnlyHelp

(* An error where nothing differs, in sight of no parameter that differs, is in     *)
(* both documents.                                                          *)
SameAt(f, g, n) == (n \in DOMAIN f <=> n \in DOMAIN g) /\ (n \in DOMAIN f => g[n] = f[n])
OutOfSight(c, d, p, e) ==
  /\ e.at # p /\ (p # Pipeline => e.entity # p.name)
  /\ p = Pipeline => \A o \in Occurrences(c) : o.at = e.at => SameAt(c.pipeline, d.pipeline, o.ref.name)

LEMMA OutOfSightStays ==
  ASSUME NEW c, NEW d, Parsed(c), SameBodies(c, d), NEW p \in Declarers(c),
         \A q \in Declarers(c) : q # p => ParametersAt(d, q) = ParametersAt(c, q),
         NEW e \in Errors(d), OutOfSight(c, d, p, e)
  PROVE  e \in Errors(c)
<1>1. p # Pipeline => d.pipeline = c.pipeline
  BY DEF Declarers, ParametersAt
<1>2. Pipeline \notin DOMAIN c.entities /\ DOMAIN d.entities = DOMAIN c.entities
  BY PipelineIsNoEntity DEF Parsed, SameBodies
<1>3. SameUses(c, d)
  BY DEF SameBodies, SameBody, SameUses, SameEntities
<1>4. JudgedBetter(c, d, e)
  <2>1. DeclaredBetter(c, d, e.at, e.entity)
    <3> SUFFICES ASSUME NEW q \in DOMAIN c.entities, q = e.at \/ q.name = e.entity
                 PROVE  AllBetter(c, ParametersAt(c, q), ParametersAt(d, q))
      BY DEF DeclaredBetter
    <3>1. q # p
      BY <1>2 DEF OutOfSight
    <3>2. ParametersAt(d, q) = ParametersAt(c, q)
      BY <3>1 DEF Declarers
    <3> QED
      BY <3>2, SameIsBetter
  <2>2. PipelineBetter(c, d, e.at)
    <3>1. CASE p = Pipeline
      BY <3>1 DEF OutOfSight, PipelineBetter, SameAt, Better, Improved
    <3>2. CASE p # Pipeline
      BY <1>1, <3>2, SameIsBetter DEF PipelineBetter, AllBetter
    <3> QED
      BY <3>1, <3>2
  <2>3. e.at = Pipeline => AllBetter(c, c.pipeline, d.pipeline)
    BY <1>1, SameIsBetter DEF OutOfSight
  <2> QED
    BY <2>1, <2>2, <2>3 DEF JudgedBetter
<1>5. ASSUME e \in Undefined(d)
      PROVE  e \in Undefined(c)
  <2>1. PICK o \in UndefinedReferences(d) : e = Error("undefined", o.at, None, o.ref.name)
    BY <1>5 DEF Undefined
  <2>2. e.at = o.at
    <3>1. \E what, n : e = Error(what, o.at, None, n)
      BY <2>1
    <3> QED
      BY <3>1, ErrorFields
  <2>3. o \in Occurrences(d) /\ IsUndefined(d, o) /\ o.at # p
    BY <2>2 DEF UndefinedReferences, OutOfSight
  <2>4. o \in Occurrences(c)
    <3>1. o.at \in Declarers(c) => NoNewRefs(ParametersAt(c, o.at), ParametersAt(d, o.at))
      BY <2>3 DEF NoNewRefs
    <3> QED
      BY <2>3, <3>1, FewerOccurrences
  <2>5. GetParamsWithPosition(d, o.at) = GetParamsWithPosition(c, o.at)
    BY <1>2, <2>3 DEF GetParamsWithPosition, Declarers
  <2>6. o.ref.name \in DOMAIN c.pipeline <=> o.ref.name \in DOMAIN d.pipeline
    BY <1>1, <2>2, <2>4 DEF OutOfSight, SameAt
  <2>7. o \in UndefinedReferences(c)
    BY <2>3, <2>4, <2>5, <2>6 DEF UndefinedReferences, IsUndefined
  <2> QED
    BY <2>1, <2>7 DEF Undefined
<1>6. Undefined(c) \subseteq Errors(c)
  BY DEF Undefined, Errors
<1> QED
  BY <1>3, <1>4, <1>5, <1>6, ErrorsBetter

(* An edit of a declaration adds and removes errors only at the entity it          *)
(* belongs to, at its callers and, for a pipeline parameter, where its name is      *)
(* mentioned: the validator keeps no other link between declarations and uses.     *)
THEOREM DeclarationsStayLocal == Spec => DeclarationsErrLocally
<1>1. ASSUME TypeOK, TypeOK', [Next]_doc
      PROVE  [\A p \in Declarers(doc) :
                Changed(p) # {} =>
                  \A e \in (Errors(doc) \ Errors(doc')) \union (Errors(doc') \ Errors(doc)) : InSight(p, e)]_doc
  <2> SUFFICES ASSUME Next, NEW p \in Declarers(doc), Changed(p) # {},
                      NEW e \in (Errors(doc) \ Errors(doc')) \union (Errors(doc') \ Errors(doc)),
                      ~InSight(p, e)
               PROVE  FALSE
    BY <1>1
  <2>1. Parsed(doc) /\ Parsed(doc')
    BY <1>1 DEF TypeOK
  <2>2. ParametersAt(doc', p) # ParametersAt(doc, p)
    BY DEF Changed, Both
  <2>3. \E q \in Declarers(doc) : \E g : DOMAIN g \subseteq ParamNames /\ doc' = DeclareSet(q, g)
    <3>1. ~Leaves
      BY <2>2 DEF Leaves, DeclaresNothing
    <3>2. ASSUME NEW q \in Declarers(doc), NEW n \in ParamNames, NEW v,
                 doc' = DeclareSet(q, WithName(ParametersAt(doc, q), n, v))
          PROVE  \E g : DOMAIN g \subseteq ParamNames /\ doc' = DeclareSet(q, g)
      BY <2>1, <3>2, NamesStay
    <3>3. ASSUME NEW q \in Declarers(doc), NEW n \in ParamNames,
                 doc' = DeclareSet(q, WithoutName(ParametersAt(doc, q), n))
          PROVE  \E g : DOMAIN g \subseteq ParamNames /\ doc' = DeclareSet(q, g)
      BY <2>1, <3>3, NamesStay
    <3> QED
      BY <2>1, <3>1, <3>2, <3>3, StepKinds
  <2>4. /\ SameBodies(doc, doc')
        /\ \A q \in Declarers(doc) : q # p => ParametersAt(doc', q) = ParametersAt(doc, q)
    <3>1. PICK q \in Declarers(doc) : \E g : DOMAIN g \subseteq ParamNames /\ doc' = DeclareSet(q, g)
      BY <2>3
    <3>2. PICK g : DOMAIN g \subseteq ParamNames /\ doc' = DeclareSet(q, g)
      BY <3>1
    <3>3. \A s \in Declarers(doc) : ParametersAt(doc', s) = IF s = q THEN g ELSE ParametersAt(doc, s)
      BY <2>1, <3>2, DeclareSetParsed
    <3>4. p = q
      BY <2>2, <3>3
    <3> QED
      BY <2>1, <3>2, <3>3, <3>4, DeclareSetBodies
  <2>5. /\ SameBodies(doc', doc) /\ Declarers(doc') = Declarers(doc)
        /\ \A q \in Declarers(doc) : q # p => ParametersAt(doc, q) = ParametersAt(doc', q)
    BY <2>4 DEF SameBodies, SameBody, Declarers
  <2>6. e.at # p /\ (p # Pipeline => e.entity # p.name)
    BY DEF InSight
  <2>7. ASSUME p = Pipeline, NEW o \in Occurrences(doc), o.at = e.at
        PROVE  SameAt(doc.pipeline, doc'.pipeline, o.ref.name)
    <3>1. o.ref.name \notin Changed(p)
      BY <2>7 DEF InSight
    <3>2. ParametersAt(doc, p) = doc.pipeline /\ ParametersAt(doc', p) = doc'.pipeline
      BY <2>7 DEF ParametersAt
    <3>3. DOMAIN doc.pipeline \subseteq ParamNames /\ DOMAIN doc'.pipeline \subseteq ParamNames
      BY <2>1 DEF Parsed
    <3> QED
      BY <3>1, <3>2, <3>3 DEF Changed, Both, SameAt
  <2>8. CASE e \in Errors(doc')
    <3>1. OutOfSight(doc, doc', p, e)
      BY <2>6, <2>7 DEF OutOfSight
    <3> QED
      BY <2>1, <2>4, <2>8, <3>1, OutOfSightStays
  <2>9. CASE e \in Errors(doc)
    <3>1. ASSUME p = Pipeline, NEW o \in Occurrences(doc'), o.at = e.at
          PROVE  SameAt(doc'.pipeline, doc.pipeline, o.ref.name)
      <4>1. o \in Occurrences(doc)
        <5>1. o.at \in Declarers(doc) => NoNewRefs(ParametersAt(doc, o.at), ParametersAt(doc', o.at))
          BY <2>4, <2>6, <3>1 DEF NoNewRefs
        <5> QED
          BY <2>1, <2>4, <5>1, FewerOccurrences
      <4>2. SameAt(doc.pipeline, doc'.pipeline, o.ref.name)
        BY <2>7, <3>1, <4>1
      <4> QED
        BY <4>2 DEF SameAt
    <3>2. OutOfSight(doc', doc, p, e)
      BY <2>6, <3>1 DEF OutOfSight
    <3> QED
      BY <2>1, <2>5, <2>9, <3>2, OutOfSightStays
  <2> QED
    BY <2>8, <2>9
<1> QED
  BY <1>1, TypeCorrect, PTL DEF Spec, DeclarationsErrLocally
=============================================================================
