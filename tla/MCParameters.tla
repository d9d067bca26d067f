---------------------------- MODULE MCParameters ----------------------------
(***************************************************************************)
(* A job and a command of the same name, another command that both may call,  *)
(* and an executor.  The only texts are "v", a keyword of `when' and the       *)
(* executor's name.                                                        *)
(***************************************************************************)
EXTENDS ParameterEditing

MCWords == {"a", "v", "always"}

X == Ref("parameters", "x", TRUE, FALSE)
PipelineX == Ref("pipeline.parameters", "x", TRUE, FALSE)
MCDeclarations ==
  {Declared("string", {}, Text("always")), Declared("integer", {}, None),
   Declared("enum", {"v"}, None), Declared("enum", {"v"}, Text("a")),
   Declared("executor", {}, None), Declared("executor", {}, MapOf(Text("a"))),
   Declared("steps", {}, ListOf({Scalar("step")})),
   Declared("other", {}, X)}
MCValues ==
  {Text("v"), Scalar("integer"), ListOf({Scalar("step"), Text("b")}),
   X, PipelineX, Ref("parameters", "x", FALSE, TRUE)}

MCSteps ==
  {Call("b", NoArguments), Run(X, Text("always")), Run(None, PipelineX), StepsFrom("x"),
   When({Call("b", NoArguments), KeyOnly("c")})}
MCExecutors == {Executor(Text("a"), [n \in {"x"} |-> PipelineX]), Executor(X, NoArguments)}
MCInvocations ==
  {Invocation("a", [n \in {"x"} |-> PipelineX], NoArguments),
   Invocation("a", [n \in {"x"} |-> PipelineX], [n \in {"x"} |-> ListOf({Text("v"), Scalar("integer")})]),
   Invocation("b", [n \in {"x"} |-> PipelineX], NoArguments)}

Of(job, command) ==
  [p \in {Place("job", "a"), Place("command", command), Place("executor", "a")} |->
     Body(NoArguments, IF p.kind = "job" THEN job ELSE {}, None, {})]
MCOpened ==
  {[pipeline |-> NoArguments, entities |-> Of({Call("b", NoArguments)}, "b"), invocations |-> {}],
   [pipeline |-> NoArguments, entities |-> Of({Call("a", NoArguments)}, "a"), invocations |-> {}]}
=============================================================================
