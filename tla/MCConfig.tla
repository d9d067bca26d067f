------------------------------ MODULE MCConfig ------------------------------
(***************************************************************************)
(* Two plain names, a remote orb "o", a local orb "l" and an orb "p" whose  *)
(* version is a pipeline parameter.                                        *)
(***************************************************************************)
EXTENDS ConfigEditing

MCWords == {"a", "b", "o", "l", "p", "run"}
MCOrbNames == {"o", "l", "p"}
MCOrbInfo ==
  [x \in MCOrbNames |->
     CASE x = "o" -> [jobs |-> {"a"}, commands |-> {"b"}, executors |-> {"a"}]
       [] x = "l" -> [jobs |-> {}, commands |-> {"a"}, executors |-> {"b"}]
       [] x = "p" -> Unknown]

Body(steps, executor) == [steps |-> steps, executor |-> executor]
MCJobBodies ==
  {Body({}, None), Body({Plain("a")}, Plain("b")),
   Body({InOrb("o", "b")}, InOrb("l", "b")), Body({InOrb("o", "a"), InOrb("p", "a")}, InOrb("o", "a"))}
MCCommandBodies == {{Plain("a"), Plain("run")}, {InOrb("l", "a")}}

Invoke(n, as, requires, type, steps, keys) ==
  [job |-> n, name |-> as, requires |-> requires, type |-> type, steps |-> steps, keys |-> keys]
MCInvocationBodies ==
  {Invoke(Plain("a"), Plain("a"), {}, "", {}, {}),
   Invoke(Plain("a"), Plain("b"), {Plain("a")}, "", {}, {"serial-group"}),
   Invoke(Plain("a"), Plain("a"), {Plain("b")}, "", {}, {}),
   Invoke(Plain("b"), Plain("b"), {Plain("a")}, "", {Plain("b")}, {}),
   Invoke(Plain("b"), Plain("b"), {}, "approval", {}, {}),
   Invoke(InOrb("o", "a"), InOrb("o", "a"), {}, "", {InOrb("l", "a")}, {"matrix"}),
   Invoke(InOrb("p", "a"), InOrb("p", "a"), {}, "", {}, {})}

(* An empty configuration, one with a group that a workflow invokes, and one *)
(* whose workflow requires a job that two groups hold.                      *)
MCOpened ==
  {EmptyDocument,
   [EmptyDocument EXCEPT
      !.jobs = [w \in {"a"} |-> Body({Plain("b")}, None)],
      !.groups = [w \in {"b"} |-> <<Invoke(Plain("a"), Plain("a"), {}, "", {}, {})>>],
      !.workflows = [w \in {"a"} |-> <<Invoke(Plain("b"), Plain("b"), {}, "", {}, {})>>],
      !.orbs = {"o"}],
   [EmptyDocument EXCEPT
      !.groups = [w \in {"b", "l"} |-> <<Invoke(Plain("a"), Plain("a"), {}, "", {}, {})>>],
      !.workflows = [w \in {"b"} |-> <<Invoke(Plain("b"), Plain("b"), {Plain("a")}, "", {}, {})>>]]}
=============================================================================
